------------------------------- MODULE Shell -------------------------------
(***************************************************************************)
(* The shell of kernel/shell.c: shell_handle_keypress edits a line in      *)
(* cmd_buffer, and Enter makes shell_execute_command cut the line into     *)
(* words in place with strtok (kernel/string.c), look the first word up in *)
(* the command table with strcmp and call the command.                     *)
(*                                                                         *)
(* Pointers into cmd_buffer are indexes.  The buffer is never cleared, so  *)
(* behind the NUL it holds what earlier lines left there.                  *)
(***************************************************************************)
EXTENDS Integers, Sequences, FiniteSetsExt

CONSTANTS
  Chars,        (* the characters a key can give, Enter and Backspace apart *)
  Blank,        (* ' '                                                   *)
  NUL,          (* '\0'                                                  *)
  MAX_CMD_LEN,
  MaxArgv,      (* the size of argv, 32                                  *)
  commands      (* the command table without its end mark                *)

ASSUME ShellAssumption ==
  /\ Blank \in Chars
  /\ NUL \notin Chars
  /\ MAX_CMD_LEN \in Nat \ {0}
  /\ MaxArgv \in Nat \ {0}

\* The table (shell.c:35-42): its names differ, and are words of characters;
\* argv has a place for a word and for the NULL behind it.
ASSUME TableAssumption ==
  /\ commands \in Seq([name : Seq(Chars),
                       func : {"help", "echo", "memstat", "clear", "panic"}])
  /\ \A i, j \in DOMAIN commands : commands[i].name = commands[j].name => i = j
  /\ MaxArgv > 1

VARIABLES
  pc,           (* "start", "idle" between two key presses, else where the *)
                (* handler is: "split", "dispatch", "prompt"; "panic"    *)
  cmd_buffer,
  cmd_pos,
  last,         (* strtok's static pointer                               *)
  token,        (* what strtok returned                                  *)
  argc,
  argv,
  row,          (* what the row of the prompt shows after the prompt     *)
  out,          (* what the command called by this key press printed     *)
  job           (* history: the line that Enter handed over              *)

args == <<last, token, argc, argv>>
vars == <<pc, cmd_buffer, cmd_pos, args, row, out, job>>

Cells == 0 .. MAX_CMD_LEN - 1
NULL  == -1

\* What is in the buffer before cmd_pos.
Line == [i \in 1 .. cmd_pos |-> cmd_buffer[i - 1]]

NoOutput == [func |-> "none", words |-> <<>>]

Init ==
  /\ pc = "start"
  /\ cmd_buffer = [i \in Cells |-> NUL]
  /\ cmd_pos = 0
  /\ last = NULL /\ token = NULL
  /\ argc = 0 /\ argv = [i \in 0 .. MaxArgv - 1 |-> NULL]
  /\ row = <<>>
  /\ out = NoOutput
  /\ job = <<>>

-----------------------------------------------------------------------------
(* kernel/string.c *)

\* The C string at index s of buffer b.
StringEnd(b, s) == Min({i \in s .. MAX_CMD_LEN - 1 : b[i] = NUL})
StringAt(b, s)  == [i \in 1 .. StringEnd(b, s) - s |-> b[s + i - 1]]

\* Where the word that starts at s ends.
TokenEnd(b, s) == Min({i \in s .. MAX_CMD_LEN - 1 : b[i] \in {Blank, NUL}})

\* strtok where it left off: the token, its static pointer and the buffer
\* after the call.
strtok(b, p) ==
  IF b[p] = NUL THEN [token |-> NULL, last |-> p, buffer |-> b]
  ELSE LET e == TokenEnd(b, p)
       IN  [token  |-> p,
            last   |-> IF b[e] = NUL THEN e ELSE e + 1,
            buffer |-> [b EXCEPT ![e] = NUL]]

Char(s, i) == IF i <= Len(s) THEN s[i] ELSE NUL

\* A mutant of strcmp: equal as soon as s ends, as strncmp with its length.
StrcmpPrefix(s, t) == \A i \in 1 .. Len(s) : s[i] = Char(t, i)

\* strcmp(s, t) = 0: the strings agree at the first position where s ends or
\* they differ.
strcmp(s, t) ==
  LET d == Min({i \in 1 .. Len(s) + 1 :
                  Char(s, i) = NUL \/ Char(s, i) # Char(t, i)})
  IN  Char(s, d) = Char(t, d)

-----------------------------------------------------------------------------
(* shell_handle_keypress *)

\* shell_main_loop only prints the prompt.
shell_main_loop ==
  /\ pc = "start"
  /\ pc' = "idle"
  /\ UNCHANGED <<cmd_buffer, cmd_pos, args, row, out, job>>

\* A mutant of RoomForChar: the last cell is used for a character too.
RoomToTheEnd == cmd_pos < MAX_CMD_LEN

RoomForChar == cmd_pos < MAX_CMD_LEN - 1

KeyChar(c) ==
  /\ pc = "idle"
  /\ IF RoomForChar
       THEN /\ cmd_buffer' = [cmd_buffer EXCEPT ![cmd_pos] = c]
            /\ cmd_pos' = cmd_pos + 1
            /\ row' = Append(row, c)
       ELSE UNCHANGED <<cmd_buffer, cmd_pos, row>>
  /\ UNCHANGED <<pc, args, out, job>>

KeyBackspace ==
  /\ pc = "idle"
  /\ IF cmd_pos > 0
       THEN /\ cmd_pos' = cmd_pos - 1
            /\ row' = SubSeq(row, 1, Len(row) - 1)
       ELSE UNCHANGED <<cmd_pos, row>>
  /\ UNCHANGED <<pc, cmd_buffer, args, out, job>>

\* Enter on an empty line.
KeyEnterEmpty ==
  /\ pc = "idle" /\ cmd_pos = 0
  /\ row' = <<>>
  /\ pc' = "prompt"
  /\ UNCHANGED <<cmd_buffer, cmd_pos, args, out, job>>

\* A mutant of Terminated: the line is not terminated.
Unterminated == cmd_buffer

Terminated == [cmd_buffer EXCEPT ![cmd_pos] = NUL]

\* Enter: the line is terminated and strtok called for its first word.
KeyEnter ==
  /\ pc = "idle" /\ cmd_pos > 0
  /\ row' = <<>>
  /\ job' = Line
  /\ LET r == strtok(Terminated, 0) IN
       /\ cmd_buffer' = r.buffer /\ last' = r.last /\ token' = r.token
  /\ argc' = 0
  /\ argv' = argv
  /\ pc' = "split"
  /\ UNCHANGED <<cmd_pos, out>>

-----------------------------------------------------------------------------
(* shell_execute_command *)

\* A mutant of MoreArguments: argv can fill up, with no place for its NULL.
MoreUpToTheEnd == token # NULL /\ argc < MaxArgv

MoreArguments == token # NULL /\ argc < MaxArgv - 1

StoreArgument ==
  /\ pc = "split" /\ MoreArguments
  /\ argv' = [argv EXCEPT ![argc] = token]
  /\ argc' = argc + 1
  /\ LET r == strtok(cmd_buffer, last) IN
       /\ cmd_buffer' = r.buffer /\ last' = r.last /\ token' = r.token
  /\ UNCHANGED <<pc, cmd_pos, row, out, job>>

\* A mutant of EndArguments: argv is left open.
EndWithoutNull ==
  /\ pc = "split" /\ ~MoreArguments
  /\ pc' = IF argc = 0 THEN "prompt" ELSE "dispatch"
  /\ UNCHANGED <<cmd_buffer, cmd_pos, args, row, out, job>>

EndArguments ==
  /\ pc = "split" /\ ~MoreArguments
  /\ argv' = [argv EXCEPT ![argc] = NULL]
  /\ pc' = IF argc = 0 THEN "prompt" ELSE "dispatch"
  /\ UNCHANGED <<cmd_buffer, cmd_pos, last, token, argc, row, out, job>>

Arg(i) == StringAt(cmd_buffer, argv[i])

\* The entries of the command table that argv[0] names.
Matches == {i \in DOMAIN commands : strcmp(commands[i].name, Arg(0))}

Calls(f) ==
  /\ pc = "dispatch" /\ Matches # {}
  /\ commands[Min(Matches)].func = f
  /\ UNCHANGED <<cmd_buffer, cmd_pos, args, job>>

cmd_help ==
  /\ Calls("help")
  /\ out' = [func |-> "help", words |-> <<>>]
  /\ pc' = "prompt"
  /\ UNCHANGED row

EchoedArguments == [i \in 1 .. argc - 1 |-> Arg(i)]

cmd_echo ==
  /\ Calls("echo")
  /\ out' = [func |-> "echo", words |-> EchoedArguments]
  /\ pc' = "prompt"
  /\ UNCHANGED row

\* Prints the memory counters (module Pmm).
cmd_memstat ==
  /\ Calls("memstat")
  /\ out' = [func |-> "memstat", words |-> <<>>]
  /\ pc' = "prompt"
  /\ UNCHANGED row

cmd_clear ==
  /\ Calls("clear")
  /\ out' = [func |-> "clear", words |-> <<>>]
  /\ row' = <<>>
  /\ pc' = "prompt"

\* panic() does not return.
cmd_panic_test ==
  /\ Calls("panic")
  /\ out' = [func |-> "panic", words |-> <<>>]
  /\ pc' = "panic"
  /\ UNCHANGED row

CommandNotFound ==
  /\ pc = "dispatch" /\ Matches = {}
  /\ out' = [func |-> "not found", words |-> <<Arg(0)>>]
  /\ pc' = "prompt"
  /\ UNCHANGED <<cmd_buffer, cmd_pos, args, row, job>>

\* A mutant of Prompt: the position is not reset.
PromptOnly ==
  /\ pc = "prompt"
  /\ pc' = "idle"
  /\ out' = NoOutput
  /\ job' = <<>>
  /\ UNCHANGED <<cmd_buffer, cmd_pos, args, row>>

\* The end of the handler.
Prompt ==
  /\ pc = "prompt"
  /\ pc' = "idle"
  /\ cmd_pos' = 0
  /\ out' = NoOutput
  /\ job' = <<>>
  /\ UNCHANGED <<cmd_buffer, args, row>>

Command ==
  cmd_help \/ cmd_echo \/ cmd_memstat \/ cmd_clear \/ cmd_panic_test

Key == (\E c \in Chars : KeyChar(c)) \/ KeyBackspace \/ KeyEnterEmpty \/ KeyEnter

Handler == StoreArgument \/ EndArguments \/ Command \/ CommandNotFound \/ Prompt

Next == shell_main_loop \/ Key \/ Handler

Spec == Init /\ [][Next]_vars

\* The handler is straight-line code with a loop: once called it runs on.
FairSpec == Spec /\ WF_vars(Handler)

-----------------------------------------------------------------------------
(* Properties *)

Pointers == Cells \cup {NULL}

\* Positions and pointers stay inside the buffer, and argc inside argv.
TypeOK ==
  /\ pc \in {"start", "idle", "split", "dispatch", "prompt", "panic"}
  /\ cmd_buffer \in [Cells -> Chars \cup {NUL}]
  /\ cmd_pos \in Cells
  /\ last \in Pointers /\ token \in Pointers
  /\ argc \in 0 .. MaxArgv - 1
  /\ argv \in [0 .. MaxArgv - 1 -> Pointers]

\* However the buffer is edited and cut, its last cell stays NUL, so no scan
\* of strtok, strcmp or the screen runs off its end, stale bytes or not.
BufferSealed == cmd_buffer[MAX_CMD_LEN - 1] = NUL

\* Between key presses the screen shows the line the shell will run, through
\* every Backspace, a full buffer and the commands before.
EchoMatchesLine == pc \in {"start", "idle"} => row = Line

\* When a command is called, argv holds argc strings of the buffer, each
\* starting after the one before has ended, and then NULL.
ArgvWellFormed ==
  pc = "dispatch" =>
    /\ argc > 0 /\ argv[argc] = NULL
    /\ \A i \in 0 .. argc - 1 : argv[i] \in Cells
    /\ \A i \in 1 .. argc - 1 :
         argv[i] = StringEnd(cmd_buffer, argv[i - 1]) + 1

CL == INSTANCE CommandLine
        WITH MaxLine  <- MAX_CMD_LEN - 1,
             MaxWords <- MaxArgv - 1,
             Commands <- commands,
             line <- IF pc \in {"start", "idle"} THEN Line ELSE <<>>

\* The shell is a command line: what runs is the command the typed line
\* names, on the words of that line and of no earlier one.
ImplementsCommandLine == CL!Spec

\* A line whose first word is not that of the panic command is run to the
\* end, and the prompt comes back.
PromptComesBack ==
  (job # <<>> /\ CL!Outcome(job).func # "panic") ~> (pc = "idle")
=============================================================================
