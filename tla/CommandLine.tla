---------------------------- MODULE CommandLine ----------------------------
(***************************************************************************)
(* What a command line promises the person at the keyboard: the line holds *)
(* what was typed and not erased; Enter runs the command the line's first  *)
(* word names on the words after it; then the line is empty again.         *)
(*                                                                         *)
(* kernel/shell.c implements this in one buffer that it edits in place     *)
(* (module Shell).                                                         *)
(***************************************************************************)
EXTENDS Integers, Sequences, FiniteSets, FiniteSetsExt

CONSTANTS
  Chars,      (* the characters that can be typed into a line            *)
  Blank,      (* the one that separates words                            *)
  MaxLine,    (* the longest line                                        *)
  MaxWords,   (* how many words of a line count                          *)
  Commands    (* a sequence of [name |-> its word, func |-> what it does] *)

VARIABLES
  line,       (* what has been typed                                     *)
  job,        (* the line being run, <<>> when none is                   *)
  out         (* what running it printed, None before it ran             *)

vars == <<line, job, out>>

None == [func |-> "none", words |-> <<>>]

\* Where the words of l start: at its first character and behind each blank.
Starts(l) == {p \in 1 .. Len(l) : p = 1 \/ l[p - 1] = Blank}

Before(l, p) == {q \in Starts(l) : q < p}

\* The word that starts at p ends before the next blank, even if that leaves
\* it empty, or with the line.
WordEnd(l, p) == Min({i \in p .. Len(l) : l[i] = Blank} \cup {Len(l) + 1})
WordAt(l, p)  == SubSeq(l, p, WordEnd(l, p) - 1)

\* The words of l in their order, as many as count.
Words(l) ==
  LET n == Cardinality(Starts(l))
      start(k) == CHOOSE p \in Starts(l) : Cardinality(Before(l, p)) = k - 1
  IN  [k \in 1 .. IF n < MaxWords THEN n ELSE MaxWords |-> WordAt(l, start(k))]

Named(w) == {i \in DOMAIN Commands : Commands[i].name = w}

\* What the line does: the command its first word names, and what it prints
\* of the line: the words after the first for echo, an unknown first word.
Outcome(l) ==
  LET w == Words(l) IN
  IF Named(w[1]) = {} THEN [func |-> "not found", words |-> <<w[1]>>]
  ELSE LET f == Commands[CHOOSE i \in Named(w[1]) : TRUE].func
       IN  [func |-> f, words |-> IF f = "echo" THEN Tail(w) ELSE <<>>]

Init ==
  /\ line = <<>>
  /\ job  = <<>>
  /\ out  = None

Type(c) ==
  /\ job = <<>> /\ Len(line) < MaxLine
  /\ line' = Append(line, c)
  /\ UNCHANGED <<job, out>>

Erase ==
  /\ job = <<>> /\ line # <<>>
  /\ line' = SubSeq(line, 1, Len(line) - 1)
  /\ UNCHANGED <<job, out>>

Enter ==
  /\ job = <<>> /\ line # <<>>
  /\ job'  = line
  /\ line' = <<>>
  /\ UNCHANGED out

Run ==
  /\ job # <<>> /\ out = None
  /\ out' = Outcome(job)
  /\ UNCHANGED <<line, job>>

Done ==
  /\ out # None /\ out.func # "panic"
  /\ job' = <<>>
  /\ out' = None
  /\ UNCHANGED line

Next == (\E c \in Chars : Type(c)) \/ Erase \/ Enter \/ Run \/ Done

Spec == Init /\ [][Next]_vars
=============================================================================
