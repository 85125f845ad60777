----------------------------- MODULE CoreShell -----------------------------
(***************************************************************************)
(* The commands of CoreSH in coresystem.c: cmd_klog, cmd_lspci, cmd_top,   *)
(* cmd_uptime and cmd_hexdump, and shell_printf, which they print with.    *)
(* One call of shell_printf is one element of out: the format, and what    *)
(* each of its conversions became. No call of these commands comes near    *)
(* the 512 bytes of shell_printf's buffer.                                 *)
(***************************************************************************)
EXTENDS Conversions

CONSTANTS
  Memory(_),    (* the byte at an address                                  *)
  Arguments,    (* the argument lists of hexdump, in character codes       *)
  TickCounts,   (* values of system_tick_count                             *)
  Garbage       (* what the stack may hold where ascii_buf comes to lie    *)

\* Memory and the stack hold bytes, an argument is a string of characters,
\* and the tick counter is a word.
ASSUME CoreShellAssumption ==
  /\ \A a \in 0 .. Word - 1 : Memory(a) \in 0 .. 255
  /\ Arguments \subseteq Seq(Seq(1 .. 255))
  /\ TickCounts \subseteq 0 .. Word - 1
  /\ Garbage \subseteq [0 .. 15 -> 0 .. 255]

\* Bytes per row of a dump.
RowLen == 16

SCHEDULER_QUANTUM_MS == 20

VARIABLES
  pc,           (* "idle" between commands, "dump" in cmd_hexdump's loop   *)
  call,         (* the command that runs, or ran last, with its input      *)
  i,
  ascii_buf,    (* its last cell, always NUL, left out                     *)
  out,          (* what the command has printed                            *)
  ret           (* what it returned                                        *)

vars == <<pc, call, i, ascii_buf, out, ret>>

Columns == 0 .. RowLen - 1

Init ==
  /\ pc = "idle" /\ call = [cmd |-> "none"]
  /\ i = 0 /\ ascii_buf \in Garbage
  /\ out = <<>> /\ ret = 0

-----------------------------------------------------------------------------
(* shell_printf *)

\* A character string as %s prints it: up to its NUL.
CString(b) ==
  LET end == CHOOSE k \in 0 .. RowLen :
               /\ \A j \in 0 .. k - 1 : b[j] # 0
               /\ k = RowLen \/ b[k] = 0
  IN  [j \in 1 .. end |-> b[j - 1]]

Text(fmt)  == [fmt |-> fmt, shown |-> <<>>]
Row(addr)  == [fmt |-> "row",  shown |-> <<Hex(addr)>>]
Byte(b)    == [fmt |-> "byte", shown |-> <<Hex(b)>>]
Ascii(buf) == [fmt |-> "ascii", shown |-> <<CString(buf)>>]
Uptime(numbers) ==
  [fmt |-> "uptime", shown |-> [k \in DOMAIN numbers |-> Decimal(numbers[k])]]

-----------------------------------------------------------------------------
(* The commands that print at once *)

\* process_table is never filled, so cmd_top stops after its two headers.
Lines == [klog |-> 9, lspci |-> 5, top |-> 2]

PrintLines(cmd) ==
  /\ pc = "idle"
  /\ call' = [cmd |-> cmd]
  /\ out' = [k \in 1 .. Lines[cmd] |-> Text(cmd)]
  /\ ret' = 0
  /\ UNCHANGED <<pc, i, ascii_buf>>

\* A mutant of UptimeParts: the remainders are taken before the quotients.
UptimePartsEarly(ticks) ==
  LET seconds == (ticks \div (1000 \div SCHEDULER_QUANTUM_MS)) % 60
      minutes == (seconds \div 60) % 60
      hours   == (minutes \div 60) % 24
  IN  <<hours \div 24, hours, minutes, seconds, ticks>>

UptimeParts(ticks) ==
  LET seconds == ticks \div (1000 \div SCHEDULER_QUANTUM_MS)
      minutes == seconds \div 60
      hours   == minutes \div 60
  IN  <<hours \div 24, hours % 24, minutes % 60, seconds % 60, ticks>>

cmd_uptime(ticks) ==
  /\ pc = "idle"
  /\ call' = [cmd |-> "uptime", ticks |-> ticks]
  /\ out' = <<Uptime(UptimeParts(ticks))>>
  /\ ret' = 0
  /\ UNCHANGED <<pc, i, ascii_buf>>

-----------------------------------------------------------------------------
(* cmd_hexdump *)

HexdumpUsage(args) ==
  /\ pc = "idle" /\ Len(args) < 2
  /\ call' = [cmd |-> "hexdump", args |-> args]
  /\ out' = <<Text("usage")>> /\ ret' = -1
  /\ UNCHANGED <<pc, i, ascii_buf>>

HexdumpStart(args) ==
  /\ pc = "idle" /\ Len(args) >= 2
  /\ call' = [cmd |-> "hexdump", args |-> args]
  /\ pc' = "dump" /\ i' = 0 /\ out' = <<>>
  /\ ascii_buf' \in Garbage
  /\ UNCHANGED ret

addr == atoi(call.args[1])
len  == atoi(call.args[2])

Printable(b) == IF b \in 32 .. 126 THEN b ELSE 46

\* The loop body: a new row closes the one before and shows its address.
DumpByte ==
  /\ pc = "dump" /\ i < len
  /\ LET byte == Memory((addr + i) % Word)
         new  == IF i % RowLen = 0 THEN <<Row((addr + i) % Word)>> ELSE <<>>
         old  == IF i % RowLen = 0 /\ i > 0 THEN <<Ascii(ascii_buf)>> ELSE <<>>
     IN  /\ out' = out \o old \o new \o <<Byte(byte)>>
         /\ ascii_buf' = [ascii_buf EXCEPT ![i % RowLen] = Printable(byte)]
  /\ i' = i + 1
  /\ UNCHANGED <<pc, call, ret>>

\* A mutant of Missing: a full last row is filled up too.
MissingInFullRow == RowLen - (len % RowLen)

\* How many bytes the last row lacks.
Missing == IF len % RowLen = 0 THEN 0 ELSE RowLen - (len % RowLen)

\* The rest of the last row is blank, and its characters end the dump.
EndDump ==
  /\ pc = "dump" /\ i >= len
  /\ ascii_buf' = [c \in Columns |->
                     IF c >= RowLen - Missing THEN 32 ELSE ascii_buf[c]]
  /\ out' = out \o [k \in 1 .. Missing |-> Text("gap")] \o <<Ascii(ascii_buf')>>
  /\ pc' = "idle" /\ ret' = 0
  /\ UNCHANGED <<call, i>>

Next ==
  \/ \E cmd \in DOMAIN Lines : PrintLines(cmd)
  \/ \E ticks \in TickCounts : cmd_uptime(ticks)
  \/ \E args \in Arguments : HexdumpUsage(args) \/ HexdumpStart(args)
  \/ DumpByte \/ EndDump

Spec == Init /\ [][Next]_vars

-----------------------------------------------------------------------------
(* Properties *)

Dumped == pc = "idle" /\ call.cmd = "hexdump" /\ Len(call.args) >= 2

\* A finished dump of at least one byte is a table of the memory it was asked
\* for, read back from its digits: per row the address, RowLen bytes in order
\* or gaps behind the last one, and the characters of the same bytes; across
\* full and partial rows and the end of the address space (coresystem.c:982-1016).
HexdumpShowsMemory ==
  Dumped /\ len > 0 =>
    LET rows == (len + RowLen - 1) \div RowLen
        At(r, k) == out[r * (RowLen + 2) + k]
        Address(n) == (addr + n) % Word
    IN  /\ Len(out) = rows * (RowLen + 2)
        /\ \A r \in 0 .. rows - 1 :
             /\ At(r, 1).fmt = "row"
             /\ Value(At(r, 1).shown[1], 16) = Address(r * RowLen)
             /\ At(r, RowLen + 2).fmt = "ascii"
             /\ Len(At(r, RowLen + 2).shown[1]) = RowLen
             /\ \A c \in Columns :
                  LET n    == r * RowLen + c
                      cell == At(r, c + 2)
                      char == At(r, RowLen + 2).shown[1][c + 1]
                  IN  IF n < len
                      THEN /\ cell.fmt = "byte"
                           /\ Value(cell.shown[1], 16) = Memory(Address(n))
                           /\ char = Printable(Memory(Address(n)))
                      ELSE cell.fmt = "gap" /\ char = 32

\* The uptime shown is the time the ticks took, each part in its range: read
\* back from the digits, days to seconds add up to the seconds that have
\* passed (coresystem.c:921-934), for every tick count up to the width of the
\* counter, where the count itself is shown as a negative number.
UptimeAddsUp ==
  pc = "idle" /\ call.cmd = "uptime" =>
    LET shown == [k \in 1 .. 5 |-> SignedValue(out[1].shown[k])]
    IN  /\ shown[2] \in 0 .. 23 /\ shown[3] \in 0 .. 59 /\ shown[4] \in 0 .. 59
        /\ ((shown[1] * 24 + shown[2]) * 60 + shown[3]) * 60 + shown[4]
             = (call.ticks * SCHEDULER_QUANTUM_MS) \div 1000
        /\ shown[5] % Word = call.ticks
=============================================================================
