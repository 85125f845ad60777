------------------------------ MODULE MCShell ------------------------------
(***************************************************************************)
(* A shell with a 5-byte buffer, 4 argument slots and one- and two-letter  *)
(* command names, so that typed words are names, prefixes of names, names  *)
(* with a letter too many, empty, and more than fit argv.                  *)
(***************************************************************************)
EXTENDS Shell

Letters == {"h", "e", "p", " "}

Table ==
  << [name |-> <<"h", "e">>, func |-> "help"],
     [name |-> <<"e">>,      func |-> "echo"],
     [name |-> <<"h", "h">>, func |-> "memstat"],
     [name |-> <<"h", "p">>, func |-> "clear"],
     [name |-> <<"p">>,      func |-> "panic"] >>
=============================================================================
