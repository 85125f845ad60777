---------------------------- MODULE MCVgaConsole ----------------------------
(***************************************************************************)
(* The console with letters, both control characters and strings that      *)
(* start, cross and end a row. The screen has few rows, but more than 256  *)
(* cells, so that the high byte of the cursor's position matters.          *)
(***************************************************************************)
EXTENDS VgaConsole

SomeChars == {BS, NL, 65, 66}

SomeStrings == {<<65, NL, 66>>, <<NL, NL, BS, 65>>, <<66, 66, 66, 65, BS, NL>>}
=============================================================================
