---------------------------- MODULE MCTrapStubs ----------------------------
(***************************************************************************)
(* Every stub, for a program each half of whose registers and each cell of *)
(* whose stack holds a value of its own, and each of whose four segment    *)
(* registers holds the kernel's data segment or another.                   *)
(***************************************************************************)
EXTENDS TrapStubs

AllStubs == MicroStubs \cup CoreStubs
KeyStub  == {<<"isr.s", 33>>}

OwnRegs   == [r \in General |-> Sym(r)]
OwnFrame  == <<Sym("eip"), Sym("cs"), Sym("eflags")>>
OwnStack  == Sym("top") \o Sym("next")
OwnSegs   == {KernelData, Low(Sym("user data"))}
OwnHalves ==
  OwnSegs \cup UNION {{Sym(r)[1], Sym(r)[2]} :
    r \in General \cup {"eip", "cs", "eflags", "top", "next"}}
=============================================================================
