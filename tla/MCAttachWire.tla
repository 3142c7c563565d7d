----------------------------- MODULE MCAttachWire -----------------------------
(* A small instance of AttachWire for TLC: the bounds stand to each other as *)
(* in attach-io.ts, and the inputs reach each of them.                       *)
EXTENDS AttachWire

L(bytes, is) == [bytes |-> bytes, is |-> is]

SomeInputs == {
  <<L(1, "command"), L(1, "command"), L(1, "command"), L(1, "command")>>,
  <<L(3, "command"), L(0, "blank"), L(2, "command"), L(2, "command")>>,
  <<L(2, "command"), L(1, "close"), L(1, "command")>>,
  <<L(1, "command"), L(4, "command"), L(1, "command")>>,
  <<L(2, "blank"), L(1, "invalid"), L(2, "command"), L(1, "blank"), L(1, "close")>>}
=============================================================================
