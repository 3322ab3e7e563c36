----------------------------- MODULE MCHandover -----------------------------
(* Handover on a small instance. *)
EXTENDS Handover

CONSTANT generic    \* the driver of the instance

MCOneDriver == {<<generic>>}
=============================================================================
