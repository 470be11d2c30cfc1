----------------------------- MODULE MCStateful -----------------------------
(* Small instances of Stateful for TLC. *)
EXTENDS Stateful, TLC
==============================================================================
