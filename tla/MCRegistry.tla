----------------------------- MODULE MCRegistry -----------------------------
(* A small instance of Registry for TLC. *)
EXTENDS Registry

\* Two images share a layer and are the children of an index.
SharedLayers == [m1 |-> {"l1", "l2"}, m2 |-> {"l1"}, x1 |-> {"m1", "m2"}]
=============================================================================
