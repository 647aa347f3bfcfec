---------------------------- MODULE MCSnapshots ----------------------------
(* Instances of Snapshots for TLC: ranks one after the other in x, periodic. *)
EXTENDS Snapshots

InX(value) == [d \in {"x"} |-> value]
NX == InX(Cardinality(Procs))
OneCell == InX(1)
IPX == [p \in Procs |-> InX(p)]
=============================================================================
