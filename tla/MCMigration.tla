---------------------------- MODULE MCMigration ----------------------------
\* Three particles, two of them on the same rank.
EXTENDS Migration

CONSTANTS p1, p2, p3

ThreeParticles == {p1, p2, p3}

\* The particles of each rank in some order.
Placed(where) ==
  [pos |-> where, fp |-> [r \in Ranks |-> SetToSeq({p \in Particles : In(r, where[p])})]]

\* One and two below a boundary, and one just above the lower edge of the box.
ThreeStarts ==
  {Placed((p1 :> 3) @@ (p2 :> 2) @@ (p3 :> 0)), Placed((p1 :> 1) @@ (p2 :> 1) @@ (p3 :> 5))}
=============================================================================
