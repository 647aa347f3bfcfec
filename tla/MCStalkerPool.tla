--------------------------- MODULE MCStalkerPool ---------------------------
(* Instances of StalkerPool for TLC. *)
EXTENDS StalkerPool

ThreeRanks == {1, 2, 3}
FourPars == {1, 2, 3, 4}
Row(a, b, c) == [par \in FourPars |-> CASE par = 1 -> a [] par = 2 -> b [] par = 3 -> c [] par = 4 -> 3]

\* particles that change ranks; one that is lost; one that appears late, of a high or a low
\* number; one that has a single row.  Particle 4, not to be recorded, is always on rank 3.
Moving  == <<Row(1, 1, 2), Row(1, 2, 3), Row(3, 2, 1)>>
Lost    == <<Row(1, 1, 2), Row(1, 2, 0), Row(2, 2, 0)>>
Late    == <<Row(1, 2, 0), Row(1, 2, 2), Row(2, 1, 2)>>
LateLow == <<Row(0, 2, 1), Row(1, 2, 1), Row(2, 1, 2)>>
Single  == <<Row(1, 1, 2), Row(1, 2, 0), Row(2, 2, 1)>>

Cases ==
  {[where |-> w, bad |-> {}, cores |-> 2] : w \in {Moving, Lost, Late, LateLow, Single}}
    \cup {[where |-> Moving, bad |-> {<<1, 2>>}, cores |-> 2],
          [where |-> Moving, bad |-> {}, cores |-> 0]}
=============================================================================
