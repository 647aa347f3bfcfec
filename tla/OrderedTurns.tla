---------------------------- MODULE OrderedTurns ----------------------------
(***************************************************************************)
(* What start_serialize and end_serialize promise (src/src/mpicomm.f90,    *)
(* comment of start_serialize): the ranks do a block one at a time, in     *)
(* the order 0, 1, ..., NP-1, and round again for the next block.          *)
(***************************************************************************)
EXTENDS Integers

CONSTANT NP            \* number of ranks
VARIABLES holder,      \* the rank inside the block, or -1
          turn         \* the rank whose turn it is

Ranks == 0 .. NP - 1

\* The rank after r in iproc order.
Successor(r) == IF r = NP - 1 THEN 0 ELSE r + 1

Init == holder = -1 /\ turn = 0

Enter(r) ==
  /\ holder = -1
  /\ turn = r
  /\ holder' = r
  /\ UNCHANGED turn

Exit(r) ==
  /\ holder = r
  /\ holder' = -1
  /\ turn' = Successor(turn)

Next == \E r \in Ranks : Enter(r) \/ Exit(r)

Spec == Init /\ [][Next]_<<holder, turn>>
=============================================================================
