------------------------------ MODULE SerialIO ------------------------------
(***************************************************************************)
(* start_serialize and end_serialize (src/src/mpicomm.f90) and the I/O     *)
(* routines of io_dist.f90 that bracket their file accesses with them when *)
(* lserial_io is set.                                                      *)
(*                                                                         *)
(* Every rank runs the same Program, a sequence of calls:                  *)
(*   "start"  start_serialize        "end"   end_serialize                 *)
(*   "io"     open, read, write or close a file of one's own               *)
(*   "coll"   a broadcast and an all-reduce over all ranks                 *)
(* Permission (tag io_perm) and success (tag io_succ) are messages between *)
(* the root and one other rank.                                            *)
(***************************************************************************)
EXTENDS Integers, Sequences

CONSTANTS NP,        \* number of ranks
          Program    \* the calls each rank makes

Root   == 0
Ranks  == 0 .. NP - 1
Others == Ranks \ {Root}
Calls  == {"start", "end", "io", "coll"}

ASSUME SerialAssumption == NP \in Nat \ {0} /\ Program \in Seq(Calls)

VARIABLES
  ip,       \* index of the call each rank is at
  level,    \* serial_level
  lock,     \* "out", "wait" (in MPI_RECV of io_perm) or "in" the block
  peer,     \* the loop variable of the root's end_serialize, 0 outside the loop
  waiting,  \* the root has sent io_perm to peer and waits for io_succ
  perm,     \* io_perm messages on their way to each rank
  succ,     \* io_succ messages on their way from each rank
  stopped,  \* has called stop_it
  turn      \* history: the rank that is to enter a block next

vars == <<ip, level, lock, peer, waiting, perm, succ, stopped, turn>>

\* The rank after r in iproc order.
Following(r) == IF r = NP - 1 THEN 0 ELSE r + 1

At(r, c) == ip[r] <= Len(Program) /\ Program[ip[r]] = c /\ ~stopped[r]
Return(r) == ip' = [ip EXCEPT ![r] = @ + 1]

Init ==
  /\ ip      = [r \in Ranks |-> 1]
  /\ level   = [r \in Ranks |-> 0]
  /\ lock    = [r \in Ranks |-> "out"]
  /\ peer    = 0
  /\ waiting = FALSE
  /\ perm    = [r \in Ranks |-> 0]
  /\ succ    = [r \in Ranks |-> 0]
  /\ stopped = [r \in Ranks |-> FALSE]
  /\ turn    = 0

\* Mutant of StartSerialize: the nesting level is not looked at.
StartSerializeFlat(r) ==
  /\ At(r, "start") /\ lock[r] # "wait"
  /\ level' = [level EXCEPT ![r] = @ + 1]
  /\ IF r = Root
     THEN lock' = [lock EXCEPT ![r] = "in"] /\ Return(r)
     ELSE lock' = [lock EXCEPT ![r] = "wait"] /\ UNCHANGED ip
  /\ UNCHANGED <<peer, waiting, perm, succ, stopped, turn>>

\* Nested calls return at once; root starts, others wait for permission.
StartSerialize(r) ==
  /\ At(r, "start") /\ lock[r] # "wait"
  /\ level' = [level EXCEPT ![r] = @ + 1]
  /\ IF level[r] >= 1 THEN Return(r) /\ UNCHANGED lock
     ELSE IF r = Root
     THEN lock' = [lock EXCEPT ![r] = "in"] /\ Return(r)
     ELSE lock' = [lock EXCEPT ![r] = "wait"] /\ UNCHANGED ip
  /\ UNCHANGED <<peer, waiting, perm, succ, stopped, turn>>

\* MPI_RECV of the permission in start_serialize.
RecvPermission(r) ==
  /\ r # Root /\ lock[r] = "wait" /\ perm[r] > 0
  /\ perm' = [perm EXCEPT ![r] = @ - 1]
  /\ lock' = [lock EXCEPT ![r] = "in"]
  /\ Return(r)
  /\ UNCHANGED <<level, peer, waiting, succ, stopped, turn>>

\* The call to end_serialize: only the outermost one gives up the block, and
\* one too many stops the program.
EndSerialize(r) ==
  /\ At(r, "end") /\ (r = Root => peer = 0)
  /\ level' = [level EXCEPT ![r] = @ - 1]
  /\ IF level[r] # 1
     THEN /\ IF level[r] > 1 THEN Return(r) /\ UNCHANGED stopped
             ELSE stopped' = [stopped EXCEPT ![r] = TRUE] /\ UNCHANGED ip
          /\ UNCHANGED <<lock, peer, succ, turn>>
     ELSE /\ lock' = [lock EXCEPT ![r] = "out"]
          /\ turn' = Following(turn)
          /\ IF r = Root /\ NP > 1
             THEN peer' = 1 /\ UNCHANGED <<ip, succ>>
             ELSE /\ Return(r)
                  /\ succ' = IF r = Root THEN succ ELSE [succ EXCEPT ![r] = @ + 1]
                  /\ UNCHANGED peer
          /\ UNCHANGED stopped
  /\ UNCHANGED <<waiting, perm>>

\* do i=1,ncpus-1: send permission ...
SendPermission ==
  /\ peer # 0 /\ ~waiting
  /\ perm' = [perm EXCEPT ![peer] = @ + 1]
  /\ waiting' = TRUE
  /\ UNCHANGED <<ip, level, lock, peer, succ, stopped, turn>>

\* Mutant of RecvSuccess: the loop ends one rank too early.
RecvSuccessShort ==
  /\ waiting /\ succ[peer] > 0
  /\ succ' = [succ EXCEPT ![peer] = @ - 1]
  /\ waiting' = FALSE
  /\ IF peer < NP - 2
     THEN peer' = peer + 1 /\ UNCHANGED ip
     ELSE peer' = 0 /\ Return(Root)
  /\ UNCHANGED <<level, lock, perm, stopped, turn>>

\* ... and wait for the success message.
RecvSuccess ==
  /\ waiting /\ succ[peer] > 0
  /\ succ' = [succ EXCEPT ![peer] = @ - 1]
  /\ waiting' = FALSE
  /\ IF peer < NP - 1
     THEN peer' = peer + 1 /\ UNCHANGED ip
     ELSE peer' = 0 /\ Return(Root)
  /\ UNCHANGED <<level, lock, perm, stopped, turn>>

Io(r) ==
  /\ At(r, "io")
  /\ Return(r)
  /\ UNCHANGED <<level, lock, peer, waiting, perm, succ, stopped, turn>>

\* A collective: nobody leaves it before everybody has entered it.
Collective ==
  /\ \A r \in Ranks : At(r, "coll")
  /\ ip' = [r \in Ranks |-> ip[r] + 1]
  /\ UNCHANGED <<level, lock, peer, waiting, perm, succ, stopped, turn>>

RankStep(r) ==
  StartSerialize(r) \/ RecvPermission(r) \/ EndSerialize(r) \/ Io(r)

Next ==
  \/ \E r \in Ranks : RankStep(r)
  \/ SendPermission \/ RecvSuccess \/ Collective

Spec == Init /\ [][Next]_vars

\* Each rank is scheduled, and messages and collectives are progressed by MPI.
Fairness == /\ \A r \in Ranks : WF_vars(RankStep(r))
            /\ WF_vars(SendPermission \/ RecvSuccess) /\ WF_vars(Collective)
FairSpec == Spec /\ Fairness
-----------------------------------------------------------------------------
TypeOK ==
  /\ ip \in [Ranks -> Nat \ {0}] /\ level \in [Ranks -> Int]
  /\ lock \in [Ranks -> {"out", "wait", "in"}]
  /\ peer \in Ranks /\ waiting \in BOOLEAN
  /\ perm \in [Ranks -> Nat] /\ succ \in [Ranks -> Nat]
  /\ stopped \in [Ranks -> BOOLEAN] /\ turn \in Ranks

\* At most one rank is between start_serialize and end_serialize.
MutualExclusion ==
  \A r, s \in Ranks : lock[r] = "in" /\ lock[s] = "in" => r = s

\* Where the one permission is: with the root unless it has been sent to peer
\* and no success has come back; then in exactly one place on the way.
Permission ==
  /\ peer # 0 => lock[Root] = "out"
  /\ waiting => peer # 0
  /\ \A q \in Others :
       IF waiting /\ q = peer
       THEN \/ perm[q] = 1 /\ succ[q] = 0 /\ lock[q] # "in"
            \/ perm[q] = 0 /\ succ[q] = 0 /\ lock[q] = "in"
            \/ perm[q] = 0 /\ succ[q] = 1 /\ lock[q] # "in"
       ELSE perm[q] = 0 /\ succ[q] = 0 /\ lock[q] # "in"

\* Whose turn it is can be told from the root's loop and the success message.
Turns ==
  turn = IF waiting /\ succ[peer] = 1 THEN Following(peer) ELSE peer

\* serial_level counts the open blocks: it is above 0 in the block and while
\* waiting for it, and only a rank that has stopped is below 0.
Levels ==
  /\ peer # 0 => At(Root, "end")
  /\ \A r \in Ranks :
       /\ ~stopped[r] => level[r] >= 0
       /\ lock[r] = "out" => level[r] <= 0
       /\ lock[r] = "in" => level[r] >= 1
       /\ lock[r] = "wait" => level[r] = 1 /\ At(r, "start") /\ r # Root

SerialInv == TypeOK /\ Permission /\ Turns /\ Levels

\* The ranks do the block one by one in iproc order, round after round.
Holder == IF \E r \in Ranks : lock[r] = "in"
          THEN CHOOSE r \in Ranks : lock[r] = "in" ELSE -1
Turn == INSTANCE OrderedTurns WITH holder <- Holder
SerialOrder == Turn!Spec

\* "end_serialize: too many end_serialize calls" is never reached.
EndsBalanced == \A r \in Ranks : level[r] >= 0

\* Every rank gets its turn and comes to the end of the program.
AllServed == <>(\A r \in Ranks : ip[r] > Len(Program))
=============================================================================
