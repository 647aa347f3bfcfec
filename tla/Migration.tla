----------------------------- MODULE Migration -----------------------------
(***************************************************************************)
(* migrate_particles (src/src/particles_mpicomm.f90): the ranks hand each  *)
(* other the particles that have left their part of the box.               *)
(*                                                                         *)
(* The box is periodic and cut in one direction into NP parts of the same  *)
(* Width; y and z are done by the same code again.  A rank looks through   *)
(* its particles from the last to the first, copies those that leave into  *)
(* a buffer of npar_mig rows, tells its neighbours how many will come, and *)
(* exchanges the rows in the order of the ranks.  With lmigration_redo all *)
(* of this is repeated until no buffer was too small.  Modelled is a call  *)
(* of run.x in the course of the run: only neighbours talk to each other.  *)
(***************************************************************************)
EXTENDS Integers, SequencesExt

CONSTANTS
  NP,         \* number of ranks
  Particles,  \* the particles, ipar
  Width,      \* positions per rank
  MaxMove,    \* how far a particle moves between two calls
  NMig,       \* npar_mig, rows of the buffer for leaving particles
  MPar,       \* mpar_loc, rows of fp
  EagerCounts, \* does MPI_SEND of a single integer return before it is received?
  Eager,      \* does MPI_SEND of particle rows return before they are received?
  Starts,     \* what start.x may leave: the positions of the particles and fp of each rank
  MaxCalls    \* bound on the number of calls

Ranks     == 0 .. NP - 1
Length    == NP * Width        \* Lxyz
Positions == 0 .. Length - 1
Bound(j)  == j * Width         \* procx_bounds(j)

\* x is in the interval of rank r.
In(r, x) == Bound(r) <= x /\ x < Bound(r + 1)

ASSUME MigrationAssumption ==
  /\ NP \in Nat \ {0} /\ Width \in Nat \ {0} /\ MaxMove \in Nat /\ MaxMove <= Length
  /\ NMig \in Nat \ {0} /\ MPar \in Nat \ {0} /\ MaxCalls \in Nat
  /\ EagerCounts \in BOOLEAN /\ Eager \in BOOLEAN

\* start.x has written every particle once, on the rank it belongs to.
ASSUME StartsAssumption ==
  \A s \in Starts :
    /\ s.pos \in [Particles -> Positions] /\ s.fp \in [Ranks -> Seq(Particles)]
    /\ \A p \in Particles : \E r \in Ranks : \E j \in DOMAIN s.fp[r] : s.fp[r][j] = p
    /\ \A q, r \in Ranks : \A j \in DOMAIN s.fp[q], l \in DOMAIN s.fp[r] :
         s.fp[q][j] = s.fp[r][l] => q = r /\ j = l
    /\ \A r \in Ranks : Len(s.fp[r]) <= MPar /\ \A j \in DOMAIN s.fp[r] : In(r, s.pos[s.fp[r][j]])

VARIABLES
  redo,    \* lmigration_redo
  pos,     \* position of each particle, a column of its row in fp
  fp,      \* fp(1:npar_loc) of each rank, a sequence of particles
  leave,   \* fp_mig, sorted: leave[r][d] are the nmig_leave(d) rows that r sends to d
  nleave,  \* nmig_leave_total
  k,       \* the row a rank looks at
  lredo,   \* its buffer was too small
  bad,     \* it has called fatal_error_local
  enter,   \* nmig_enter: how many rows will come from each rank
  i,       \* the rank whose turn to send it is, as each rank sees it
  counts,  \* nmig_leave on its way from one rank to another
  rows,    \* rows of particles on their way
  pc,      \* where each rank is in the routine
  calls    \* number of calls made

buffer == <<leave, nleave>>
vars == <<redo, pos, fp, buffer, k, lredo, bad, enter, i, counts, rows, pc, calls>>

\* The other ranks of iproc_comm (update_neighbors), assuming periodic boundaries.
Comm(r) == {IF r = NP - 1 THEN 0 ELSE r + 1, IF r = 0 THEN NP - 1 ELSE r - 1} \ {r}

\* ipx_rec: the first rank above r that x is below the upper bound of, ...
SearchUp(r, x, d) ==
  d > r /\ x < Bound(d + 1) /\ \A j \in r + 1 .. d - 1 : x >= Bound(j + 1)

\* ... or the first below r that x is above the lower bound of.
SearchDown(r, x, d) ==
  d < r /\ x > Bound(d) /\ \A j \in d + 1 .. r - 1 : x <= Bound(j)

\* A row at x goes from r to d, or stays, also when the search finds nothing.
Goes(r, x, d) ==
  \/ x >= Bound(r + 1) /\ SearchUp(r, x, d)
  \/ x < Bound(r) /\ SearchDown(r, x, d)
Stays(r, x) == \A d \in Ranks : ~Goes(r, x, d)

\* Mutant of WithoutRow: npar_loc is reduced, the last row is not moved.
WithoutLastRow(s, n) == [j \in 1 .. Len(s) - 1 |-> s[j]]

\* fp without row n: the last row takes its place.
WithoutRow(s, n) == [j \in 1 .. Len(s) - 1 |-> IF j = n THEN s[Len(s)] ELSE s[j]]

Nothing == [d \in Ranks |-> <<>>]

Init ==
  /\ redo \in BOOLEAN
  /\ \E s \in Starts : pos = s.pos /\ fp = s.fp
  /\ leave  = [r \in Ranks |-> Nothing]
  /\ nleave = [r \in Ranks |-> 0]
  /\ k      = [r \in Ranks |-> 0]
  /\ lredo  = [r \in Ranks |-> FALSE]
  /\ bad    = [r \in Ranks |-> FALSE]
  /\ enter  = [r \in Ranks |-> [s \in Ranks |-> 0]]
  /\ i      = [r \in Ranks |-> 0]
  /\ counts = [r \in Ranks |-> Nothing]
  /\ rows   = [r \in Ranks |-> Nothing]
  /\ pc     = [r \in Ranks |-> "idle"]
  /\ calls  = [r \in Ranks |-> 0]

\* The top of the "do while (lredo_all)" loop.
StartSweep(S) ==
  /\ leave'  = [r \in Ranks |-> IF r \in S THEN Nothing ELSE leave[r]]
  /\ nleave' = [r \in Ranks |-> IF r \in S THEN 0 ELSE nleave[r]]
  /\ k'      = [r \in Ranks |-> IF r \in S THEN Len(fp[r]) ELSE k[r]]
  /\ lredo'  = [r \in Ranks |-> IF r \in S THEN FALSE ELSE lredo[r]]
  /\ enter'  = [r \in Ranks |-> IF r \in S THEN [s \in Ranks |-> 0] ELSE enter[r]]
  /\ pc'     = [r \in Ranks |-> IF r \in S THEN "sweep" ELSE pc[r]]

\* boundconds_particles: back into the periodic box.
Wrap(x) == IF x < 0 THEN x + Length ELSE IF x >= Length THEN x - Length ELSE x

\* A time step has moved the particles of r, boundconds_particles has put them
\* back into the box and calls migrate_particles.
Call(r) ==
  /\ pc[r] = "idle" /\ calls[r] < MaxCalls
  /\ calls' = [calls EXCEPT ![r] = @ + 1]
  /\ \E move \in [ToSet(fp[r]) -> -MaxMove .. MaxMove] :
       pos' = [p \in Particles |-> IF p \in ToSet(fp[r]) THEN Wrap(pos[p] + move[p]) ELSE pos[p]]
  /\ StartSweep({r})
  /\ UNCHANGED <<redo, fp, bad, i, counts, rows>>

\* Rank r looks at row k of fp, which is at x.
Looks(r, x) == pc[r] = "sweep" /\ k[r] > 0 /\ x = pos[fp[r][k[r]]]

\* Row k of fp is at home.
Keep(r) ==
  /\ \E x \in Positions : Looks(r, x) /\ Stays(r, x)
  /\ k' = [k EXCEPT ![r] = @ - 1]
  /\ UNCHANGED <<redo, pos, fp, buffer, lredo, bad, enter, i, counts, rows, pc, calls>>

\* Row k leaves for d: it is copied into the buffer and its place in fp is filled.
\* A rank that is no neighbour is an error, and the row is copied all the same.
Leave(r, d) ==
  /\ \E x \in Positions : Looks(r, x) /\ Goes(r, x, d)
  /\ nleave[r] < NMig
  /\ bad' = [bad EXCEPT ![r] = @ \/ d \notin Comm(r)]
  /\ leave' = [leave EXCEPT ![r][d] = Append(@, fp[r][k[r]])]
  /\ nleave' = [nleave EXCEPT ![r] = @ + 1]
  /\ fp'  = [fp EXCEPT ![r] = WithoutRow(@, k[r])]
  /\ k' = [k EXCEPT ![r] = @ - 1]
  /\ UNCHANGED <<redo, pos, lredo, enter, i, counts, rows, pc, calls>>

\* Row k should leave for d and the buffer is full.
Full(r, d) == nleave[r] = NMig /\ \E x \in Positions : Looks(r, x) /\ Goes(r, x, d)

\* "Going to do one more migration iteration!": the search ends here.
Postpone(r, d) ==
  /\ Full(r, d) /\ redo
  /\ bad' = [bad EXCEPT ![r] = @ \/ d \notin Comm(r)]
  /\ lredo' = [lredo EXCEPT ![r] = TRUE]
  /\ k' = [k EXCEPT ![r] = 0]
  /\ UNCHANGED <<redo, pos, fp, buffer, enter, i, counts, rows, pc, calls>>

\* fatal_error with force: this rank stops, alone.
TooMany(r, d) ==
  /\ Full(r, d) /\ ~redo
  /\ pc' = [pc EXCEPT ![r] = "dead"]
  /\ UNCHANGED <<redo, pos, fp, buffer, k, lredo, bad, enter, i, counts, rows, calls>>

\* mpirun ends the other ranks when one has stopped without MPI_FINALIZE.
JobEnds ==
  /\ \E r \in Ranks : pc[r] = "dead"
  /\ \E r \in Ranks : pc[r] # "dead"
  /\ pc' = [r \in Ranks |-> "dead"]
  /\ UNCHANGED <<redo, pos, fp, buffer, k, lredo, bad, enter, i, counts, rows, calls>>

\* The neighbours are told how many particles will come.  Every rank sends to all of them
\* before it receives, so that without EagerCounts nobody's MPI_SEND returns.
SendCounts(r) ==
  /\ pc[r] = "sweep" /\ k[r] = 0
  /\ EagerCounts \/ \A d \in Comm(r) : pc[d] = "count"
  /\ counts' = [counts EXCEPT ![r] =
       [d \in Ranks |-> IF d \in Comm(r) THEN Append(@[d], Len(leave[r][d])) ELSE @[d]]]
  /\ pc' = [pc EXCEPT ![r] = "count"]
  /\ UNCHANGED <<redo, pos, fp, buffer, k, lredo, bad, enter, i, rows, calls>>

\* Rows that will come to r.
Entering(r) == MapThenSumSet(LAMBDA s : enter'[r][s], Ranks)

\* Mutant of NoRoom: one row too few is asked for.
NoRoomOffByOne(r) == Len(fp[r]) + Entering(r) > MPar + 1

\* npar_loc + sum(nmig_enter) > mpar_loc
NoRoom(r) == Len(fp[r]) + Entering(r) > MPar

\* All the neighbours have said how many will come; is there room for them?
RecvCounts(r) ==
  /\ pc[r] = "count"
  /\ \A s \in Comm(r) : counts[s][r] # <<>>
  /\ enter' = [enter EXCEPT ![r] = [s \in Ranks |->
                 IF s \in Comm(r) THEN Head(counts[s][r]) ELSE 0]]
  /\ counts' = [s \in Ranks |-> IF s \in Comm(r)
                                THEN [counts[s] EXCEPT ![r] = Tail(@)] ELSE counts[s]]
  /\ bad' = [bad EXCEPT ![r] = @ \/ NoRoom(r)]
  /\ pc' = [pc EXCEPT ![r] = "collect"]
  /\ UNCHANGED <<redo, pos, fp, buffer, k, lredo, i, rows, calls>>

\* fatal_error_local_collect and the maximum of the buffer sizes: all together.
Collect ==
  /\ \A r \in Ranks : pc[r] = "collect"
  /\ pc' = [r \in Ranks |-> IF \E s \in Ranks : bad[s] THEN "dead" ELSE "exchange"]
  /\ i' = [r \in Ranks |-> 0]
  /\ UNCHANGED <<redo, pos, fp, buffer, k, lredo, bad, enter, counts, rows, calls>>

\* Mutant of Awaited: rows are waited for that nobody has announced.
AwaitedAlways(r, s) == s \in Comm(r)

\* nmig_enter(s) /= 0
Awaited(r, s) == enter[r][s] > 0

\* Rank r goes on to the turn of the next rank, or to the end of the exchange.
Advance(r) ==
  /\ i' = [i EXCEPT ![r] = @ + 1]
  /\ pc' = IF i[r] = NP - 1 THEN [pc EXCEPT ![r] = "redo"] ELSE pc

\* Not the turn of r: it takes the rows that were announced to it.
TakeRows(r) ==
  /\ pc[r] = "exchange" /\ i[r] # r
  /\ LET s == i[r]
     IN  IF Awaited(r, s)
         THEN /\ rows[s][r] # <<>>
              /\ fp' = [fp EXCEPT ![r] = @ \o rows[s][r]]
              /\ rows' = [rows EXCEPT ![s][r] = <<>>]
         ELSE UNCHANGED <<fp, rows>>
  /\ Advance(r)
  /\ UNCHANGED <<redo, pos, buffer, k, lredo, bad, enter, counts, calls>>

\* The turn of r: it sends to the ranks in order, to the next one when the last
\* MPI_SEND has returned (with Eager before the rows are received).
SendRows(r, d) ==
  /\ pc[r] = "exchange" /\ i[r] = r
  /\ Eager \/ rows[r] = Nothing
  /\ leave[r][d] # <<>> /\ \A e \in Ranks : leave[r][e] # <<>> => d <= e
  /\ rows' = [rows EXCEPT ![r][d] = leave[r][d]]
  /\ leave' = [leave EXCEPT ![r][d] = <<>>]
  /\ UNCHANGED <<redo, pos, fp, nleave, k, lredo, bad, enter, i, counts, pc, calls>>

EndTurn(r) ==
  /\ pc[r] = "exchange" /\ i[r] = r
  /\ Eager \/ rows[r] = Nothing
  /\ leave[r] = Nothing
  /\ Advance(r)
  /\ UNCHANGED <<redo, pos, fp, buffer, k, lredo, bad, enter, counts, rows, calls>>

\* Mutant of RedoAll: a rank whose own buffer was large enough returns.
RedoAllNever == FALSE

\* lredo_all
RedoAll == \E r \in Ranks : lredo[r]

\* With lmigration_redo: once more, for all ranks, if any buffer was too small.
Repeat ==
  /\ redo /\ \A r \in Ranks : pc[r] = "redo"
  /\ IF RedoAll THEN StartSweep(Ranks)
     ELSE pc' = [r \in Ranks |-> "idle"] /\ UNCHANGED <<buffer, k, lredo, enter>>
  /\ UNCHANGED <<redo, pos, fp, bad, i, counts, rows, calls>>

\* Without lmigration_redo a rank returns by itself.
Return(r) ==
  /\ ~redo /\ pc[r] = "redo"
  /\ pc' = [pc EXCEPT ![r] = "idle"]
  /\ UNCHANGED <<redo, pos, fp, buffer, k, lredo, bad, enter, i, counts, rows, calls>>

RankStep(r) ==
  \/ Keep(r) \/ SendCounts(r) \/ RecvCounts(r) \/ TakeRows(r) \/ EndTurn(r) \/ Return(r)
  \/ \E d \in Ranks : Leave(r, d) \/ Postpone(r, d) \/ TooMany(r, d) \/ SendRows(r, d)

Together == Collect \/ Repeat

Next ==
  \/ \E r \in Ranks : Call(r) \/ RankStep(r)
  \/ Together
  \/ JobEnds

Spec == Init /\ [][Next]_vars

\* Every rank runs its code and comes to the next time step; a collective ends
\* when all the ranks have called it; mpirun ends a job.
Fairness == /\ \A r \in Ranks : WF_vars(Call(r) \/ RankStep(r))
            /\ WF_vars(Together) /\ WF_vars(JobEnds)
FairSpec == Spec /\ Fairness
-----------------------------------------------------------------------------
\* The places where a row can be: fp of a rank, its buffer, and the messages.
Places == {"fp", "leave", "rows"} \X Ranks \X Ranks
At(x) ==
  CASE x[1] = "fp"    -> IF x[2] = x[3] THEN fp[x[2]] ELSE <<>>
    [] x[1] = "leave" -> leave[x[2]][x[3]]
    [] x[1] = "rows"  -> rows[x[2]][x[3]]

\* No particle is lost and none is there twice: it is one row of one place.
OnePlace ==
  /\ \A p \in Particles : \E x \in Places : \E j \in DOMAIN At(x) : At(x)[j] = p
  /\ \A x, y \in Places : \A j \in DOMAIN At(x), l \in DOMAIN At(y) :
       At(x)[j] = At(y)[l] => x = y /\ j = l

\* No array is written past its end: the check of the room comes before the rows
\* of all the neighbours and covers them all.
WithinLimits ==
  \A r \in Ranks :
    /\ MapThenSumSet(LAMBDA d : Len(leave[r][d]), Ranks) <= NMig
    /\ Len(fp[r]) <= MPar

\* When a rank returns, its particles are those of its part of the box; only one
\* that lies exactly on the lower edge of the box may be on the last rank.  (This is
\* for particles that move by less than the width of a part in a time step.)
AtRest(r, x) == In(r, x) \/ (x = 0 /\ r = NP - 1)
AtHome ==
  \A r \in Ranks : pc[r] = "idle" => \A j \in DOMAIN fp[r] : AtRest(r, pos[fp[r][j]])

\* Every call comes to an end, at each rank, also if MPI_SEND of rows waits for the
\* receiver, as long as that of the counts does not.
Termination == \A r \in Ranks : pc[r] # "idle" ~> pc[r] \in {"idle", "dead"}
=============================================================================
