--------------------------- MODULE MigrationProofs --------------------------
(***************************************************************************)
(* For any number of ranks and particles and any sizes of the arrays: no   *)
(* particle is lost or doubled when the ranks hand each other rows; and if *)
(* no particle moves by the width of a part or more in one time step, each *)
(* rank has the particles of its part when it returns. No rank writes past *)
(* the end of an array of rows.                                            *)
(***************************************************************************)
EXTENDS Migration, SequenceTheorems, FiniteSetTheorems, WellFoundedInduction, TLAPS

Labels == {"idle", "sweep", "count", "collect", "exchange", "redo", "dead"}

MigrationTypes ==
  /\ pos \in [Particles -> Positions]
  /\ fp \in [Ranks -> Seq(Particles)]
  /\ leave \in [Ranks -> [Ranks -> Seq(Particles)]]
  /\ rows \in [Ranks -> [Ranks -> Seq(Particles)]]
  /\ counts \in [Ranks -> [Ranks -> Seq(Nat)]]
  /\ enter \in [Ranks -> [Ranks -> Nat]]
  /\ k \in [Ranks -> Nat] /\ i \in [Ranks -> Nat]
  /\ lredo \in [Ranks -> BOOLEAN] /\ bad \in [Ranks -> BOOLEAN]
  /\ pc \in [Ranks -> Labels]

InRange ==
  \A r \in Ranks : /\ pc[r] = "sweep" => k[r] <= Len(fp[r])
                   /\ pc[r] = "exchange" => i[r] < NP

\* A row leaves for a neighbour, or the call ends in an error before it is sent.
ToNeighbours ==
  \A s, d \in Ranks : leave[s][d] # <<>> /\ pc[s] \in {"sweep", "count", "collect"} =>
    d \in Comm(s) \/ bad[s]

\* The number of rows is on its way from when it is sent to when it is received.
Told ==
  \A s, d \in Ranks : d \in Comm(s) /\ pc[s] # "dead" /\ pc[d] # "dead" =>
    counts[s][d] = IF pc[s] \in {"count", "collect"} /\ pc[d] # "collect"
                   THEN <<Len(leave[s][d])>> ELSE <<>>
Heard ==
  \A s, d \in Ranks : d \in Comm(s) /\ pc[d] = "collect" /\ pc[s] # "dead" =>
    pc[s] \in {"count", "collect"} /\ enter[d][s] = Len(leave[s][d])

\* What is still to be sent is awaited, and what is sent is: nothing overtakes.
Sending ==
  \A s, d \in Ranks : leave[s][d] # <<>> /\ pc[s] = "exchange" =>
    /\ d \in Comm(s) /\ rows[s][d] = <<>>
    /\ pc[d] = "exchange" /\ i[d] <= s /\ enter[d][s] > 0
Sent ==
  \A s, d \in Ranks : rows[s][d] # <<>> =>
    d # s /\ (pc[d] = "dead" \/ (pc[d] = "exchange" /\ i[d] <= s /\ enter[d][s] > 0))

\* The buffer is empty when the next search begins.
Emptied ==
  \A s, d \in Ranks : pc[s] \in {"idle", "redo"} \/ (pc[s] = "exchange" /\ i[s] > s) =>
    leave[s][d] = <<>>

Protocol ==
  /\ MigrationTypes /\ InRange /\ ToNeighbours
  /\ Told /\ Heard /\ Sending /\ Sent /\ Emptied

LEMMA Neighbours ==
  \A r \in Ranks : /\ Comm(r) \subseteq Ranks \ {r}
                   /\ \A s \in Ranks : s \in Comm(r) <=> r \in Comm(s)
BY MigrationAssumption DEF Ranks, Comm

LEMMA SomeRank == 0 \in Ranks
BY MigrationAssumption DEF Ranks

LEMMA OneCount ==
  ASSUME NEW n \in Nat PROVE Append(<<>>, n) = <<n>> /\ Head(<<n>>) = n /\ Tail(<<n>>) = <<>>
OBVIOUS

LEMMA InitProtocol == Init => Protocol
<1> SUFFICES ASSUME Init PROVE Protocol
  OBVIOUS
<1> USE MigrationAssumption DEF Init, Nothing
<1>1. PICK s \in Starts : pos = s.pos /\ fp = s.fp
  OBVIOUS
<1>2. pos \in [Particles -> Positions] /\ fp \in [Ranks -> Seq(Particles)]
  BY <1>1, StartsAssumption
<1>3. MigrationTypes
  BY <1>2 DEF MigrationTypes, Labels, Ranks
<1>4. Told /\ Heard
  BY Neighbours DEF Told, Heard
<1> QED
  BY <1>3, <1>4 DEF Protocol, InRange, ToNeighbours, Sending, Sent, Emptied

\* A search begins on the ranks of S, which have nothing left in their buffers.
LEMMA SearchBegins ==
  ASSUME Protocol, NEW S \in SUBSET Ranks, StartSweep(S), \A r \in S : pc[r] \in {"idle", "redo"},
         pos' \in [Particles -> Positions], UNCHANGED <<redo, fp, bad, i, counts, rows>>
  PROVE  Protocol'
<1> USE DEF Protocol
<1>1. leave' = leave
  BY DEF StartSweep, MigrationTypes, Emptied, Nothing
<1>2. \A r \in Ranks : pc'[r] = IF r \in S THEN "sweep" ELSE pc[r]
  BY DEF StartSweep
<1>3. \A r \in Ranks : r \notin S => enter'[r] = enter[r]
  BY DEF StartSweep
<1>4. \A r \in Ranks : k'[r] = IF r \in S THEN Len(fp[r]) ELSE k[r]
  BY DEF StartSweep
<1>5. \A r \in Ranks : Len(fp[r]) \in Nat
  BY LenProperties DEF MigrationTypes
<1>6. MigrationTypes'
  <2>1. k' \in [Ranks -> Nat]
    BY <1>5 DEF StartSweep, MigrationTypes
  <2>2. enter' \in [Ranks -> [Ranks -> Nat]]
    BY DEF StartSweep, MigrationTypes
  <2>3. pc' \in [Ranks -> Labels] /\ lredo' \in [Ranks -> BOOLEAN]
    BY DEF StartSweep, MigrationTypes, Labels
  <2> QED
    BY <1>1, <2>1, <2>2, <2>3 DEF MigrationTypes
<1>7. InRange' /\ ToNeighbours' /\ Emptied'
  BY <1>1, <1>2, <1>4, <1>5 DEF InRange, ToNeighbours, Emptied
<1>8. Told' /\ Heard'
  BY <1>1, <1>2, <1>3, Neighbours DEF Told, Heard
<1>9. Sending' /\ Sent'
  BY <1>1, <1>2, <1>3 DEF Sending, Sent
<1> QED
  BY <1>6, <1>7, <1>8, <1>9

LEMMA CallProtocol == ASSUME Protocol, NEW r \in Ranks, Call(r) PROVE Protocol'
<1>1. pos' \in [Particles -> Positions]
  <2>1. PICK move \in [ToSet(fp[r]) -> -MaxMove .. MaxMove] :
          pos' = [p \in Particles |-> IF p \in ToSet(fp[r]) THEN Wrap(pos[p] + move[p]) ELSE pos[p]]
    BY DEF Call
  <2>2. \A p \in Particles : pos[p] \in Positions
    BY DEF Protocol, MigrationTypes
  <2>3. \A x \in Positions, m \in -MaxMove .. MaxMove : Wrap(x + m) \in Positions
    BY MigrationAssumption DEF Positions, Wrap, Length
  <2> QED
    BY <2>1, <2>2, <2>3
<1> QED
  BY <1>1, SearchBegins DEF Call

LEMMA LeaveProtocol == ASSUME Protocol, NEW r \in Ranks, NEW d \in Ranks, Leave(r, d) PROVE Protocol'
<1> USE DEF Protocol
<1>1. /\ pc[r] = "sweep" /\ k[r] \in 1 .. Len(fp[r]) /\ k[r] \in Nat
      /\ UNCHANGED <<redo, pos, lredo, enter, i, counts, rows, pc, calls>>
  BY DEF Leave, Looks, InRange, MigrationTypes
<1>2. fp[r] \in Seq(Particles) /\ Len(fp[r]) \in Nat /\ fp[r][k[r]] \in Particles
  BY <1>1, LenProperties, ElementOfSeq DEF MigrationTypes
<1>3. WithoutRow(fp[r], k[r]) \in Seq(Particles) /\ Len(WithoutRow(fp[r], k[r])) = Len(fp[r]) - 1
  BY <1>1, <1>2, ElementOfSeq, IsASeq DEF WithoutRow
<1>4. /\ fp' \in [Ranks -> Seq(Particles)]
      /\ \A s \in Ranks : fp'[s] = IF s = r THEN WithoutRow(fp[r], k[r]) ELSE fp[s]
  BY <1>3 DEF Leave, MigrationTypes
<1>5. k' \in [Ranks -> Nat] /\ \A s \in Ranks : k'[s] = IF s = r THEN k[r] - 1 ELSE k[s]
  <2>1. k' = [k EXCEPT ![r] = @ - 1] /\ k \in [Ranks -> Nat]
    BY DEF Leave, MigrationTypes
  <2>2. k[r] - 1 \in Nat
    BY <1>1
  <2> QED
    BY <2>1, <2>2
<1>6. \A s, e \in Ranks : s # r \/ e # d => leave'[s][e] = leave[s][e]
  BY DEF Leave, MigrationTypes
<1>7. leave' \in [Ranks -> [Ranks -> Seq(Particles)]]
  <2>1. leave \in [Ranks -> [Ranks -> Seq(Particles)]]
    BY DEF MigrationTypes
  <2>2. Append(leave[r][d], fp[r][k[r]]) \in Seq(Particles)
    BY <1>2, <2>1, AppendProperties
  <2> QED
    BY <2>1, <2>2 DEF Leave
<1>8. /\ bad' \in [Ranks -> BOOLEAN]
      /\ \A s \in Ranks : bad[s] => bad'[s]
      /\ d \notin Comm(r) => bad'[r]
  BY DEF Leave, MigrationTypes
<1>9. MigrationTypes'
  BY <1>1, <1>4, <1>5, <1>7, <1>8 DEF MigrationTypes
<1>10. InRange'
  BY <1>1, <1>2, <1>3, <1>4, <1>5, SMTT(20) DEF InRange
<1>11. ToNeighbours'
  BY <1>1, <1>6, <1>8 DEF ToNeighbours
<1>12. Told' /\ Heard'
  <2>1. Told'
    BY <1>1, <1>6, ZenonT(40) DEF Told
  <2>2. Heard'
    BY <1>1, <1>6 DEF Heard
  <2> QED
    BY <2>1, <2>2
<1>13. Sending' /\ Sent' /\ Emptied'
  BY <1>1, <1>6 DEF Sending, Sent, Emptied
<1> QED
  BY <1>9, <1>10, <1>11, <1>12, <1>13

LEMMA KeepProtocol == ASSUME Protocol, NEW r \in Ranks, Keep(r) PROVE Protocol'
<1> USE DEF Protocol
<1>1. k[r] > 0 /\ UNCHANGED <<redo, pos, fp, leave, lredo, bad, enter, i, counts, rows, pc>>
  BY DEF Keep, Looks, buffer
<1>2. k' \in [Ranks -> Nat] /\ \A s \in Ranks : k'[s] <= k[s]
  <2>1. k' = [k EXCEPT ![r] = @ - 1] /\ k \in [Ranks -> Nat]
    BY DEF Keep, MigrationTypes
  <2> QED
    BY <1>1, <2>1
<1>3. MigrationTypes'
  BY <1>1, <1>2 DEF MigrationTypes
<1>4. \A s \in Ranks : Len(fp[s]) \in Nat /\ k[s] \in Nat
  BY LenProperties DEF MigrationTypes
<1>5. InRange'
  <2>1. \A s \in Ranks : k'[s] \in Nat /\ k[s] \in Nat
    BY <1>2, <1>4
  <2> QED
    BY <1>1, <1>2, <1>4, <2>1 DEF InRange
<1>6. ToNeighbours' /\ Told' /\ Heard'
  BY <1>1 DEF ToNeighbours, Told, Heard
<1>7. Sending' /\ Sent' /\ Emptied'
  BY <1>1 DEF Sending, Sent, Emptied
<1> QED
  BY <1>3, <1>5, <1>6, <1>7

LEMMA PostponeProtocol ==
  ASSUME Protocol, NEW r \in Ranks, NEW d \in Ranks, Postpone(r, d) PROVE Protocol'
<1> USE DEF Protocol
<1>1. UNCHANGED <<redo, pos, fp, leave, enter, i, counts, rows, pc>>
  BY DEF Postpone, buffer
<1>2. bad' \in [Ranks -> BOOLEAN] /\ \A s \in Ranks : bad[s] => bad'[s]
  BY DEF Postpone, MigrationTypes
<1>3. lredo' \in [Ranks -> BOOLEAN] /\ k' \in [Ranks -> Nat]
  BY DEF Postpone, MigrationTypes
<1>4. MigrationTypes'
  BY <1>1, <1>2, <1>3 DEF MigrationTypes
<1>5. \A s \in Ranks : Len(fp[s]) \in Nat /\ (k'[s] = k[s] \/ k'[s] = 0)
  BY LenProperties DEF Postpone, MigrationTypes
<1>6. InRange' /\ ToNeighbours'
  BY <1>1, <1>2, <1>5 DEF InRange, ToNeighbours
<1>7. Told' /\ Heard' /\ Sending' /\ Sent' /\ Emptied'
  BY <1>1 DEF Told, Heard, Sending, Sent, Emptied
<1> QED
  BY <1>4, <1>6, <1>7

\* Ranks that stop in the search, or all of them.
LEMMA DeadProtocol ==
  ASSUME Protocol, NEW r \in Ranks, NEW d \in Ranks, TooMany(r, d) \/ JobEnds PROVE Protocol'
<1> USE DEF Protocol
<1>1. UNCHANGED <<redo, pos, fp, leave, k, lredo, bad, enter, i, counts, rows>>
  BY DEF TooMany, JobEnds, buffer
<1>2. /\ pc' \in [Ranks -> Labels]
      /\ \/ \A s \in Ranks : pc'[s] = "dead"
         \/ \A s \in Ranks : pc'[s] = pc[s] \/ (pc[s] = "sweep" /\ pc'[s] = "dead")
  BY DEF TooMany, Full, Looks, JobEnds, MigrationTypes, Labels
<1>3. MigrationTypes'
  BY <1>1, <1>2 DEF MigrationTypes
<1>4. InRange' /\ ToNeighbours' /\ Emptied'
  BY <1>1, <1>2 DEF InRange, ToNeighbours, Emptied
<1>5. Told' /\ Heard'
  BY <1>1, <1>2, Neighbours DEF Told, Heard
<1>6. Sending' /\ Sent'
  BY <1>1, <1>2 DEF Sending, Sent
<1> QED
  BY <1>3, <1>4, <1>5, <1>6

LEMMA CountProtocol == ASSUME Protocol, NEW r \in Ranks, SendCounts(r) PROVE Protocol'
<1> USE DEF Protocol
<1>1. /\ pc[r] = "sweep"
      /\ UNCHANGED <<redo, pos, fp, leave, k, lredo, bad, enter, i, rows>>
  BY DEF SendCounts, buffer
<1>2. \A d \in Ranks : Len(leave[r][d]) \in Nat
  BY LenProperties DEF MigrationTypes
<1>3. \A d \in Ranks : Append(counts[r][d], Len(leave[r][d])) \in Seq(Nat)
  BY <1>2, AppendProperties DEF MigrationTypes
<1>4. counts' \in [Ranks -> [Ranks -> Seq(Nat)]]
  BY <1>3 DEF SendCounts, MigrationTypes
<1>5. \A s, d \in Ranks :
        counts'[s][d] = IF s = r /\ d \in Comm(r) THEN Append(counts[r][d], Len(leave[r][d]))
                        ELSE counts[s][d]
  BY DEF SendCounts, MigrationTypes
<1>6. pc' \in [Ranks -> Labels] /\ \A s \in Ranks : pc'[s] = IF s = r THEN "count" ELSE pc[s]
  BY DEF SendCounts, MigrationTypes, Labels
<1>7. MigrationTypes'
  BY <1>1, <1>4, <1>6 DEF MigrationTypes
<1>8. \A d \in Ranks : d \in Comm(r) /\ pc[d] # "dead" => counts[r][d] = <<>> /\ pc[d] # "collect"
  BY <1>1, Neighbours DEF Told, Heard
<1>9. \A d \in Ranks : d \in Comm(r) /\ pc[d] # "dead" => counts'[r][d] = <<Len(leave[r][d])>>
  BY <1>2, <1>5, <1>8, OneCount
<1>10. Told'
  <2>1. r \notin Comm(r)
    BY Neighbours
  <2> QED
    BY <1>1, <1>5, <1>6, <1>8, <1>9, <2>1 DEF Told
<1>11. Heard'
  BY <1>1, <1>6 DEF Heard
<1>12. InRange' /\ ToNeighbours' /\ Emptied'
  BY <1>1, <1>6 DEF InRange, ToNeighbours, Emptied
<1>13. Sending' /\ Sent'
  BY <1>1, <1>6 DEF Sending, Sent
<1> QED
  BY <1>7, <1>10, <1>11, <1>12, <1>13

LEMMA HearProtocol == ASSUME Protocol, NEW r \in Ranks, RecvCounts(r) PROVE Protocol'
<1> USE DEF Protocol
<1>1. /\ pc[r] = "count" /\ \A s \in Comm(r) : counts[s][r] # <<>>
      /\ UNCHANGED <<redo, pos, fp, leave, k, lredo, i, rows>>
  BY DEF RecvCounts, buffer
<1>2. \A s \in Ranks : s \in Comm(r) =>
        Head(counts[s][r]) \in Nat /\ Tail(counts[s][r]) \in Seq(Nat)
  BY <1>1, HeadTailProperties DEF MigrationTypes
<1>3. bad' \in [Ranks -> BOOLEAN] /\ \A s \in Ranks : bad[s] => bad'[s]
  <2>1. bad' = [bad EXCEPT ![r] = @ \/ NoRoom(r)]
    BY DEF RecvCounts
  <2> QED
    BY <2>1 DEF MigrationTypes
<1>4. /\ counts' \in [Ranks -> [Ranks -> Seq(Nat)]]
      /\ \A s, d \in Ranks :
           counts'[s][d] = IF s \in Comm(r) /\ d = r THEN Tail(counts[s][r]) ELSE counts[s][d]
  <2>1. counts' = [s \in Ranks |-> IF s \in Comm(r)
                                   THEN [counts[s] EXCEPT ![r] = Tail(@)] ELSE counts[s]]
    BY DEF RecvCounts
  <2>2. \A s \in Ranks : counts[s] \in [Ranks -> Seq(Nat)]
    BY DEF MigrationTypes
  <2> QED
    BY <1>2, <2>1, <2>2
<1>5. /\ enter' \in [Ranks -> [Ranks -> Nat]]
      /\ \A s, d \in Ranks :
           enter'[d][s] = IF d = r THEN IF s \in Comm(r) THEN Head(counts[s][r]) ELSE 0
                          ELSE enter[d][s]
  <2>1. enter' = [enter EXCEPT ![r] = [s \in Ranks |->
                    IF s \in Comm(r) THEN Head(counts[s][r]) ELSE 0]]
    BY DEF RecvCounts
  <2>2. enter \in [Ranks -> [Ranks -> Nat]]
    BY DEF MigrationTypes
  <2> QED
    BY <1>2, <2>1, <2>2
<1>6. pc' \in [Ranks -> Labels] /\ \A s \in Ranks : pc'[s] = IF s = r THEN "collect" ELSE pc[s]
  BY DEF RecvCounts, MigrationTypes, Labels
<1>7. MigrationTypes'
  BY <1>1, <1>3, <1>4, <1>5, <1>6 DEF MigrationTypes
<1>8. \A s \in Ranks : s \in Comm(r) /\ pc[s] # "dead" =>
        /\ pc[s] \in {"count", "collect"} /\ counts[s][r] = <<Len(leave[s][r])>>
  BY <1>1, Neighbours DEF Told
<1>9. \A s \in Ranks : s \in Comm(r) /\ pc[s] # "dead" =>
        Tail(counts[s][r]) = <<>> /\ Head(counts[s][r]) = Len(leave[s][r])
  <2>1. \A s \in Ranks : Len(leave[s][r]) \in Nat
    BY LenProperties DEF MigrationTypes
  <2> QED
    BY <1>8, <2>1, OneCount
<1>10. r \notin Comm(r)
  BY Neighbours
<1>11. Told'
  <2>1. ASSUME NEW s \in Ranks, NEW d \in Ranks, d \in Comm(s), pc'[s] # "dead", pc'[d] # "dead"
        PROVE  counts'[s][d] = IF pc'[s] \in {"count", "collect"} /\ pc'[d] # "collect"
                               THEN <<Len(leave[s][d])>> ELSE <<>>
    <3>1. pc[s] # "dead" /\ pc[d] # "dead"
      BY <1>1, <1>6, <2>1
    <3>2. CASE d = r
      <4>1. s \in Comm(r)
        BY <2>1, <3>2, Neighbours
      <4> QED
        BY <1>4, <1>6, <1>9, <3>1, <3>2, <4>1
    <3>3. CASE d # r
      <4>1. counts'[s][d] = counts[s][d] /\ pc'[d] = pc[d]
        BY <1>4, <1>6, <3>3
      <4>2. pc'[s] \in {"count", "collect"} <=> pc[s] \in {"count", "collect"}
        BY <1>1, <1>6
      <4> QED
        BY <2>1, <3>1, <4>1, <4>2 DEF Told
    <3> QED
      BY <3>2, <3>3
  <2> QED
    BY <1>1, <2>1 DEF Told
<1>12. Heard'
  <2>1. ASSUME NEW s \in Ranks, NEW d \in Ranks, d \in Comm(s), pc'[d] = "collect", pc'[s] # "dead"
        PROVE  pc'[s] \in {"count", "collect"} /\ enter'[d][s] = Len(leave[s][d])
    <3>1. pc[s] # "dead" /\ s # d
      BY <1>1, <1>6, <2>1, Neighbours
    <3>2. CASE d = r
      <4>1. s \in Comm(r)
        BY <2>1, <3>2, Neighbours
      <4> QED
        BY <1>5, <1>6, <1>8, <1>9, <3>1, <3>2, <4>1
    <3>3. CASE d # r
      <4>1. enter'[d][s] = enter[d][s] /\ pc'[d] = pc[d]
        BY <1>5, <1>6, <3>3
      <4> QED
        BY <1>6, <2>1, <3>1, <4>1 DEF Heard
    <3> QED
      BY <3>2, <3>3
  <2> QED
    BY <1>1, <2>1 DEF Heard
<1>13. InRange' /\ ToNeighbours' /\ Emptied'
  BY <1>1, <1>3, <1>6 DEF InRange, ToNeighbours, Emptied
<1>14. \A s, d \in Ranks : d # r => enter'[d][s] = enter[d][s] /\ pc'[d] = pc[d]
  BY <1>5, <1>6
<1>15. Sending' /\ Sent'
  BY <1>1, <1>6, <1>14 DEF Sending, Sent
<1> QED
  BY <1>7, <1>11, <1>12, <1>13, <1>15

LEMMA CollectProtocol == ASSUME Protocol, Collect PROVE Protocol'
<1> USE DEF Protocol
<1>1. /\ \A r \in Ranks : pc[r] = "collect"
      /\ UNCHANGED <<redo, pos, fp, leave, k, lredo, bad, enter, counts, rows>>
  BY DEF Collect, buffer
<1>2. i' \in [Ranks -> Nat] /\ \A r \in Ranks : i'[r] = 0
  BY DEF Collect
<1>3. /\ pc' \in [Ranks -> Labels]
      /\ \/ \A r \in Ranks : pc'[r] = "dead"
         \/ (\A r \in Ranks : pc'[r] = "exchange") /\ ~ \E r \in Ranks : bad[r]
  BY DEF Collect, Labels
<1>4. MigrationTypes'
  BY <1>1, <1>2, <1>3 DEF MigrationTypes
<1>5. InRange' /\ ToNeighbours' /\ Emptied'
  BY <1>1, <1>2, <1>3, MigrationAssumption DEF InRange, ToNeighbours, Emptied, Ranks
<1>6. Told' /\ Heard'
  BY <1>1, <1>3 DEF Told, Heard
<1>7. \A s, d \in Ranks : rows[s][d] = <<>>
  BY <1>1 DEF Sent
<1>8. ASSUME NEW s \in Ranks, NEW d \in Ranks, leave[s][d] # <<>>, ~ \E r \in Ranks : bad[r]
      PROVE  d \in Comm(s) /\ enter[d][s] > 0
  <2>1. d \in Comm(s)
    BY <1>1, <1>8 DEF ToNeighbours
  <2>2. enter[d][s] = Len(leave[s][d])
    BY <1>1, <2>1, Neighbours DEF Heard
  <2>3. Len(leave[s][d]) > 0
    BY <1>8, EmptySeq, LenProperties DEF MigrationTypes
  <2> QED
    BY <2>1, <2>2, <2>3
<1>9. Sending' /\ Sent'
  BY <1>1, <1>2, <1>3, <1>7, <1>8 DEF Sending, Sent, Ranks
<1> QED
  BY <1>4, <1>5, <1>6, <1>9

\* Rank r goes on to the next turn, or to the end.
LEMMA Advances ==
  ASSUME Protocol, NEW r \in Ranks, Advance(r), pc[r] = "exchange"
  PROVE  /\ i' \in [Ranks -> Nat] /\ pc' \in [Ranks -> Labels] /\ i[r] \in Ranks
         /\ \A s \in Ranks : s # r => i'[s] = i[s] /\ pc'[s] = pc[s]
         /\ i'[r] = i[r] + 1
         /\ \/ i[r] < NP - 1 /\ pc'[r] = "exchange"
            \/ i[r] = NP - 1 /\ pc'[r] = "redo"
<1>1. i \in [Ranks -> Nat] /\ i[r] < NP /\ pc \in [Ranks -> Labels]
  BY DEF Protocol, MigrationTypes, InRange
<1> QED
  BY <1>1, MigrationAssumption DEF Advance, Labels, Ranks

\* Nobody is passed by who has rows to send or has sent them.
LEMMA TakeProtocol == ASSUME Protocol, NEW r \in Ranks, TakeRows(r) PROVE Protocol'
<1> USE DEF Protocol
<1>1. /\ pc[r] = "exchange" /\ i[r] # r /\ Advance(r)
      /\ UNCHANGED <<redo, pos, leave, k, lredo, bad, enter, counts>>
  BY DEF TakeRows, buffer
<1>2. /\ i' \in [Ranks -> Nat] /\ pc' \in [Ranks -> Labels] /\ i[r] \in Ranks
      /\ \A s \in Ranks : s # r => i'[s] = i[s] /\ pc'[s] = pc[s]
      /\ i'[r] = i[r] + 1
      /\ \/ i[r] < NP - 1 /\ pc'[r] = "exchange"
         \/ i[r] = NP - 1 /\ pc'[r] = "redo"
  BY <1>1, Advances
<1>3. PICK q \in Ranks : q = i[r] /\ q # r
  BY <1>1, <1>2
<1>4. /\ rows' \in [Ranks -> [Ranks -> Seq(Particles)]]
      /\ \A s, d \in Ranks : rows'[s][d] = IF s = q /\ d = r THEN <<>> ELSE rows[s][d]
  <2>1. rows \in [Ranks -> [Ranks -> Seq(Particles)]]
    BY DEF MigrationTypes
  <2>2. CASE Awaited(r, q)
    <3>1. rows' = [rows EXCEPT ![q][r] = <<>>]
      BY <1>3, <2>2 DEF TakeRows
    <3> QED
      BY <2>1, <3>1, EmptySeq
  <2>3. CASE ~Awaited(r, q)
    <3>1. rows' = rows
      BY <1>3, <2>3 DEF TakeRows
    <3>2. rows[q][r] = <<>>
      BY <1>1, <2>3 DEF Sent, Awaited
    <3> QED
      BY <2>1, <3>1, <3>2
  <2> QED
    BY <2>2, <2>3
<1>5. fp' \in [Ranks -> Seq(Particles)] /\ \A s \in Ranks : s # r => fp'[s] = fp[s]
  <2>1. fp[r] \o rows[q][r] \in Seq(Particles) /\ fp \in [Ranks -> Seq(Particles)]
    BY ConcatProperties DEF MigrationTypes
  <2>2. fp' = [fp EXCEPT ![r] = @ \o rows[q][r]] \/ fp' = fp
    BY <1>3 DEF TakeRows
  <2> QED
    BY <2>1, <2>2
<1>6. ~(leave[q][r] # <<>> /\ pc[q] = "exchange")
  <2>1. ~Awaited(r, q) \/ rows[q][r] # <<>>
    BY <1>3 DEF TakeRows
  <2> QED
    BY <2>1 DEF Sending, Awaited
<1>7. MigrationTypes'
  BY <1>1, <1>2, <1>4, <1>5 DEF MigrationTypes
<1>8. InRange'
  <2>1. i[r] \in Nat
    BY DEF MigrationTypes
  <2>2. \A s \in Ranks : s # r => /\ pc'[s] = "sweep" => k'[s] <= Len(fp'[s])
                                  /\ pc'[s] = "exchange" => i'[s] < NP
    BY <1>1, <1>2, <1>5 DEF InRange
  <2>3. pc'[r] # "sweep" /\ (pc'[r] = "exchange" => i'[r] < NP)
    BY <1>2, <2>1, MigrationAssumption
  <2> QED
    BY <2>2, <2>3 DEF InRange
<1>9. \A s \in Ranks : pc'[s] = pc[s] \/ (pc[s] = "exchange" /\ pc'[s] = "redo")
  BY <1>1, <1>2
<1>10. ToNeighbours' /\ Told' /\ Heard'
  BY <1>1, <1>9 DEF ToNeighbours, Told, Heard
<1>11. \A s \in Ranks : s \in 0 .. NP - 1 /\ i[s] \in Nat
  BY DEF Ranks, MigrationTypes
<1>12. Sending'
  <2>1. ASSUME NEW s \in Ranks, NEW d \in Ranks, leave[s][d] # <<>>, pc'[s] = "exchange"
        PROVE  /\ d \in Comm(s) /\ rows'[s][d] = <<>>
               /\ pc'[d] = "exchange" /\ i'[d] <= s /\ enter[d][s] > 0
    <3>1. pc[s] = "exchange"
      BY <1>1, <1>9, <2>1
    <3>2. /\ d \in Comm(s) /\ rows[s][d] = <<>>
          /\ pc[d] = "exchange" /\ i[d] <= s /\ enter[d][s] > 0
      BY <2>1, <3>1 DEF Sending
    <3>3. d = r => s # q
      BY <1>6, <2>1, <3>1
    <3>4. pc'[d] = "exchange" /\ i'[d] <= s
      BY <1>2, <1>3, <1>11, <3>2, <3>3, MigrationAssumption
    <3> QED
      BY <1>4, <3>2, <3>4
  <2> QED
    BY <1>1, <2>1 DEF Sending
<1>13. Sent'
  <2>1. ASSUME NEW s \in Ranks, NEW d \in Ranks, rows'[s][d] # <<>>
        PROVE  d # s /\ (pc'[d] = "dead" \/ (pc'[d] = "exchange" /\ i'[d] <= s /\ enter[d][s] > 0))
    <3>1. /\ ~(s = q /\ d = r)
          /\ d # s /\ (pc[d] = "dead" \/ (pc[d] = "exchange" /\ i[d] <= s /\ enter[d][s] > 0))
      BY <1>4, <2>1 DEF Sent
    <3>2. CASE d = r
      BY <1>1, <1>2, <1>3, <1>11, <3>1, <3>2, MigrationAssumption
    <3>3. CASE d # r
      BY <1>2, <3>1, <3>3
    <3> QED
      BY <3>2, <3>3
  <2> QED
    BY <1>1, <2>1 DEF Sent
<1>14. Emptied'
  <2>1. ASSUME NEW s \in Ranks, NEW d \in Ranks,
               pc'[s] \in {"idle", "redo"} \/ (pc'[s] = "exchange" /\ i'[s] > s)
        PROVE  leave[s][d] = <<>>
    <3>1. CASE s = r
      <4>1. i[r] > r
        BY <1>1, <1>2, <1>3, <1>11, <2>1, <3>1, MigrationAssumption
      <4> QED
        BY <1>1, <3>1, <4>1 DEF Emptied
    <3>2. CASE s # r
      BY <1>2, <2>1, <3>2 DEF Emptied
    <3> QED
      BY <3>1, <3>2
  <2> QED
    BY <1>1, <2>1 DEF Emptied
<1> QED
  BY <1>7, <1>8, <1>10, <1>12, <1>13, <1>14

LEMMA SendProtocol ==
  ASSUME Protocol, NEW r \in Ranks, NEW d \in Ranks, SendRows(r, d) PROVE Protocol'
<1> USE DEF Protocol
<1>1. /\ pc[r] = "exchange" /\ i[r] = r /\ leave[r][d] # <<>>
      /\ UNCHANGED <<redo, pos, fp, k, lredo, bad, enter, i, counts, pc>>
  BY DEF SendRows
<1>2. \A s, e \in Ranks :
        /\ rows'[s][e]  = IF s = r /\ e = d THEN leave[r][d] ELSE rows[s][e]
        /\ leave'[s][e] = IF s = r /\ e = d THEN <<>> ELSE leave[s][e]
  BY DEF SendRows, MigrationTypes
<1>3. MigrationTypes'
  <2>1. rows' \in [Ranks -> [Ranks -> Seq(Particles)]]
    BY DEF SendRows, MigrationTypes
  <2>2. leave' \in [Ranks -> [Ranks -> Seq(Particles)]]
    BY EmptySeq DEF SendRows, MigrationTypes
  <2> QED
    BY <1>1, <2>1, <2>2 DEF MigrationTypes
<1>4. InRange' /\ ToNeighbours' /\ Emptied'
  BY <1>1, <1>2 DEF InRange, ToNeighbours, Emptied
<1>5. Told'
  <2>1. \A s, e \in Ranks : pc[s] \in {"count", "collect"} => leave'[s][e] = leave[s][e]
    BY <1>1, <1>2
  <2> QED
    BY <1>1, <2>1, ZenonT(40) DEF Told
<1>6. Heard'
  BY <1>1, <1>2 DEF Heard
<1>7. Sending' /\ Sent'
  BY <1>1, <1>2, Neighbours DEF Sending, Sent
<1> QED
  BY <1>3, <1>4, <1>5, <1>6, <1>7

LEMMA TurnProtocol == ASSUME Protocol, NEW r \in Ranks, EndTurn(r) PROVE Protocol'
<1> USE DEF Protocol
<1>1. /\ pc[r] = "exchange" /\ i[r] = r /\ Advance(r) /\ leave[r] = Nothing
      /\ UNCHANGED <<redo, pos, fp, leave, k, lredo, bad, enter, counts, rows>>
  BY DEF EndTurn, buffer
<1>2. /\ i' \in [Ranks -> Nat] /\ pc' \in [Ranks -> Labels]
      /\ \A s \in Ranks : s # r => i'[s] = i[s] /\ pc'[s] = pc[s]
      /\ i'[r] = r + 1
      /\ \/ i[r] < NP - 1 /\ pc'[r] = "exchange"
         \/ i[r] = NP - 1 /\ pc'[r] = "redo"
  BY <1>1, Advances
<1>3. MigrationTypes'
  BY <1>1, <1>2 DEF MigrationTypes
<1>4. \A s \in Ranks : pc'[s] = pc[s] \/ (pc[s] = "exchange" /\ pc'[s] = "redo")
  BY <1>1, <1>2
<1>5. ToNeighbours' /\ Told' /\ Heard'
  BY <1>1, <1>4 DEF ToNeighbours, Told, Heard
<1>6. \A s \in Ranks : s \in 0 .. NP - 1 /\ i[s] \in Nat
  BY DEF Ranks, MigrationTypes
<1>7. InRange'
  BY <1>1, <1>2, <1>6, MigrationAssumption DEF InRange
<1>8. \A d \in Ranks : leave[r][d] = <<>>
  BY <1>1 DEF Nothing
<1>9. Sending'
  BY <1>1, <1>2, <1>6, <1>8, Neighbours, MigrationAssumption DEF Sending
<1>10. Sent'
  BY <1>1, <1>2, <1>6, MigrationAssumption DEF Sent
<1>11. Emptied'
  BY <1>1, <1>2, <1>6, <1>8 DEF Emptied
<1> QED
  BY <1>3, <1>5, <1>7, <1>9, <1>10, <1>11

\* The end of a call.
LEMMA ReturnProtocol ==
  ASSUME Protocol, NEW r \in Ranks, Return(r) \/ (Repeat /\ ~RedoAll)
  PROVE  Protocol'
<1> USE DEF Protocol
<1>1. UNCHANGED <<redo, pos, fp, leave, k, lredo, bad, enter, i, counts, rows>>
  BY DEF Return, Repeat, buffer
<1>2. /\ pc' \in [Ranks -> Labels]
      /\ \A s \in Ranks : pc'[s] = pc[s] \/ (pc[s] = "redo" /\ pc'[s] = "idle")
  BY DEF Return, Repeat, MigrationTypes, Labels
<1>3. MigrationTypes'
  BY <1>1, <1>2 DEF MigrationTypes
<1>4. InRange' /\ ToNeighbours' /\ Emptied'
  BY <1>1, <1>2 DEF InRange, ToNeighbours, Emptied
<1>5. Told' /\ Heard'
  BY <1>1, <1>2 DEF Told, Heard
<1>6. Sending' /\ Sent'
  BY <1>1, <1>2 DEF Sending, Sent
<1> QED
  BY <1>3, <1>4, <1>5, <1>6

LEMMA NextProtocol == ASSUME Protocol, [Next]_vars PROVE Protocol'
<1>1. CASE UNCHANGED vars
  BY <1>1 DEF vars, buffer, Protocol, MigrationTypes, InRange, ToNeighbours, Told, Heard,
     Sending, Sent, Emptied
<1>2. ASSUME NEW r \in Ranks, RankStep(r) PROVE Protocol'
  BY <1>2, LeaveProtocol, KeepProtocol, PostponeProtocol, DeadProtocol, CountProtocol,
     HearProtocol, TakeProtocol, SendProtocol, TurnProtocol, ReturnProtocol DEF RankStep
<1>3. CASE Together
  <2>1. CASE Repeat /\ RedoAll
    <3>1. StartSweep(Ranks) /\ \A r \in Ranks : pc[r] = "redo"
      BY <2>1 DEF Repeat
    <3>2. pos' \in [Particles -> Positions] /\ UNCHANGED <<redo, fp, bad, i, counts, rows>>
      BY <2>1 DEF Repeat, Protocol, MigrationTypes
    <3> QED
      BY <3>1, <3>2, SearchBegins
  <2> QED
    BY <1>3, <2>1, CollectProtocol, ReturnProtocol, SomeRank DEF Together
<1>4. CASE JobEnds
  BY <1>4, DeadProtocol, SomeRank
<1> QED
  BY <1>1, <1>2, <1>3, <1>4, CallProtocol DEF Next

-----------------------------------------------------------------------------
\* S tells the rows of every place: each particle is one of them, and only once.
Each(S) ==
  /\ \A p \in Particles : \E x \in Places : \E j \in 1 .. Len(S[x]) : S[x][j] = p
  /\ \A x, y \in Places : \A j \in 1 .. Len(S[x]), l \in 1 .. Len(S[y]) :
       S[x][j] = S[y][l] => x = y /\ j = l

\* One row is taken out at a, where the last row takes its place, and put behind those of b.
LEMMA MoveRow ==
  ASSUME NEW S \in [Places -> Seq(Particles)], Each(S),
         NEW T \in [Places -> Seq(Particles)],
         NEW a \in Places, NEW b \in Places, a # b, NEW n \in 1 .. Len(S[a]),
         T[a] = WithoutRow(S[a], n), T[b] = Append(S[b], S[a][n]),
         \A x \in Places \ {a, b} : T[x] = S[x]
  PROVE  Each(T)
<1>1. /\ Len(S[a]) \in Nat /\ Len(S[b]) \in Nat /\ S[a] \in Seq(Particles) /\ S[b] \in Seq(Particles)
      /\ \A x \in Places : Len(S[x]) \in Nat
  BY LenProperties
<1>2. /\ Len(T[a]) = Len(S[a]) - 1
      /\ \A j \in 1 .. Len(T[a]) : T[a][j] = IF j = n THEN S[a][Len(S[a])] ELSE S[a][j]
  <2>1. \A j \in 1 .. Len(S[a]) - 1 : (IF j = n THEN S[a][Len(S[a])] ELSE S[a][j]) \in Particles
    BY <1>1, ElementOfSeq
  <2>2. Len(WithoutRow(S[a], n)) = Len(S[a]) - 1
    BY <1>1, <2>1, IsASeq DEF WithoutRow
  <2> QED
    BY <2>2 DEF WithoutRow
<1>3. /\ Len(T[b]) = Len(S[b]) + 1 /\ T[b][Len(S[b]) + 1] = S[a][n]
      /\ \A j \in 1 .. Len(S[b]) : T[b][j] = S[b][j]
  <2>1. S[a][n] \in Particles
    BY <1>1, ElementOfSeq
  <2> QED
    BY <1>1, <2>1, AppendProperties
\* Where the row that is now row j of x was before.
<1> DEFINE P(x, j) == IF x = b /\ j = Len(S[b]) + 1 THEN a ELSE x
           J(x, j) == IF x = b /\ j = Len(S[b]) + 1 THEN n
                      ELSE IF x = a /\ j = n THEN Len(S[a]) ELSE j
<1>4. ASSUME NEW x \in Places, NEW j \in 1 .. Len(T[x])
      PROVE  P(x, j) \in Places /\ J(x, j) \in 1 .. Len(S[P(x, j)]) /\ T[x][j] = S[P(x, j)][J(x, j)]
  <2>1. CASE x = a
    <3>1. P(x, j) = a /\ J(x, j) = IF j = n THEN Len(S[a]) ELSE j
      BY <2>1
    <3>2. /\ j \in Int /\ 1 <= j /\ j <= Len(S[a]) - 1
          /\ T[a][j] = IF j = n THEN S[a][Len(S[a])] ELSE S[a][j]
      BY <1>1, <1>2, <2>1
    <3> HIDE DEF P, J
    <3> QED
      BY <1>1, <2>1, <3>1, <3>2
  <2>2. CASE x = b
    <3>1. CASE j = Len(S[b]) + 1
      <4>1. P(x, j) = a /\ J(x, j) = n
        BY <2>2, <3>1
      <4> HIDE DEF P, J
      <4> QED
        BY <1>3, <2>2, <3>1, <4>1
    <3>2. CASE j # Len(S[b]) + 1
      <4>1. j \in 1 .. Len(S[b])
        BY <1>1, <1>3, <2>2, <3>2
      <4>2. P(x, j) = b /\ J(x, j) = j
        BY <2>2, <3>2
      <4> HIDE DEF P, J
      <4> QED
        BY <1>3, <2>2, <4>1, <4>2
    <3> QED
      BY <3>1, <3>2
  <2>3. CASE x # a /\ x # b
    BY <2>3
  <2> QED
    BY <2>1, <2>2, <2>3
<1>5. ASSUME NEW x \in Places, NEW y \in Places, NEW j \in 1 .. Len(T[x]), NEW l \in 1 .. Len(T[y]),
             P(x, j) = P(y, l), J(x, j) = J(y, l)
      PROVE  x = y /\ j = l
  <2>1. Len(T[a]) = Len(S[a]) - 1 /\ Len(T[b]) = Len(S[b]) + 1
    BY <1>2, <1>3
  <2>2. x = a => j < Len(S[a])
    BY <1>1, <2>1
  <2>3. y = a => l < Len(S[a])
    BY <1>1, <2>1
  <2> QED
    BY <1>1, <1>5, <2>2, <2>3
<1>6. ASSUME NEW p \in Particles
      PROVE  \E x \in Places : \E j \in 1 .. Len(T[x]) : T[x][j] = p
  <2>1. PICK x \in Places : \E j \in 1 .. Len(S[x]) : S[x][j] = p
    BY DEF Each
  <2>2. PICK j \in 1 .. Len(S[x]) : S[x][j] = p
    BY <2>1
  <2>3. CASE x = a /\ j = n
    <3>1. Len(S[b]) + 1 \in 1 .. Len(T[b])
      BY <1>1, <1>3
    <3> QED
      BY <1>3, <2>2, <2>3, <3>1
  <2>4. CASE x = a /\ j = Len(S[a]) /\ j # n
    <3>1. n \in 1 .. Len(T[a])
      BY <1>1, <1>2, <2>4
    <3> QED
      BY <1>2, <2>2, <2>4, <3>1
  <2>5. CASE x = a /\ j # Len(S[a]) /\ j # n
    <3>1. j \in 1 .. Len(T[a])
      <4>1. j \in 1 .. Len(S[a])
        BY <2>5
      <4> QED
        <5>1. Len(T[a]) = Len(S[a]) - 1 /\ Len(S[a]) \in Nat
          BY <1>1, <1>2
        <5>2. j \in Int /\ 1 <= j /\ j <= Len(S[a]) /\ j # Len(S[a])
          BY <2>5, <4>1, <5>1
        <5>3. j <= Len(S[a]) - 1
          BY <5>1, <5>2
        <5> QED
          BY <5>1, <5>2, <5>3
    <3> QED
      BY <1>2, <2>2, <2>5, <3>1
  <2>6. CASE x = b
    <3>1. j \in 1 .. Len(T[b])
      BY <1>1, <1>3, <2>6
    <3> QED
      BY <1>3, <2>2, <2>6, <3>1
  <2>7. CASE x # a /\ x # b
    BY <2>2, <2>7
  <2> QED
    BY <2>3, <2>4, <2>5, <2>6, <2>7
<1> HIDE DEF P, J
<1>7. ASSUME NEW x \in Places, NEW y \in Places, NEW j \in 1 .. Len(T[x]), NEW l \in 1 .. Len(T[y]),
             T[x][j] = T[y][l]
      PROVE  x = y /\ j = l
  <2>1. /\ P(x, j) \in Places /\ J(x, j) \in 1 .. Len(S[P(x, j)])
        /\ P(y, l) \in Places /\ J(y, l) \in 1 .. Len(S[P(y, l)])
    BY <1>4
  <2>2. S[P(x, j)][J(x, j)] = S[P(y, l)][J(y, l)]
    BY <1>4, <1>7
  <2>3. PICK u \in Places, v \in Places : u = P(x, j) /\ v = P(y, l)
    BY <2>1
  <2>4. PICK f \in 1 .. Len(S[u]), g \in 1 .. Len(S[v]) : f = J(x, j) /\ g = J(y, l)
    BY <2>1, <2>3
  <2>5. S[u][f] = S[v][g]
    BY <2>2, <2>3, <2>4
  <2>6. u = v /\ f = g
    BY <2>5 DEF Each
  <2>7. P(x, j) = P(y, l) /\ J(x, j) = J(y, l)
    BY <2>3, <2>4, <2>6
  <2> QED
    BY <1>5, <2>7
<1> QED
  BY <1>6, <1>7 DEF Each

\* All rows of a are put behind those of b.
LEMMA MoveAll ==
  ASSUME NEW S \in [Places -> Seq(Particles)], Each(S),
         NEW T \in [Places -> Seq(Particles)],
         NEW a \in Places, NEW b \in Places, a # b,
         T[a] = <<>>, T[b] = S[b] \o S[a],
         \A x \in Places \ {a, b} : T[x] = S[x]
  PROVE  Each(T)
<1>1. \A x \in Places : Len(S[x]) \in Nat /\ S[x] \in Seq(Particles)
  BY LenProperties
<1>2. Len(T[a]) = 0
  OBVIOUS
<1>3. /\ Len(T[b]) = Len(S[b]) + Len(S[a])
      /\ \A j \in 1 .. Len(T[b]) : T[b][j] = IF j <= Len(S[b]) THEN S[b][j] ELSE S[a][j - Len(S[b])]
  BY <1>1, ConcatProperties
<1> DEFINE P(x, j) == IF x = b /\ j > Len(S[b]) THEN a ELSE x
           J(x, j) == IF x = b /\ j > Len(S[b]) THEN j - Len(S[b]) ELSE j
<1>4. ASSUME NEW x \in Places, NEW j \in 1 .. Len(T[x])
      PROVE  P(x, j) \in Places /\ J(x, j) \in 1 .. Len(S[P(x, j)]) /\ T[x][j] = S[P(x, j)][J(x, j)]
  <2>1. CASE x = a
    BY <1>2, <2>1
  <2>2. CASE x = b
    BY <1>1, <1>3, <2>2
  <2>3. CASE x # a /\ x # b
    BY <2>3
  <2> QED
    BY <2>1, <2>2, <2>3
<1>5. ASSUME NEW x \in Places, NEW y \in Places, NEW j \in 1 .. Len(T[x]), NEW l \in 1 .. Len(T[y]),
             P(x, j) = P(y, l), J(x, j) = J(y, l)
      PROVE  x = y /\ j = l
  <2>1. x # a /\ y # a
    BY <1>2
  <2> QED
    BY <1>1, <1>5, <2>1
<1>6. ASSUME NEW p \in Particles
      PROVE  \E x \in Places : \E j \in 1 .. Len(T[x]) : T[x][j] = p
  <2>1. PICK x \in Places : \E j \in 1 .. Len(S[x]) : S[x][j] = p
    BY DEF Each
  <2>2. PICK j \in 1 .. Len(S[x]) : S[x][j] = p
    BY <2>1
  <2>3. CASE x = a
    <3>1. j + Len(S[b]) \in 1 .. Len(T[b]) /\ j + Len(S[b]) > Len(S[b])
          /\ (j + Len(S[b])) - Len(S[b]) = j
      BY <1>1, <1>3, <2>3
    <3>2. T[b][j + Len(S[b])] = S[a][j]
      BY <1>1, <1>3, <3>1
    <3> QED
      BY <2>2, <2>3, <3>1, <3>2
  <2>4. CASE x = b
    <3>1. j \in 1 .. Len(T[b]) /\ j <= Len(S[b])
      BY <1>1, <1>3, <2>4
    <3> QED
      BY <1>3, <2>2, <2>4, <3>1
  <2>5. CASE x # a /\ x # b
    BY <2>2, <2>5
  <2> QED
    BY <2>3, <2>4, <2>5
<1> HIDE DEF P, J
<1>7. ASSUME NEW x \in Places, NEW y \in Places, NEW j \in 1 .. Len(T[x]), NEW l \in 1 .. Len(T[y]),
             T[x][j] = T[y][l]
      PROVE  x = y /\ j = l
  <2>1. /\ P(x, j) \in Places /\ J(x, j) \in 1 .. Len(S[P(x, j)])
        /\ P(y, l) \in Places /\ J(y, l) \in 1 .. Len(S[P(y, l)])
    BY <1>4
  <2>2. S[P(x, j)][J(x, j)] = S[P(y, l)][J(y, l)]
    BY <1>4, <1>7
  <2>3. PICK u \in Places, v \in Places : u = P(x, j) /\ v = P(y, l)
    BY <2>1
  <2>4. PICK f \in 1 .. Len(S[u]), g \in 1 .. Len(S[v]) : f = J(x, j) /\ g = J(y, l)
    BY <2>1, <2>3
  <2>5. S[u][f] = S[v][g]
    BY <2>2, <2>3, <2>4
  <2>6. u = v /\ f = g
    BY <2>5, SMTT(20) DEF Each
  <2>7. P(x, j) = P(y, l) /\ J(x, j) = J(y, l)
    BY <2>3, <2>4, <2>6
  <2> QED
    BY <1>5, <2>7
<1> QED
  BY <1>6, <1>7 DEF Each

\* The rows of all places, with f, l and w for fp, leave and rows.
Contents(f, l, w) ==
  [x \in Places |-> IF x[1] = "fp" THEN IF x[2] = x[3] THEN f[x[2]] ELSE <<>>
                    ELSE IF x[1] = "leave" THEN l[x[2]][x[3]] ELSE w[x[2]][x[3]]]

\* The names of the places.
FpOf(q, e)    == <<"fp", q, e>>
LeaveOf(q, e) == <<"leave", q, e>>
RowsOf(q, e)  == <<"rows", q, e>>

LEMMA IsPlace ==
  /\ \A q, e \in Ranks : FpOf(q, e) \in Places /\ LeaveOf(q, e) \in Places /\ RowsOf(q, e) \in Places
  /\ \A x \in Places : \E q, e \in Ranks : x = FpOf(q, e) \/ x = LeaveOf(q, e) \/ x = RowsOf(q, e)
  /\ \A q, e, r, d \in Ranks :
       FpOf(q, e) # LeaveOf(r, d) /\ FpOf(q, e) # RowsOf(r, d) /\ LeaveOf(q, e) # RowsOf(r, d)
BY DEF Places, FpOf, LeaveOf, RowsOf

\* S tells what is in fp, leave and rows.
Tells(S, f, l, w) ==
  /\ S \in [Places -> Seq(Particles)]
  /\ \A q, e \in Ranks : /\ S[FpOf(q, e)] = IF q = e THEN f[q] ELSE <<>>
                         /\ S[LeaveOf(q, e)] = l[q][e]
                         /\ S[RowsOf(q, e)] = w[q][e]

LEMMA RowsOfPlaces ==
  ASSUME NEW f \in [Ranks -> Seq(Particles)], NEW l \in [Ranks -> [Ranks -> Seq(Particles)]],
         NEW w \in [Ranks -> [Ranks -> Seq(Particles)]]
  PROVE  Tells(Contents(f, l, w), f, l, w)
<1>1. \A x \in Places : x[1] \in {"fp", "leave", "rows"} /\ x[2] \in Ranks /\ x[3] \in Ranks
  BY DEF Places
<1>2. ASSUME NEW x \in Places
      PROVE  (IF x[1] = "fp" THEN IF x[2] = x[3] THEN f[x[2]] ELSE <<>>
              ELSE IF x[1] = "leave" THEN l[x[2]][x[3]] ELSE w[x[2]][x[3]]) \in Seq(Particles)
  BY <1>1, EmptySeq
<1>3. Contents(f, l, w) \in [Places -> Seq(Particles)]
  BY <1>2 DEF Contents
<1>4. \A q, e \in Ranks : /\ Contents(f, l, w)[FpOf(q, e)] = IF q = e THEN f[q] ELSE <<>>
                          /\ Contents(f, l, w)[LeaveOf(q, e)] = l[q][e]
                          /\ Contents(f, l, w)[RowsOf(q, e)] = w[q][e]
  BY IsPlace DEF Contents, FpOf, LeaveOf, RowsOf
<1> QED
  BY <1>3, <1>4 DEF Tells

LEMMA TellsNow ==
  ASSUME Protocol PROVE Tells(Contents(fp, leave, rows), fp, leave, rows)
BY RowsOfPlaces DEF Protocol, MigrationTypes

LEMMA TellsNext ==
  ASSUME Protocol' PROVE Tells(Contents(fp', leave', rows'), fp', leave', rows')
BY RowsOfPlaces DEF Protocol, MigrationTypes

Whole == Protocol /\ Each(Contents(fp, leave, rows))

LEMMA WholeOnePlace == Whole => OnePlace
<1> SUFFICES ASSUME Whole PROVE OnePlace
  OBVIOUS
<1>1. \A x \in Places : Contents(fp, leave, rows)[x] = At(x)
  BY DEF Contents, At, Places
<1>2. Contents(fp, leave, rows) \in [Places -> Seq(Particles)]
  BY TellsNow DEF Whole, Tells
<1>3. \A x \in Places : DOMAIN At(x) = 1 .. Len(Contents(fp, leave, rows)[x])
  BY <1>1, <1>2, LenProperties
<1> QED
  BY <1>1, <1>3 DEF Whole, Each, OnePlace

LEMMA InitWhole == Init => Whole
<1> SUFFICES ASSUME Init PROVE Whole
  OBVIOUS
<1>1. Protocol
  BY InitProtocol
<1> DEFINE S == Contents(fp, leave, rows)
<1>2. PICK s \in Starts : fp = s.fp
  BY DEF Init
<1>3. \A q, e \in Ranks : /\ S[FpOf(q, e)] = IF q = e THEN fp[q] ELSE <<>>
                          /\ S[LeaveOf(q, e)] = <<>> /\ S[RowsOf(q, e)] = <<>>
  <2>1. leave = [r \in Ranks |-> Nothing] /\ rows = [r \in Ranks |-> Nothing]
    BY DEF Init
  <2>2. \A q, e \in Ranks : leave[q][e] = <<>> /\ rows[q][e] = <<>>
    BY <2>1 DEF Nothing
  <2> QED
    BY <1>1, <2>2, TellsNow DEF Tells
<1>4. \A r \in Ranks : fp[r] \in Seq(Particles) /\ DOMAIN fp[r] = 1 .. Len(fp[r])
  BY <1>1, LenProperties DEF Protocol, MigrationTypes
<1> HIDE DEF S
<1>5. ASSUME NEW p \in Particles PROVE \E x \in Places : \E j \in 1 .. Len(S[x]) : S[x][j] = p
  <2>1. PICK r \in Ranks : \E j \in 1 .. Len(fp[r]) : fp[r][j] = p
    BY <1>2, <1>4, StartsAssumption
  <2>2. S[FpOf(r, r)] = fp[r] /\ FpOf(r, r) \in Places
    BY <1>3, IsPlace
  <2> QED
    BY <2>1, <2>2
<1>6. ASSUME NEW x \in Places, NEW j \in 1 .. Len(S[x])
      PROVE  \E r \in Ranks : x = FpOf(r, r) /\ S[x] = fp[r] /\ j \in DOMAIN fp[r]
  <2>1. S[x] # <<>>
    OBVIOUS
  <2>2. PICK q \in Ranks, e \in Ranks : x = FpOf(q, e) \/ x = LeaveOf(q, e) \/ x = RowsOf(q, e)
    BY IsPlace
  <2>3. x = FpOf(q, e) /\ q = e /\ S[x] = fp[q]
    BY <1>3, <2>1, <2>2
  <2> QED
    BY <1>4, <2>3
<1>7. ASSUME NEW x \in Places, NEW y \in Places, NEW j \in 1 .. Len(S[x]), NEW l \in 1 .. Len(S[y]),
             S[x][j] = S[y][l]
      PROVE  x = y /\ j = l
  <2>1. PICK q \in Ranks : x = FpOf(q, q) /\ S[x] = fp[q] /\ j \in DOMAIN fp[q]
    BY <1>6
  <2>2. PICK r \in Ranks : y = FpOf(r, r) /\ S[y] = fp[r] /\ l \in DOMAIN fp[r]
    BY <1>6
  <2>3. fp[q][j] = fp[r][l]
    BY <1>7, <2>1, <2>2
  <2>4. q = r /\ j = l
    BY <1>2, <2>1, <2>2, <2>3, StartsAssumption
  <2> QED
    BY <2>1, <2>2, <2>4
<1>8. Each(S)
  BY <1>5, <1>7 DEF Each
<1> QED
  BY <1>1, <1>8 DEF Whole, S

LEMMA LeaveWhole ==
  ASSUME Whole, Protocol', NEW r \in Ranks, NEW d \in Ranks, Leave(r, d) PROVE Whole'
<1> DEFINE S == Contents(fp, leave, rows)
           T == Contents(fp', leave', rows')
           a == FpOf(r, r)
           b == LeaveOf(r, d)
<1>1. /\ fp \in [Ranks -> Seq(Particles)] /\ leave \in [Ranks -> [Ranks -> Seq(Particles)]]
      /\ rows \in [Ranks -> [Ranks -> Seq(Particles)]]
  BY DEF Whole, Protocol, MigrationTypes
<1>2. /\ fp' \in [Ranks -> Seq(Particles)] /\ leave' \in [Ranks -> [Ranks -> Seq(Particles)]]
      /\ rows' = rows
  BY DEF Leave, Protocol, MigrationTypes
<1>3. k[r] \in 1 .. Len(fp[r])
  <2>1. pc[r] = "sweep" /\ k[r] > 0
    BY DEF Leave, Looks
  <2>2. k[r] \in Nat /\ k[r] <= Len(fp[r]) /\ Len(fp[r]) \in Nat
    BY <1>1, <2>1, LenProperties DEF Whole, Protocol, MigrationTypes, InRange
  <2> QED
    BY <2>1, <2>2
<1>4. /\ \A q \in Ranks : fp'[q] = IF q = r THEN WithoutRow(fp[r], k[r]) ELSE fp[q]
      /\ \A q, e \in Ranks : leave'[q][e] = IF q = r /\ e = d THEN Append(leave[r][d], fp[r][k[r]])
                                            ELSE leave[q][e]
  BY <1>1 DEF Leave
<1>5. Tells(S, fp, leave, rows) /\ Tells(T, fp', leave', rows')
  BY TellsNow, TellsNext DEF Whole
<1>6. \A q, e \in Ranks :
        /\ S[FpOf(q, e)] = (IF q = e THEN fp[q] ELSE <<>>) /\ S[LeaveOf(q, e)] = leave[q][e]
        /\ T[FpOf(q, e)] = (IF q = e THEN fp'[q] ELSE <<>>) /\ T[LeaveOf(q, e)] = leave'[q][e]
        /\ T[RowsOf(q, e)] = S[RowsOf(q, e)]
  <2> HIDE DEF S, T
  <2>1. \A q, e \in Ranks :
          /\ S[FpOf(q, e)] = (IF q = e THEN fp[q] ELSE <<>>)
          /\ S[LeaveOf(q, e)] = leave[q][e] /\ S[RowsOf(q, e)] = rows[q][e]
    BY <1>5 DEF Tells
  <2>2. \A q, e \in Ranks :
          /\ T[FpOf(q, e)] = (IF q = e THEN fp'[q] ELSE <<>>)
          /\ T[LeaveOf(q, e)] = leave'[q][e] /\ T[RowsOf(q, e)] = rows'[q][e]
    BY <1>5 DEF Tells
  <2> QED
    BY <1>2, <2>1, <2>2
<1>7. a \in Places /\ b \in Places /\ a # b
  BY IsPlace
<1> HIDE DEF S, T
<1>8. S[a] = fp[r] /\ S[b] = leave[r][d]
  BY <1>6
<1>9. T[a] = WithoutRow(S[a], k[r]) /\ T[b] = Append(S[b], S[a][k[r]])
  <2>1. T[a] = fp'[r] /\ T[b] = leave'[r][d]
    BY <1>6
  <2>2. fp'[r] = WithoutRow(fp[r], k[r]) /\ leave'[r][d] = Append(leave[r][d], fp[r][k[r]])
    BY <1>4
  <2> QED
    BY <1>8, <2>1, <2>2
<1>10. ASSUME NEW x \in Places \ {a, b} PROVE T[x] = S[x]
  <2>1. PICK q \in Ranks, e \in Ranks : x = FpOf(q, e) \/ x = LeaveOf(q, e) \/ x = RowsOf(q, e)
    BY IsPlace
  <2>2. CASE x = FpOf(q, e)
    BY <1>4, <1>6, <1>10, <2>2
  <2>3. CASE x = LeaveOf(q, e)
    BY <1>4, <1>6, <1>10, <2>3
  <2>4. CASE x = RowsOf(q, e)
    BY <1>6, <2>4
  <2> QED
    BY <2>1, <2>2, <2>3, <2>4
<1> HIDE DEF a, b
<1>11. Each(T)
  <2>1. Each(S)
    BY DEF Whole, S
  <2>2. k[r] \in 1 .. Len(S[a])
    BY <1>3, <1>8
  <2>3. S \in [Places -> Seq(Particles)] /\ T \in [Places -> Seq(Particles)]
    BY <1>5 DEF Tells
  <2>4. \A x \in Places \ {a, b} : T[x] = S[x]
    BY <1>10
  <2> QED
    BY <1>7, <1>9, <2>1, <2>2, <2>3, <2>4, MoveRow
<1> QED
  BY <1>11 DEF Whole, T

LEMMA TakeWhole == ASSUME Whole, Protocol', NEW r \in Ranks, TakeRows(r) PROVE Whole'
<1>1. i[r] \in Ranks /\ pc[r] = "exchange" /\ i[r] # r
  BY Advances DEF TakeRows, Whole
<1>2. PICK s \in Ranks : s = i[r] /\ s # r
  BY <1>1
<1>3. CASE ~Awaited(r, s)
  <2>1. fp' = fp /\ rows' = rows /\ leave' = leave
    BY <1>2, <1>3 DEF TakeRows, buffer
  <2> QED
    BY <2>1 DEF Whole
<1>4. CASE Awaited(r, s)
  <2> DEFINE S == Contents(fp, leave, rows)
             T == Contents(fp', leave', rows')
             a == RowsOf(s, r)
             b == FpOf(r, r)
  <2>1. /\ fp \in [Ranks -> Seq(Particles)] /\ rows \in [Ranks -> [Ranks -> Seq(Particles)]]
    BY DEF Whole, Protocol, MigrationTypes
  <2>2. /\ fp' = [fp EXCEPT ![r] = @ \o rows[s][r]] /\ rows' = [rows EXCEPT ![s][r] = <<>>]
        /\ leave' = leave
    BY <1>2, <1>4 DEF TakeRows, buffer
  <2>3. /\ \A q \in Ranks : fp'[q] = IF q = r THEN fp[r] \o rows[s][r] ELSE fp[q]
        /\ \A q, e \in Ranks : rows'[q][e] = IF q = s /\ e = r THEN <<>> ELSE rows[q][e]
    BY <2>1, <2>2
  <2>4. Tells(S, fp, leave, rows) /\ Tells(T, fp', leave', rows')
    BY TellsNow, TellsNext DEF Whole
  <2>5. \A q, e \in Ranks :
          /\ S[FpOf(q, e)] = (IF q = e THEN fp[q] ELSE <<>>) /\ S[RowsOf(q, e)] = rows[q][e]
          /\ T[FpOf(q, e)] = (IF q = e THEN fp'[q] ELSE <<>>) /\ T[RowsOf(q, e)] = rows'[q][e]
          /\ T[LeaveOf(q, e)] = S[LeaveOf(q, e)]
    <3>1. leave' = leave
      BY <2>2
    <3> HIDE DEF S, T
    <3> QED
      BY <2>4, <3>1 DEF Tells
  <2>6. a \in Places /\ b \in Places /\ a # b
    BY IsPlace
  <2> HIDE DEF S, T
  <2>7. S[a] = rows[s][r] /\ S[b] = fp[r]
    BY <2>5
  <2>8. T[a] = <<>> /\ T[b] = S[b] \o S[a]
    <3>1. T[a] = rows'[s][r] /\ T[b] = fp'[r]
      BY <2>5
    <3>2. rows'[s][r] = <<>> /\ fp'[r] = fp[r] \o rows[s][r]
      BY <2>3
    <3> QED
      BY <2>7, <3>1, <3>2
  <2>9. ASSUME NEW x \in Places \ {a, b} PROVE T[x] = S[x]
    <3>1. PICK q \in Ranks, e \in Ranks : x = FpOf(q, e) \/ x = LeaveOf(q, e) \/ x = RowsOf(q, e)
      BY IsPlace
    <3>2. CASE x = FpOf(q, e)
      BY <2>3, <2>5, <2>9, <3>2
    <3>3. CASE x = LeaveOf(q, e)
      BY <2>5, <3>3
    <3>4. CASE x = RowsOf(q, e)
      BY <2>3, <2>5, <2>9, <3>4
    <3> QED
      BY <3>1, <3>2, <3>3, <3>4
  <2> HIDE DEF a, b
  <2>10. Each(T)
    <3>1. Each(S)
      BY DEF Whole, S
    <3>2. S \in [Places -> Seq(Particles)] /\ T \in [Places -> Seq(Particles)]
      BY <2>4 DEF Tells
    <3>3. \A x \in Places \ {a, b} : T[x] = S[x]
      BY <2>9
    <3> QED
      BY <2>6, <2>8, <3>1, <3>2, <3>3, MoveAll
  <2> QED
    BY <2>10 DEF Whole, T
<1> QED
  BY <1>3, <1>4

LEMMA SendWhole ==
  ASSUME Whole, Protocol', NEW r \in Ranks, NEW d \in Ranks, SendRows(r, d) PROVE Whole'
<1> DEFINE S == Contents(fp, leave, rows)
           T == Contents(fp', leave', rows')
           a == LeaveOf(r, d)
           b == RowsOf(r, d)
<1>1. leave \in [Ranks -> [Ranks -> Seq(Particles)]] /\ rows \in [Ranks -> [Ranks -> Seq(Particles)]]
  BY DEF Whole, Protocol, MigrationTypes
<1>2. /\ \A q, e \in Ranks : rows'[q][e] = IF q = r /\ e = d THEN leave[r][d] ELSE rows[q][e]
      /\ \A q, e \in Ranks : leave'[q][e] = IF q = r /\ e = d THEN <<>> ELSE leave[q][e]
      /\ fp' = fp
  BY <1>1 DEF SendRows
<1>3. rows[r][d] = <<>>
  BY DEF SendRows, Whole, Protocol, Sending
<1>4. Tells(S, fp, leave, rows) /\ Tells(T, fp', leave', rows')
  BY TellsNow, TellsNext DEF Whole
<1>5. \A q, e \in Ranks :
        /\ S[LeaveOf(q, e)] = leave[q][e] /\ S[RowsOf(q, e)] = rows[q][e]
        /\ T[LeaveOf(q, e)] = leave'[q][e] /\ T[RowsOf(q, e)] = rows'[q][e]
        /\ T[FpOf(q, e)] = S[FpOf(q, e)]
  BY <1>2, <1>4 DEF Tells
<1>6. a \in Places /\ b \in Places /\ a # b
  BY IsPlace
<1> HIDE DEF S, T
<1>7. T[a] = <<>> /\ T[b] = S[b] \o S[a]
  <2>1. S[a] = leave[r][d] /\ S[b] = <<>> /\ T[a] = <<>> /\ T[b] = leave[r][d]
    BY <1>2, <1>3, <1>5
  <2>2. leave[r][d] \in Seq(Particles)
    BY <1>1
  <2> QED
    BY <2>1, <2>2, ConcatEmptySeq
<1>8. ASSUME NEW x \in Places \ {a, b} PROVE T[x] = S[x]
  <2>1. PICK q \in Ranks, e \in Ranks : x = FpOf(q, e) \/ x = LeaveOf(q, e) \/ x = RowsOf(q, e)
    BY IsPlace
  <2>2. CASE x = FpOf(q, e)
    BY <1>5, <2>2
  <2>3. CASE x = LeaveOf(q, e)
    BY <1>2, <1>5, <1>8, <2>3
  <2>4. CASE x = RowsOf(q, e)
    BY <1>2, <1>5, <1>8, <2>4
  <2> QED
    BY <2>1, <2>2, <2>3, <2>4
<1> HIDE DEF a, b
<1>9. Each(T)
  <2>1. Each(S)
    BY DEF Whole, S
  <2>2. S \in [Places -> Seq(Particles)] /\ T \in [Places -> Seq(Particles)]
    BY <1>4 DEF Tells
  <2>3. \A x \in Places \ {a, b} : T[x] = S[x]
    BY <1>8
  <2> QED
    BY <1>6, <1>7, <2>1, <2>2, <2>3, MoveAll
<1> QED
  BY <1>9 DEF Whole, T

\* No other step touches a row: what a search that begins clears is empty.
LEMMA NextWhole == ASSUME Whole, [Next]_vars PROVE Whole'
<1>1. Protocol /\ Protocol'
  BY NextProtocol DEF Whole
<1>2. ASSUME UNCHANGED <<fp, leave, rows>> PROVE Whole'
  BY <1>1, <1>2 DEF Whole
<1>3. ASSUME NEW S \in SUBSET Ranks, StartSweep(S), \A r \in S : pc[r] \in {"idle", "redo"}
      PROVE  leave' = leave
  BY <1>1, <1>3 DEF Protocol, StartSweep, MigrationTypes, Emptied, Nothing
<1>4. ASSUME NEW r \in Ranks, Call(r) PROVE Whole'
  <2>1. leave' = leave
    BY <1>3, <1>4 DEF Call
  <2> QED
    BY <1>2, <1>4, <2>1 DEF Call
<1>5. ASSUME NEW r \in Ranks, RankStep(r) PROVE Whole'
  <2>1. CASE \E d \in Ranks : Leave(r, d) \/ SendRows(r, d)
    BY <1>1, <2>1, LeaveWhole, SendWhole
  <2>2. CASE TakeRows(r)
    BY <1>1, <2>2, TakeWhole
  <2>3. CASE \/ Keep(r) \/ SendCounts(r) \/ RecvCounts(r) \/ EndTurn(r) \/ Return(r)
             \/ \E d \in Ranks : Postpone(r, d) \/ TooMany(r, d)
    BY <1>2, <2>3 DEF Keep, SendCounts, RecvCounts, EndTurn, Return, Postpone, TooMany, buffer
  <2> QED
    BY <1>5, <2>1, <2>2, <2>3 DEF RankStep
<1>6. CASE Together
  <2>1. CASE Repeat /\ RedoAll
    <3>1. leave' = leave
      BY <1>3, <2>1 DEF Repeat
    <3> QED
      BY <1>2, <2>1, <3>1 DEF Repeat
  <2>2. CASE Collect \/ (Repeat /\ ~RedoAll)
    BY <1>2, <2>2 DEF Collect, Repeat, buffer
  <2> QED
    BY <1>6, <2>1, <2>2 DEF Together
<1>7. CASE JobEnds \/ UNCHANGED vars
  BY <1>2, <1>7 DEF JobEnds, vars, buffer
<1> QED
  BY <1>4, <1>5, <1>6, <1>7 DEF Next

\* No particle is lost and none doubled, whatever the sizes of the buffer and of fp, with
\* and without lmigration_redo, and however MPI_SEND works (migrate_particles).
THEOREM NoParticleLost == Spec => []OnePlace
<1>1. Whole /\ [Next]_vars => Whole'
  BY NextWhole
<1> QED
  BY <1>1, InitWhole, WholeOnePlace, PTL DEF Spec

-----------------------------------------------------------------------------
\* Where particles are.  Of the bounds of the ranks this is all that is used:
LEMMA Bounds ==
  /\ NP \in Nat /\ NP > 0 /\ Width \in Nat /\ Width > 0 /\ MaxMove \in Nat
  /\ Bound(0) = 0 /\ Bound(NP) = Length /\ Length \in Nat
  /\ \A a \in 0 .. NP : Bound(a) \in Nat
  /\ \A a \in 0 .. NP - 1 : Bound(a + 1) = Bound(a) + Width
  /\ \A a, b \in 0 .. NP : a < b => Bound(a) + Width <= Bound(b)
<1> USE MigrationAssumption DEF Bound, Length
<1>1. ASSUME NEW m \in Nat PROVE m * Width \in Nat /\ (m + 1) * Width = m * Width + Width
  OBVIOUS
<1>2. ASSUME NEW a \in 0 .. NP, NEW b \in 0 .. NP, a < b PROVE Bound(a) + Width <= Bound(b)
  <2>1. (b - (a + 1)) * Width >= 0 /\ b - (a + 1) \in Nat
    BY <1>1, <1>2
  <2>2. b * Width = (b - (a + 1)) * Width + (a * Width + Width)
    BY <1>2
  <2> QED
    BY <1>1, <2>1, <2>2
<1> QED
  BY <1>1, <1>2

\* A row at x would be handed on well by r: if it stays it is at rest, and if it goes
\* it goes to where it belongs.
Settles(r, x) == /\ Stays(r, x) => AtRest(r, x)
                 /\ \A d \in Ranks : Goes(r, x, d) => In(d, x)

\* The search finds the rank that x belongs to, from any rank, unless it comes from above
\* and x is exactly on the lower bound.
LEMMA SearchFinds ==
  ASSUME NEW r \in Ranks, NEW e \in Ranks, NEW x \in Positions, In(e, x),
         e >= r \/ x > Bound(e) \/ (x = 0 /\ r = NP - 1)
  PROVE  Settles(r, x)
<1> USE Bounds DEF Ranks, Positions, In
<1>1. \A d \in Ranks : Bound(d) \in Nat /\ Bound(d + 1) \in Nat /\ Bound(d + 1) = Bound(d) + Width
  OBVIOUS
<1>2. \A d \in Ranks : /\ d < e => Bound(d + 1) <= x
                       /\ d > e => x < Bound(d)
  <2>1. \A d \in Ranks : d < e => Bound(d + 1) <= Bound(e)
    BY <1>1
  <2>2. \A d \in Ranks : d > e => Bound(e + 1) <= Bound(d)
    BY <1>1
  <2> QED
    BY <1>1, <2>1, <2>2
<1>3. CASE e = r
  <2>1. \A d \in Ranks : ~Goes(r, x, d)
    BY <1>1, <1>3 DEF Goes
  <2> QED
    BY <1>3, <2>1 DEF Settles, AtRest
<1>4. CASE e > r
  <2>1. x >= Bound(r + 1)
    BY <1>2, <1>4
  <2>2. ~(x < Bound(r))
    BY <1>1, <2>1
  <2>3. SearchUp(r, x, e)
    <3>1. \A j \in r + 1 .. e - 1 : x >= Bound(j + 1)
      BY <1>2, <1>4
    <3> QED
      BY <1>4, <3>1 DEF SearchUp
  <2>4. ASSUME NEW d \in Ranks, SearchUp(r, x, d) PROVE d = e
    <3>1. ~(d > e)
      BY <1>4, <2>4 DEF SearchUp
    <3>2. ~(d < e)
      BY <1>2, <2>4 DEF SearchUp
    <3> QED
      BY <3>1, <3>2
  <2>5. Goes(r, x, e)
    BY <2>1, <2>3 DEF Goes
  <2>6. \A d \in Ranks : Goes(r, x, d) => d = e
    BY <2>2, <2>4 DEF Goes
  <2> QED
    BY <2>5, <2>6 DEF Settles, Stays
<1>5. CASE e < r /\ x > Bound(e)
  <2>1. x < Bound(r)
    BY <1>2, <1>5
  <2>2. ~(x >= Bound(r + 1))
    BY <1>1, <2>1
  <2>3. SearchDown(r, x, e)
    <3>1. \A j \in e + 1 .. r - 1 : x <= Bound(j)
      BY <1>2, <1>5
    <3> QED
      BY <1>5, <3>1 DEF SearchDown
  <2>4. ASSUME NEW d \in Ranks, SearchDown(r, x, d) PROVE d = e
    <3>1. ~(d > e)
      BY <1>1, <1>2, <2>4 DEF SearchDown
    <3>2. ~(d < e)
      BY <1>1, <1>5, <2>4 DEF SearchDown
    <3> QED
      BY <3>1, <3>2
  <2>5. Goes(r, x, e)
    BY <2>1, <2>3 DEF Goes
  <2>6. \A d \in Ranks : Goes(r, x, d) => d = e
    BY <2>2, <2>4 DEF Goes
  <2> QED
    BY <2>5, <2>6 DEF Settles, Stays
<1>6. CASE e < r /\ x = 0 /\ r = NP - 1
  <2>1. \A d \in Ranks : ~Goes(r, x, d)
    <3>1. \A d \in Ranks : ~(x > Bound(d)) /\ ~(x >= Bound(r + 1))
      BY <1>1, <1>6
    <3> QED
      BY <3>1 DEF Goes, SearchDown
  <2> QED
    BY <1>6, <2>1 DEF Settles, AtRest
<1> QED
  BY <1>3, <1>4, <1>5, <1>6

LEMMA RestSettles ==
  ASSUME NEW r \in Ranks, NEW x \in Positions, AtRest(r, x) PROVE Settles(r, x)
<1>1. CASE In(r, x)
  BY <1>1, SearchFinds DEF Ranks
<1>2. CASE x = 0 /\ r = NP - 1
  <2>1. 0 \in Ranks /\ In(0, 0)
    <3>1. Bound(0 + 1) = Bound(0) + Width
      BY Bounds
    <3> QED
      BY <3>1, Bounds DEF Ranks, In
  <2> QED
    BY <1>2, <2>1, SearchFinds
<1> QED
  BY <1>1, <1>2 DEF AtRest

\* A particle at rest has moved by less than the width of a part.
LEMMA MovedSettles ==
  ASSUME MaxMove < Width, NEW r \in Ranks, NEW x \in Positions, AtRest(r, x),
         NEW m \in -MaxMove .. MaxMove
  PROVE  Wrap(x + m) \in Positions /\ Settles(r, Wrap(x + m))
<1> DEFINE y == Wrap(x + m)
<1> USE Bounds DEF Ranks, Positions
<1>1. /\ x \in Nat /\ x < Length /\ m \in Int /\ -MaxMove <= m /\ m <= MaxMove
      /\ \A d \in Ranks : Bound(d) \in Nat /\ Bound(d + 1) \in Nat /\ Bound(d + 1) = Bound(d) + Width
      /\ NP - 1 \in Ranks /\ Bound(NP - 1) + Width = Length /\ 0 \in Ranks /\ Bound(0 + 1) = Width
  <2>1. Bound((NP - 1) + 1) = Bound(NP - 1) + Width /\ Bound(0 + 1) = Bound(0) + Width
    OBVIOUS
  <2>2. (NP - 1) + 1 = NP
    OBVIOUS
  <2> QED
    BY <2>1, <2>2
<1>2. CASE x + m < 0
  <2>1. y = x + m + Length /\ y \in Positions /\ In(NP - 1, y)
    BY <1>1, <1>2 DEF Wrap, In
  <2> QED
    BY <1>1, <2>1, SearchFinds
<1>3. CASE x + m >= Length
  <2>1. y = x + m - Length /\ y \in Positions /\ In(0, y)
    BY <1>1, <1>3 DEF Wrap, In
  <2>2. r = NP - 1
    <3>1. x > Bound(NP - 1) /\ x # 0
      BY <1>1, <1>3
    <3>2. Bound(r + 1) > Bound(NP - 1)
      BY <1>1, <3>1 DEF AtRest, In
    <3> QED
      BY <1>1, <3>2
  <2>3. y > Bound(0) \/ y = 0
    BY <2>1
  <2> QED
    BY <1>1, <2>1, <2>2, <2>3, SearchFinds
<1>4. CASE 0 <= x + m /\ x + m < Length
  <2>1. y = x + m /\ y \in Positions
    BY <1>1, <1>4 DEF Wrap
  <2>2. CASE In(r, x) /\ y >= Bound(r + 1)
    <3>1. r + 1 \in Ranks
      BY <1>1, <1>4, <2>1, <2>2
    <3>2. In(r + 1, y)
      BY <1>1, <2>1, <2>2, <3>1 DEF In
    <3> QED
      BY <2>1, <3>1, <3>2, SearchFinds
  <2>3. CASE In(r, x) /\ y < Bound(r)
    <3>1. r - 1 \in Ranks
      BY <1>1, <2>1, <2>3
    <3>2. Bound((r - 1) + 1) = Bound(r - 1) + Width /\ (r - 1) + 1 = r
      BY <3>1
    <3>3. In(r - 1, y) /\ y > Bound(r - 1)
      BY <1>1, <2>1, <2>3, <3>1, <3>2 DEF In
    <3> QED
      BY <2>1, <3>1, <3>3, SearchFinds
  <2>4. CASE In(r, x) /\ Bound(r) <= y /\ y < Bound(r + 1)
    <3>1. In(r, y)
      BY <2>4 DEF In
    <3> QED
      BY <2>1, <3>1, SearchFinds
  <2>5. CASE x = 0 /\ r = NP - 1
    <3>1. In(0, y) /\ (y > Bound(0) \/ y = 0)
      BY <1>1, <2>1, <2>5 DEF In
    <3> QED
      BY <1>1, <2>1, <2>5, <3>1, SearchFinds
  <2> QED
    BY <1>1, <2>1, <2>2, <2>3, <2>4, <2>5 DEF AtRest
<1> QED
  BY <1>1, <1>2, <1>3, <1>4

\* Each row can be handed on well, is at rest where it has been looked at, and is sent to
\* where it belongs; rows that were not looked at are left only if a redo follows.
Near ==
  \A r \in Ranks : \A j \in 1 .. Len(fp[r]) : Settles(r, pos[fp[r][j]])
Rested ==
  \A r \in Ranks : \A j \in 1 .. Len(fp[r]) :
    pc[r] = "idle" \/ (pc[r] # "dead" /\ ~lredo[r] /\ (pc[r] = "sweep" => j > k[r])) =>
      AtRest(r, pos[fp[r][j]])
Addressed ==
  \A s, d \in Ranks : /\ \A j \in 1 .. Len(leave[s][d]) : In(d, pos[leave[s][d][j]])
                      /\ \A j \in 1 .. Len(rows[s][d]) : In(d, pos[rows[s][d][j]])
RedoOnly == \A r \in Ranks : lredo[r] => redo

Settled == Near /\ Rested /\ Addressed /\ RedoOnly

LEMMA RowTypes ==
  ASSUME Protocol
  PROVE  /\ \A p \in Particles : pos[p] \in Positions
         /\ \A r \in Ranks : /\ fp[r] \in Seq(Particles) /\ Len(fp[r]) \in Nat
                             /\ \A j \in 1 .. Len(fp[r]) : fp[r][j] \in Particles
         /\ \A s, d \in Ranks :
              /\ leave[s][d] \in Seq(Particles) /\ Len(leave[s][d]) \in Nat
              /\ \A j \in 1 .. Len(leave[s][d]) : leave[s][d][j] \in Particles
              /\ rows[s][d] \in Seq(Particles) /\ Len(rows[s][d]) \in Nat
              /\ \A j \in 1 .. Len(rows[s][d]) : rows[s][d][j] \in Particles
<1>1. /\ \A p \in Particles : pos[p] \in Positions
      /\ \A r \in Ranks : fp[r] \in Seq(Particles)
      /\ \A s, d \in Ranks : leave[s][d] \in Seq(Particles) /\ rows[s][d] \in Seq(Particles)
  BY DEF Protocol, MigrationTypes
<1>2. \A q \in Seq(Particles) : Len(q) \in Nat /\ \A j \in 1 .. Len(q) : q[j] \in Particles
  BY LenProperties, ElementOfSeq
<1> QED
  BY <1>1, <1>2

\* A row of one rank is not in fp of another, nor in a buffer or a message.
LEMMA Apart ==
  ASSUME Whole, NEW r \in Ranks
  PROVE  /\ \A q \in Ranks \ {r} : \A j \in 1 .. Len(fp[q]) : fp[q][j] \notin ToSet(fp[r])
         /\ \A s, d \in Ranks :
              /\ \A j \in 1 .. Len(leave[s][d]) : leave[s][d][j] \notin ToSet(fp[r])
              /\ \A j \in 1 .. Len(rows[s][d]) : rows[s][d][j] \notin ToSet(fp[r])
<1> DEFINE S == Contents(fp, leave, rows)
<1>1. Tells(S, fp, leave, rows)
  BY TellsNow DEF Whole
<1>2. \A q, e \in Ranks :
        /\ S[FpOf(q, q)] = fp[q] /\ S[LeaveOf(q, e)] = leave[q][e] /\ S[RowsOf(q, e)] = rows[q][e]
  BY <1>1 DEF Tells
<1>3. Each(S)
  BY DEF Whole
<1> HIDE DEF S
<1>4. \A p \in ToSet(fp[r]) : \E l \in 1 .. Len(S[FpOf(r, r)]) : S[FpOf(r, r)][l] = p
  <2>1. DOMAIN fp[r] = 1 .. Len(fp[r])
    BY RowTypes, LenProperties DEF Whole
  <2> QED
    BY <1>2, <2>1 DEF ToSet
<1>5. ASSUME NEW x \in Places, x # FpOf(r, r), NEW j \in 1 .. Len(S[x]), S[x][j] \in ToSet(fp[r])
      PROVE  FALSE
  <2>1. PICK l \in 1 .. Len(S[FpOf(r, r)]) : S[FpOf(r, r)][l] = S[x][j]
    BY <1>4, <1>5
  <2>2. FpOf(r, r) \in Places
    BY IsPlace
  <2> QED
    BY <1>3, <1>5, <2>1, <2>2 DEF Each
<1>6. ASSUME NEW q \in Ranks \ {r} PROVE FpOf(q, q) \in Places /\ FpOf(q, q) # FpOf(r, r)
  BY DEF FpOf, Places
<1>7. \A s, d \in Ranks : /\ LeaveOf(s, d) \in Places /\ LeaveOf(s, d) # FpOf(r, r)
                          /\ RowsOf(s, d) \in Places /\ RowsOf(s, d) # FpOf(r, r)
  BY IsPlace
<1>8. ASSUME NEW q \in Ranks \ {r}, NEW j \in 1 .. Len(fp[q]) PROVE fp[q][j] \notin ToSet(fp[r])
  BY <1>2, <1>5, <1>6
<1>9. ASSUME NEW s \in Ranks, NEW d \in Ranks, NEW j \in 1 .. Len(leave[s][d])
      PROVE  leave[s][d][j] \notin ToSet(fp[r])
  BY <1>2, <1>5, <1>7
<1>10. ASSUME NEW s \in Ranks, NEW d \in Ranks, NEW j \in 1 .. Len(rows[s][d])
       PROVE  rows[s][d][j] \notin ToSet(fp[r])
  BY <1>2, <1>5, <1>7
<1> QED
  BY <1>8, <1>9, <1>10

LEMMA InitSettled == Init => Settled
<1> SUFFICES ASSUME Init PROVE Settled
  OBVIOUS
<1>1. Protocol
  BY InitProtocol
<1>2. PICK s \in Starts : pos = s.pos /\ fp = s.fp
  BY DEF Init
<1>3. ASSUME NEW r \in Ranks, NEW j \in 1 .. Len(fp[r])
      PROVE  pos[fp[r][j]] \in Positions /\ AtRest(r, pos[fp[r][j]])
  <2>1. j \in DOMAIN fp[r] /\ pos[fp[r][j]] \in Positions
    BY <1>1, RowTypes, LenProperties
  <2>2. In(r, pos[fp[r][j]])
    BY <1>2, <2>1, StartsAssumption
  <2> QED
    BY <2>1, <2>2 DEF AtRest
<1>4. Near /\ Rested
  BY <1>3, RestSettles DEF Near, Rested
<1>5. Addressed /\ RedoOnly
  BY DEF Init, Nothing, Addressed, RedoOnly
<1> QED
  BY <1>4, <1>5 DEF Settled

\* A call moves the particles of rank r only.
LEMMA CallSettled ==
  ASSUME MaxMove < Width, Whole, Settled, NEW r \in Ranks, Call(r) PROVE Settled'
<1>1. /\ pc[r] = "idle" /\ UNCHANGED <<redo, fp, rows>>
      /\ \A q \in Ranks : q # r => pc'[q] = pc[q] /\ lredo'[q] = lredo[q] /\ k'[q] = k[q]
      /\ pc'[r] = "sweep" /\ k'[r] = Len(fp[r]) /\ lredo'[r] = FALSE
  BY DEF Call, StartSweep
<1>2. leave' = leave
  BY DEF Call, Whole, Protocol, StartSweep, MigrationTypes, Emptied, Nothing
<1>3. PICK move \in [ToSet(fp[r]) -> -MaxMove .. MaxMove] :
        pos' = [p \in Particles |-> IF p \in ToSet(fp[r]) THEN Wrap(pos[p] + move[p]) ELSE pos[p]]
  BY DEF Call
<1>4. \A p \in Particles : p \notin ToSet(fp[r]) => pos'[p] = pos[p]
  BY <1>3
<1>5. ASSUME NEW j \in 1 .. Len(fp[r]) PROVE Settles(r, pos'[fp[r][j]])
  <2>1. fp[r][j] \in Particles /\ pos[fp[r][j]] \in Positions /\ DOMAIN fp[r] = 1 .. Len(fp[r])
    BY RowTypes, LenProperties DEF Whole
  <2>2. fp[r][j] \in ToSet(fp[r])
    BY <2>1 DEF ToSet
  <2>3. AtRest(r, pos[fp[r][j]])
    BY <1>1 DEF Settled, Rested
  <2>4. move[fp[r][j]] \in -MaxMove .. MaxMove
    BY <2>2
  <2>5. Settles(r, Wrap(pos[fp[r][j]] + move[fp[r][j]]))
    BY <2>1, <2>3, <2>4, MovedSettles
  <2> QED
    BY <1>3, <2>1, <2>2, <2>5
<1>6. ASSUME NEW q \in Ranks, q # r, NEW j \in 1 .. Len(fp[q]) PROVE pos'[fp[q][j]] = pos[fp[q][j]]
  BY <1>4, <1>6, Apart, RowTypes DEF Whole
<1>7. Near'
  BY <1>1, <1>5, <1>6 DEF Settled, Near
<1>8. Rested'
  <2>1. \A j \in 1 .. Len(fp[r]) : ~(j > Len(fp[r]))
    BY RowTypes DEF Whole
  <2>2. ASSUME NEW q \in Ranks, NEW j \in 1 .. Len(fp[q]),
               pc'[q] = "idle" \/ (pc'[q] # "dead" /\ ~lredo'[q] /\ (pc'[q] = "sweep" => j > k'[q]))
        PROVE  AtRest(q, pos'[fp[q][j]])
    <3>1. q # r
      BY <1>1, <2>1, <2>2
    <3> QED
      BY <1>1, <1>6, <2>2, <3>1 DEF Settled, Rested
  <2> QED
    BY <1>1, <2>2 DEF Rested
<1>9. Addressed'
  <2>1. ASSUME NEW s \in Ranks, NEW d \in Ranks
        PROVE  /\ \A j \in 1 .. Len(leave[s][d]) : pos'[leave[s][d][j]] = pos[leave[s][d][j]]
               /\ \A j \in 1 .. Len(rows[s][d]) : pos'[rows[s][d][j]] = pos[rows[s][d][j]]
    BY <1>4, Apart, RowTypes DEF Whole
  <2> QED
    BY <1>1, <1>2, <2>1 DEF Settled, Addressed
<1>10. RedoOnly'
  BY <1>1 DEF Settled, RedoOnly
<1> QED
  BY <1>7, <1>8, <1>9, <1>10 DEF Settled

\* Nothing moves, and a rank that goes on has looked at all its rows.
LEMMA StandSettled ==
  ASSUME Whole, Settled, UNCHANGED <<redo, pos, fp, leave, rows, lredo, k>>,
         \A r \in Ranks : \/ pc'[r] = pc[r]
                          \/ pc'[r] = "dead"
                          \/ /\ pc[r] # "dead" /\ (pc[r] = "sweep" => k[r] = 0)
                             /\ pc'[r] # "sweep" /\ (pc'[r] = "idle" => ~lredo[r])
  PROVE  Settled'
<1>1. Near' /\ Addressed' /\ RedoOnly'
  BY DEF Settled, Near, Addressed, RedoOnly
<1>2. ASSUME NEW r \in Ranks, NEW j \in 1 .. Len(fp[r]),
             pc'[r] = "idle" \/ (pc'[r] # "dead" /\ ~lredo[r] /\ (pc'[r] = "sweep" => j > k[r]))
      PROVE  AtRest(r, pos[fp[r][j]])
  <2>1. Len(fp[r]) \in Nat
    BY RowTypes DEF Whole
  <2>2. pc[r] = "idle" \/ (pc[r] # "dead" /\ ~lredo[r] /\ (pc[r] = "sweep" => j > k[r]))
    BY <1>2, <2>1
  <2> QED
    BY <2>2 DEF Settled, Rested
<1>3. Rested'
  BY <1>2 DEF Rested
<1> QED
  BY <1>1, <1>3 DEF Settled

LEMMA KeepSettled == ASSUME Whole, Settled, NEW r \in Ranks, Keep(r) PROVE Settled'
<1>1. /\ pc[r] = "sweep" /\ k[r] \in 1 .. Len(fp[r]) /\ Stays(r, pos[fp[r][k[r]]])
      /\ UNCHANGED <<redo, pos, fp, leave, lredo, rows, pc>>
      /\ \A q \in Ranks : k'[q] = IF q = r THEN k[r] - 1 ELSE k[q]
  BY RowTypes DEF Keep, Looks, buffer, Whole, Protocol, MigrationTypes, InRange
<1>2. AtRest(r, pos[fp[r][k[r]]])
  BY <1>1 DEF Settled, Near, Settles
<1>3. Near' /\ Addressed' /\ RedoOnly'
  BY <1>1 DEF Settled, Near, Addressed, RedoOnly
<1>4. ASSUME NEW q \in Ranks, NEW j \in 1 .. Len(fp[q]),
             pc[q] = "idle" \/ (pc[q] # "dead" /\ ~lredo[q] /\ (pc[q] = "sweep" => j > k'[q]))
      PROVE  AtRest(q, pos[fp[q][j]])
  <2>1. CASE q = r /\ j = k[r]
    BY <1>2, <2>1
  <2>2. CASE q # r \/ j # k[r]
    <3>1. Len(fp[q]) \in Nat
      BY RowTypes DEF Whole
    <3>2. pc[q] = "idle" \/ (pc[q] # "dead" /\ ~lredo[q] /\ (pc[q] = "sweep" => j > k[q]))
      BY <1>1, <1>4, <2>2, <3>1
    <3> QED
      BY <3>2 DEF Settled, Rested
  <2> QED
    BY <2>1, <2>2
<1>5. Rested'
  BY <1>1, <1>4 DEF Rested
<1> QED
  BY <1>3, <1>5 DEF Settled

LEMMA PostponeSettled ==
  ASSUME Whole, Settled, NEW r \in Ranks, NEW d \in Ranks, Postpone(r, d) PROVE Settled'
<1>1. /\ redo /\ pc[r] = "sweep" /\ lredo'[r]
      /\ UNCHANGED <<redo, pos, fp, leave, rows, pc>>
      /\ \A q \in Ranks : q # r => lredo'[q] = lredo[q] /\ k'[q] = k[q]
  BY DEF Postpone, Full, Looks, buffer, Whole, Protocol, MigrationTypes
<1>2. Near' /\ Addressed' /\ RedoOnly'
  BY <1>1 DEF Settled, Near, Addressed, RedoOnly
<1>3. Rested'
  BY <1>1 DEF Settled, Rested
<1> QED
  BY <1>2, <1>3 DEF Settled

\* The row that leaves is put among those for the rank it belongs to, and the last row,
\* which the search has passed, takes its place.
LEMMA LeaveSettled ==
  ASSUME Whole, Settled, NEW r \in Ranks, NEW d \in Ranks, Leave(r, d) PROVE Settled'
<1> DEFINE n == Len(fp[r])
           p == fp[r][k[r]]
<1>1. /\ pc[r] = "sweep" /\ k[r] \in 1 .. n /\ n \in Nat /\ p \in Particles
      /\ Goes(r, pos[p], d) /\ UNCHANGED <<redo, pos, lredo, rows, pc>>
  <2>1. /\ pc[r] = "sweep" /\ k[r] > 0 /\ Goes(r, pos[p], d)
        /\ UNCHANGED <<redo, pos, lredo, rows, pc>>
    BY DEF Leave, Looks
  <2>2. k[r] \in Nat /\ k[r] <= n
    BY <2>1 DEF Whole, Protocol, InRange, MigrationTypes
  <2>3. n \in Nat /\ \A j \in 1 .. n : fp[r][j] \in Particles
    BY RowTypes DEF Whole
  <2> QED
    BY <2>1, <2>2, <2>3
<1>2. /\ fp'[r] = WithoutRow(fp[r], k[r])
      /\ \A q \in Ranks : q # r => fp'[q] = fp[q] /\ k'[q] = k[q]
      /\ k'[r] = k[r] - 1
  BY DEF Leave, Whole, Protocol, MigrationTypes
<1>3. /\ Len(fp'[r]) = n - 1
      /\ \A j \in 1 .. n - 1 : fp'[r][j] = IF j = k[r] THEN fp[r][n] ELSE fp[r][j]
  BY <1>1, <1>2 DEF WithoutRow
<1>4. /\ leave'[r][d] = Append(leave[r][d], p)
      /\ \A s, e \in Ranks : s # r \/ e # d => leave'[s][e] = leave[s][e]
  BY DEF Leave, Whole, Protocol, MigrationTypes
<1>5. In(d, pos[p])
  BY <1>1 DEF Settled, Near, Settles
<1>6. ASSUME NEW j \in 1 .. n - 1
      PROVE  \E l \in 1 .. n : fp'[r][j] = fp[r][l] /\ (j > k[r] - 1 => l > k[r])
  <2>1. CASE j = k[r]
    BY <1>1, <1>3, <2>1
  <2>2. CASE j # k[r]
    BY <1>1, <1>3, <2>2
  <2> QED
    BY <2>1, <2>2
<1> HIDE DEF n, p
<1>7. Near'
  <2>1. ASSUME NEW j \in 1 .. n - 1 PROVE Settles(r, pos[fp'[r][j]])
    BY <1>6 DEF Settled, Near, n
  <2> QED
    BY <1>1, <1>2, <1>3, <2>1 DEF Settled, Near
<1>8. Rested'
  <2>1. ASSUME NEW j \in 1 .. n - 1, ~lredo[r], j > k[r] - 1 PROVE AtRest(r, pos[fp'[r][j]])
    <3>1. PICK l \in 1 .. n : fp'[r][j] = fp[r][l] /\ l > k[r]
      BY <1>6, <2>1
    <3>2. AtRest(r, pos[fp[r][l]])
      BY <1>1, <2>1, <3>1 DEF Settled, Rested, n
    <3> QED
      BY <3>1, <3>2
  <2> QED
    BY <1>1, <1>2, <1>3, <2>1 DEF Settled, Rested
<1>9. Addressed'
  <2>1. leave[r][d] \in Seq(Particles) /\ Len(leave[r][d]) \in Nat
    BY RowTypes DEF Whole
  <2>2. ASSUME NEW j \in 1 .. Len(leave'[r][d]) PROVE In(d, pos[leave'[r][d][j]])
    <3>1. /\ Len(leave'[r][d]) = Len(leave[r][d]) + 1
          /\ leave'[r][d][j] = IF j = Len(leave[r][d]) + 1 THEN p ELSE leave[r][d][j]
      BY <1>1, <1>4, <2>1
    <3>2. CASE j = Len(leave[r][d]) + 1
      BY <1>5, <3>1, <3>2
    <3>3. CASE j # Len(leave[r][d]) + 1
      <4>1. j \in 1 .. Len(leave[r][d])
        BY <2>1, <3>1, <3>3
      <4> QED
        BY <3>1, <3>3, <4>1 DEF Settled, Addressed
    <3> QED
      BY <3>2, <3>3
  <2> QED
    <3>1. ASSUME NEW s \in Ranks, NEW e \in Ranks, NEW j \in 1 .. Len(leave'[s][e])
          PROVE  In(e, pos[leave'[s][e][j]])
      <4>1. CASE s = r /\ e = d
        BY <2>2, <3>1, <4>1
      <4>2. CASE s # r \/ e # d
        BY <1>4, <3>1, <4>2 DEF Settled, Addressed
      <4> QED
        BY <4>1, <4>2
    <3> QED
      BY <1>1, <3>1 DEF Settled, Addressed
<1>10. RedoOnly'
  BY <1>1 DEF Settled, RedoOnly
<1> QED
  BY <1>7, <1>8, <1>9, <1>10 DEF Settled

LEMMA TakeSettled == ASSUME Whole, Settled, NEW r \in Ranks, TakeRows(r) PROVE Settled'
<1> DEFINE s == i[r]
<1>1. /\ pc[r] = "exchange" /\ s \in Ranks /\ s # r
      /\ UNCHANGED <<redo, pos, leave, lredo, k>>
      /\ \A q \in Ranks : pc'[q] = pc[q] \/ (q = r /\ pc'[r] = "redo")
  <2>1. pc[r] = "exchange" /\ s # r /\ UNCHANGED <<redo, pos, leave, lredo, k>>
    BY DEF TakeRows, buffer
  <2>2. i[r] \in Nat /\ i[r] < NP
    BY <2>1 DEF Whole, Protocol, InRange, MigrationTypes
  <2>3. \A q \in Ranks : pc'[q] = pc[q] \/ (q = r /\ pc'[r] = "redo")
    BY DEF TakeRows, Advance, Whole, Protocol, MigrationTypes
  <2> QED
    BY <2>1, <2>2, <2>3, MigrationAssumption DEF Ranks
<1>2. CASE ~Awaited(r, s)
  <2>1. UNCHANGED <<fp, rows>>
    BY <1>2 DEF TakeRows
  <2> QED
    BY <1>1, <2>1, StandSettled
<1>3. CASE Awaited(r, s)
  <2>1. /\ fp'[r] = fp[r] \o rows[s][r] /\ \A q \in Ranks : q # r => fp'[q] = fp[q]
        /\ rows'[s][r] = <<>>
        /\ \A q, e \in Ranks : q # s \/ e # r => rows'[q][e] = rows[q][e]
    <3>1. fp' = [fp EXCEPT ![r] = @ \o rows[s][r]] /\ rows' = [rows EXCEPT ![s][r] = <<>>]
      BY <1>3 DEF TakeRows
    <3>2. fp \in [Ranks -> Seq(Particles)] /\ rows \in [Ranks -> [Ranks -> Seq(Particles)]]
      BY DEF Whole, Protocol, MigrationTypes
    <3> HIDE DEF s
    <3> QED
      BY <1>1, <3>1, <3>2
  <2> HIDE DEF s
  <2>2. /\ fp[r] \in Seq(Particles) /\ rows[s][r] \in Seq(Particles)
        /\ Len(fp[r]) \in Nat /\ Len(rows[s][r]) \in Nat
        /\ \A l \in 1 .. Len(rows[s][r]) : rows[s][r][l] \in Particles
        /\ \A x \in Particles : pos[x] \in Positions
    BY <1>1, RowTypes DEF Whole
  <2>3. Len(fp'[r]) = Len(fp[r]) + Len(rows[s][r])
    BY <2>1, <2>2
  <2>4. ASSUME NEW j \in 1 .. Len(fp'[r]), j > Len(fp[r])
        PROVE  AtRest(r, pos[fp'[r][j]]) /\ pos[fp'[r][j]] \in Positions
    <3>1. j - Len(fp[r]) \in 1 .. Len(rows[s][r]) /\ fp'[r][j] = rows[s][r][j - Len(fp[r])]
      <4>1. ASSUME NEW a \in Seq(Particles), NEW b \in Seq(Particles), NEW l \in 1 .. Len(a \o b),
                   l > Len(a)
            PROVE  l - Len(a) \in 1 .. Len(b) /\ (a \o b)[l] = b[l - Len(a)]
        BY <4>1
      <4> QED
        <5>1. j \in 1 .. Len(fp[r] \o rows[s][r]) /\ fp'[r][j] = (fp[r] \o rows[s][r])[j]
          BY <2>1, <2>4
        <5> QED
          BY <2>2, <2>4, <4>1, <5>1
    <3>2. In(r, pos[fp'[r][j]])
      BY <1>1, <3>1 DEF Settled, Addressed
    <3> QED
      BY <2>2, <3>1, <3>2 DEF AtRest
  <2>5. ASSUME NEW j \in 1 .. Len(fp'[r]), ~(j > Len(fp[r]))
        PROVE  fp'[r][j] = fp[r][j] /\ j \in 1 .. Len(fp[r])
    BY <2>1, <2>2, <2>3, <2>5
  <2>6. Near'
    <3>1. ASSUME NEW j \in 1 .. Len(fp'[r]) PROVE Settles(r, pos[fp'[r][j]])
      <4>1. CASE j > Len(fp[r])
        BY <2>4, <4>1, RestSettles
      <4>2. CASE ~(j > Len(fp[r]))
        BY <2>5, <4>2 DEF Settled, Near
      <4> QED
        BY <4>1, <4>2
    <3> QED
      BY <1>1, <2>1, <3>1 DEF Settled, Near
  <2>7. Rested'
    <3>1. ASSUME NEW j \in 1 .. Len(fp'[r]), ~lredo[r] PROVE AtRest(r, pos[fp'[r][j]])
      <4>1. CASE j > Len(fp[r])
        BY <2>4, <4>1
      <4>2. CASE ~(j > Len(fp[r]))
        BY <1>1, <2>5, <3>1, <4>2 DEF Settled, Rested
      <4> QED
        BY <4>1, <4>2
    <3> QED
      BY <1>1, <2>1, <3>1, ZenonT(40) DEF Settled, Rested
  <2>8. Addressed'
    <3>1. Len(rows'[s][r]) = 0
      BY <2>1
    <3> QED
      <4>1. ASSUME NEW q \in Ranks, NEW e \in Ranks, NEW j \in 1 .. Len(rows'[q][e])
            PROVE  In(e, pos[rows'[q][e][j]])
        <5>1. q # s \/ e # r
          BY <3>1, <4>1
        <5>2. rows'[q][e] = rows[q][e]
          BY <2>1, <5>1
        <5> QED
          BY <4>1, <5>2 DEF Settled, Addressed
      <4> QED
        BY <1>1, <4>1 DEF Settled, Addressed
  <2>9. RedoOnly'
    BY <1>1 DEF Settled, RedoOnly
  <2> QED
    BY <2>6, <2>7, <2>8, <2>9 DEF Settled
<1> QED
  BY <1>2, <1>3

LEMMA SendSettled ==
  ASSUME Whole, Settled, NEW r \in Ranks, NEW d \in Ranks, SendRows(r, d) PROVE Settled'
<1>1. /\ UNCHANGED <<redo, pos, fp, lredo, k, pc>>
      /\ rows'[r][d] = leave[r][d] /\ leave'[r][d] = <<>>
      /\ \A s, e \in Ranks : s # r \/ e # d =>
           leave'[s][e] = leave[s][e] /\ rows'[s][e] = rows[s][e]
  BY DEF SendRows, Whole, Protocol, MigrationTypes
<1>2. Addressed'
  <2>1. Len(leave'[r][d]) = 0
    BY <1>1
  <2> QED
    BY <1>1, <2>1, SMTT(20) DEF Settled, Addressed
<1>3. Near' /\ Rested' /\ RedoOnly'
  BY <1>1 DEF Settled, Near, Rested, RedoOnly
<1> QED
  BY <1>2, <1>3 DEF Settled

LEMMA RepeatSettled == ASSUME Whole, Settled, Repeat PROVE Settled'
<1>1. CASE RedoAll
  <2>1. /\ UNCHANGED <<redo, pos, fp, rows>>
        /\ \A r \in Ranks : pc'[r] = "sweep" /\ k'[r] = Len(fp[r]) /\ lredo'[r] = FALSE
    BY <1>1 DEF Repeat, StartSweep
  <2>2. leave' = leave
    BY <1>1 DEF Repeat, Whole, Protocol, StartSweep, MigrationTypes, Emptied, Nothing
  <2>3. \A r \in Ranks : \A j \in 1 .. Len(fp[r]) : ~(j > Len(fp[r]))
    BY RowTypes DEF Whole
  <2>4. Near' /\ Addressed' /\ RedoOnly'
    BY <2>1, <2>2 DEF Settled, Near, Addressed, RedoOnly
  <2>5. Rested'
    BY <2>1, <2>3 DEF Rested
  <2> QED
    BY <2>4, <2>5 DEF Settled
<1>2. CASE ~RedoAll
  BY <1>2, StandSettled DEF Repeat, RedoAll, buffer
<1> QED
  BY <1>1, <1>2

LEMMA NextSettled ==
  ASSUME MaxMove < Width, Whole, Settled, [Next]_vars PROVE Settled'
<1>1. \A r \in Ranks : pc[r] \in Labels /\ pc \in [Ranks -> Labels]
  BY DEF Whole, Protocol, MigrationTypes
<1>2. ASSUME NEW r \in Ranks, Call(r) PROVE Settled'
  BY <1>2, CallSettled
<1>3. ASSUME NEW r \in Ranks, RankStep(r) PROVE Settled'
  <2>1. CASE Keep(r)
    BY <2>1, KeepSettled
  <2>2. CASE TakeRows(r)
    BY <2>2, TakeSettled
  <2>3. CASE \E d \in Ranks : Leave(r, d) \/ Postpone(r, d) \/ SendRows(r, d)
    BY <2>3, LeaveSettled, PostponeSettled, SendSettled
  <2>4. CASE SendCounts(r) \/ RecvCounts(r) \/ EndTurn(r) \/ \E d \in Ranks : TooMany(r, d)
    <3>1. /\ UNCHANGED <<redo, pos, fp, leave, rows, lredo, k>>
          /\ pc[r] # "dead" /\ (pc[r] = "sweep" => k[r] = 0 \/ pc'[r] = "dead")
          /\ \A q \in Ranks : pc'[q] = pc[q] \/ (q = r /\ pc'[r] \notin {"sweep", "idle"})
      BY <1>1, <2>4 DEF SendCounts, RecvCounts, EndTurn, Advance, TooMany, Full, Looks, buffer
    <3> QED
      BY <3>1, StandSettled
  <2>5. CASE Return(r)
    <3>1. /\ UNCHANGED <<redo, pos, fp, leave, rows, lredo, k>>
          /\ ~redo /\ pc[r] = "redo"
          /\ \A q \in Ranks : pc'[q] = pc[q] \/ (q = r /\ pc'[r] = "idle")
      BY <1>1, <2>5 DEF Return, buffer
    <3>2. ~lredo[r]
      BY <3>1 DEF Settled, RedoOnly
    <3> QED
      BY <3>1, <3>2, StandSettled
  <2> QED
    BY <1>3, <2>1, <2>2, <2>3, <2>4, <2>5 DEF RankStep
<1>4. CASE Repeat
  BY <1>4, RepeatSettled
<1>5. CASE Collect
  <2>1. /\ UNCHANGED <<redo, pos, fp, leave, rows, lredo, k>>
        /\ \A q \in Ranks : pc[q] = "collect" /\ pc'[q] \in {"dead", "exchange"}
    BY <1>5 DEF Collect, buffer
  <2> QED
    BY <2>1, StandSettled
<1>6. CASE JobEnds
  BY <1>6, StandSettled DEF JobEnds, buffer
<1>7. CASE UNCHANGED vars
  BY <1>7, StandSettled DEF vars, buffer
<1> QED
  BY <1>2, <1>3, <1>4, <1>5, <1>6, <1>7 DEF Next, Together

LEMMA SettledAtHome == Whole /\ Settled => AtHome
<1> SUFFICES ASSUME Whole, Settled, NEW r \in Ranks, pc[r] = "idle", NEW j \in DOMAIN fp[r]
             PROVE  AtRest(r, pos[fp[r][j]])
  BY DEF AtHome
<1>1. j \in 1 .. Len(fp[r])
  BY RowTypes, LenProperties DEF Whole
<1> QED
  BY <1>1 DEF Settled, Rested

\* When migrate_particles returns on a rank, that rank has the particles of its part of the
\* box, whatever the size of the buffer and however often the search was repeated, if no
\* particle moves by the width of a part or more in a time step.
THEOREM ReturnsAtHome == ASSUME MaxMove < Width PROVE Spec => []AtHome
<1>1. Init => Whole /\ Settled
  BY InitWhole, InitSettled
<1>2. Whole /\ Settled /\ [Next]_vars => Whole' /\ Settled'
  BY NextWhole, NextSettled
<1>3. Whole /\ Settled => AtHome
  BY SettledAtHome
<1> QED
  BY <1>1, <1>2, <1>3, PTL DEF Spec

-----------------------------------------------------------------------------
\* How MapThenSumSet sums h over the subsets of S, in the order of its choices.
Summing(h, S, g) ==
  g = [T \in SUBSET S |->
         IF T = {} THEN 0
         ELSE h[CHOOSE x \in T : TRUE] + g[T \ {CHOOSE x \in T : TRUE}]]
Sum(h) == (CHOOSE g : Summing(h, Ranks, g))[Ranks]

\* The rows that leave a rank, for each destination; those a rank still awaits, when it is
\* the turn of rank n.
Rows(q) == [d \in Ranks |-> Len(q[d])]
Due(n, e) == [s \in Ranks |-> IF n <= s THEN e[s] ELSE 0]

\* The buffer holds what has been counted; there is room for all that is still to come,
\* which is what has been announced.
Buffered ==
  nleave \in [Ranks -> 0 .. NMig] /\ \A r \in Ranks : Sum(Rows(leave[r])) <= nleave[r]
Room ==
  \A r \in Ranks :
    /\ Len(fp[r]) <= MPar
    /\ pc[r] = "collect" /\ ~bad[r] => Len(fp[r]) + Sum(enter[r]) <= MPar
    /\ pc[r] = "exchange" => Len(fp[r]) + Sum(Due(i[r], enter[r])) <= MPar
Announced ==
  \A s, d \in Ranks :
    /\ leave[s][d] # <<>> /\ pc[s] = "exchange" => enter[d][s] = Len(leave[s][d])
    /\ rows[s][d] # <<>> /\ pc[d] = "exchange" => enter[d][s] = Len(rows[s][d])
Limits == Buffered /\ Room /\ Announced

\* A set of numbers has a smallest one.
LEMMA Smallest ==
  ASSUME NEW S \in SUBSET Nat, S # {}
  PROVE  \E n \in S : \A m \in S : n <= m
<1>1. \E n \in S : \A m \in S : ~(<<m, n>> \in OpToRel(<, Nat))
  BY NatLessThanWellFounded, WFMin
<1>2. PICK n \in S : \A m \in S : ~(<<m, n>> \in OpToRel(<, Nat))
  BY <1>1
<1>3. \A m \in S : ~(m < n)
  BY <1>2 DEF OpToRel
<1>4. \A m \in S : n <= m
  BY <1>3
<1> QED BY <1>4

LEMMA OneLess ==
  ASSUME NEW T, IsFiniteSet(T), NEW x \in T
  PROVE  /\ IsFiniteSet(T \ {x}) /\ Cardinality(T) \in Nat /\ Cardinality(T \ {x}) \in Nat
         /\ Cardinality(T \ {x}) = Cardinality(T) - 1 /\ T \ {x} \in SUBSET T
BY FS_RemoveElement, FS_CardinalityType, FS_Subset

LEMMA SummingThere ==
  ASSUME NEW h, NEW S, IsFiniteSet(S)
  PROVE  \E g : Summing(h, S, g)
<1> DEFINE Few(n) == {T \in SUBSET S : Cardinality(T) <= n}
           SumTo(n, g) == g = [T \in Few(n) |->
                                 IF T = {} THEN 0
                                 ELSE h[CHOOSE x \in T : TRUE] + g[T \ {CHOOSE x \in T : TRUE}]]
           Bad == {n \in Nat : ~\E g : SumTo(n, g)}
<1>1. \A T \in SUBSET S : IsFiniteSet(T) /\ Cardinality(T) \in Nat
  BY FS_Subset, FS_CardinalityType
<1>2. Bad = {}
  <2> SUFFICES ASSUME Bad # {} PROVE FALSE
    OBVIOUS
  <2>1. PICK n \in Bad : \A m \in Bad : n <= m
    <3>1. Bad \in SUBSET Nat
      OBVIOUS
    <3> HIDE DEF Bad
    <3> QED BY <3>1, Smallest
  <2>2. n \in Nat /\ ~\E g : SumTo(n, g)
    OBVIOUS
  <2>3. n # 0
    <3> DEFINE g0 == [T \in Few(0) |-> 0]
    <3>1. \A T \in Few(0) : T = {}
      BY <1>1, FS_EmptySet
    <3>2. SumTo(0, g0)
      BY <3>1
    <3> HIDE DEF SumTo
    <3> QED BY <2>2, <3>2
  <2>4. n - 1 \in Nat /\ n - 1 \notin Bad
    <3>1. n - 1 \in Nat /\ ~(n <= n - 1)
      BY <2>2, <2>3
    <3> HIDE DEF Bad
    <3> QED BY <2>1, <3>1
  <2>5. PICK g : SumTo(n - 1, g)
    <3> HIDE DEF SumTo
    <3> QED BY <2>4
  <2> DEFINE more == [T \in Few(n) |->
                        IF T = {} THEN 0
                        ELSE h[CHOOSE x \in T : TRUE] + g[T \ {CHOOSE x \in T : TRUE}]]
  <2>6. \A T \in Few(n - 1) : T \in Few(n) /\ more[T] = g[T]
    <3> TAKE T \in Few(n - 1)
    <3>1. T \in Few(n)
      BY <1>1, <2>2
    <3>2. more[T] = IF T = {} THEN 0
                    ELSE h[CHOOSE x \in T : TRUE] + g[T \ {CHOOSE x \in T : TRUE}]
      BY <3>1
    <3>3. g[T] = IF T = {} THEN 0
                 ELSE h[CHOOSE x \in T : TRUE] + g[T \ {CHOOSE x \in T : TRUE}]
      BY <2>5
    <3> HIDE DEF more, SumTo, Few
    <3> QED BY <3>1, <3>2, <3>3
  <2>7. ASSUME NEW T \in Few(n), T # {}
        PROVE  g[T \ {CHOOSE x \in T : TRUE}] = more[T \ {CHOOSE x \in T : TRUE}]
    <3> DEFINE y == CHOOSE x \in T : TRUE
    <3>1. y \in T
      BY <2>7
    <3> HIDE DEF y
    <3>2. T \ {y} \in Few(n - 1)
      BY <1>1, <2>2, <3>1, OneLess
    <3>3. g[T \ {y}] = more[T \ {y}]
      <4> HIDE DEF more, SumTo, Few
      <4> QED BY <2>6, <3>2
    <3> QED BY <3>3 DEF y
  <2>8. SumTo(n, more)
    <3> DEFINE a(T) == g[T \ {CHOOSE x \in T : TRUE}]
               b(T) == more[T \ {CHOOSE x \in T : TRUE}]
    <3>1. \A T \in Few(n) : T # {} => a(T) = b(T)
      BY <2>7
    <3>2. more = [T \in Few(n) |-> IF T = {} THEN 0 ELSE h[CHOOSE x \in T : TRUE] + a(T)]
      OBVIOUS
    <3>3. more = [T \in Few(n) |-> IF T = {} THEN 0 ELSE h[CHOOSE x \in T : TRUE] + b(T)]
      <4> HIDE DEF a, b, more, Few
      <4> QED BY <3>1, <3>2
    <3> HIDE DEF more
    <3> QED BY <3>3
  <2> HIDE DEF SumTo
  <2> QED BY <2>2, <2>8
<1>3. PICK g : SumTo(Cardinality(S), g)
  <2>1. Cardinality(S) \in Nat
    BY FS_CardinalityType
  <2> HIDE DEF SumTo
  <2> QED BY <1>2, <2>1
<1>4. Few(Cardinality(S)) = SUBSET S
  BY FS_Subset
<1>5. Summing(h, S, g)
  BY <1>3, <1>4 DEF Summing
<1> QED BY <1>5

\* A term changes: so does the sum.
LEMMA OtherTerm ==
  ASSUME NEW S, IsFiniteSet(S), NEW x \in S,
         NEW h \in [S -> Int], NEW f, Summing(h, S, f),
         NEW other \in [S -> Int], NEW g, Summing(other, S, g), \A y \in S : y # x => other[y] = h[y]
  PROVE  f[S] \in Int /\ g[S] = f[S] + other[x] - h[x]
<1> DEFINE Right(T) == f[T] \in Int /\ g[T] = IF x \in T THEN f[T] + other[x] - h[x] ELSE f[T]
           Bad == {n \in Nat : \E T \in SUBSET S : Cardinality(T) = n /\ ~Right(T)}
<1>1. \A T \in SUBSET S : IsFiniteSet(T) /\ Cardinality(T) \in Nat
  BY FS_Subset, FS_CardinalityType
<1>2. ASSUME NEW T \in SUBSET S, T # {}
      PROVE  \E y \in T : f[T] = h[y] + f[T \ {y}] /\ g[T] = other[y] + g[T \ {y}]
  <2> DEFINE y == CHOOSE x1 \in T : TRUE
  <2>1. y \in T
    BY <1>2
  <2>2. f[T] = h[y] + f[T \ {y}] /\ g[T] = other[y] + g[T \ {y}]
    BY <1>2 DEF Summing
  <2> HIDE DEF y
  <2> QED BY <2>1, <2>2
<1>3. Bad = {}
  <2> SUFFICES ASSUME Bad # {} PROVE FALSE
    OBVIOUS
  <2>1. PICK n \in Bad : \A m \in Bad : n <= m
    <3>1. Bad \in SUBSET Nat
      OBVIOUS
    <3> HIDE DEF Bad
    <3> QED BY <3>1, Smallest
  <2>2. PICK T \in SUBSET S : Cardinality(T) = n /\ ~Right(T)
    OBVIOUS
  <2>3. T # {}
    <3>1. Right({})
      BY DEF Summing
    <3> HIDE DEF Right
    <3> QED BY <2>2, <3>1
  <2>4. PICK y \in T : f[T] = h[y] + f[T \ {y}] /\ g[T] = other[y] + g[T \ {y}]
    BY <1>2, <2>3
  <2>5. Right(T \ {y})
    <3>1. T \ {y} \in SUBSET S /\ Cardinality(T \ {y}) \in Nat /\ ~(n <= Cardinality(T \ {y}))
      BY <1>1, <2>2, OneLess
    <3>2. Cardinality(T \ {y}) \notin Bad
      <4> HIDE DEF Bad
      <4> QED BY <2>1, <3>1
    <3> HIDE DEF Right
    <3> QED BY <3>1, <3>2
  <2> HIDE DEF Bad
  <2>6. PICK a, b, c : a = f[T \ {y}] /\ b = g[T \ {y}] /\ c = other[x] - h[x]
    OBVIOUS
  <2>7. /\ a \in Int /\ b = IF x \in T \ {y} THEN f[T \ {y}] + other[x] - h[x] ELSE a
        /\ h[y] \in Int /\ other[y] \in Int /\ other[x] \in Int /\ h[x] \in Int
    BY <2>5, <2>6
  <2>8. b = IF x \in T \ {y} THEN a + c ELSE a
    BY <2>6, <2>7
  <2>9. f[T] = h[y] + a /\ g[T] = other[y] + b
    BY <2>4, <2>6
  <2>10. CASE x = y
    BY <2>2, <2>6, <2>7, <2>8, <2>9, <2>10
  <2>11. CASE x # y
    BY <2>2, <2>6, <2>7, <2>8, <2>9, <2>11
  <2> QED BY <2>10, <2>11
<1>4. Right(S)
  <2> HIDE DEF Right
  <2> QED BY <1>1, <1>3
<1> QED BY <1>4

LEMMA NoTerms ==
  ASSUME NEW S, IsFiniteSet(S), NEW h \in [S -> Nat], NEW f, Summing(h, S, f)
  PROVE  f[S] \in Nat /\ ((\A x \in S : h[x] = 0) => f[S] = 0)
<1> DEFINE Right(T) == f[T] \in Nat /\ ((\A x \in S : h[x] = 0) => f[T] = 0)
           Bad == {n \in Nat : \E T \in SUBSET S : Cardinality(T) = n /\ ~Right(T)}
<1>1. \A T \in SUBSET S : IsFiniteSet(T) /\ Cardinality(T) \in Nat
  BY FS_Subset, FS_CardinalityType
<1>2. ASSUME NEW T \in SUBSET S, T # {}
      PROVE  \E y \in T : f[T] = h[y] + f[T \ {y}]
  <2> DEFINE y == CHOOSE x1 \in T : TRUE
  <2>1. y \in T
    BY <1>2
  <2>2. f[T] = h[y] + f[T \ {y}]
    BY <1>2 DEF Summing
  <2> HIDE DEF y
  <2> QED BY <2>1, <2>2
<1>3. Bad = {}
  <2> SUFFICES ASSUME Bad # {} PROVE FALSE
    OBVIOUS
  <2>1. PICK n \in Bad : \A m \in Bad : n <= m
    <3>1. Bad \in SUBSET Nat
      OBVIOUS
    <3> HIDE DEF Bad
    <3> QED BY <3>1, Smallest
  <2>2. PICK T \in SUBSET S : Cardinality(T) = n /\ ~Right(T)
    OBVIOUS
  <2>3. T # {}
    <3>1. Right({})
      BY DEF Summing
    <3> HIDE DEF Right
    <3> QED BY <2>2, <3>1
  <2>4. PICK y \in T : f[T] = h[y] + f[T \ {y}]
    BY <1>2, <2>3
  <2>5. Right(T \ {y})
    <3>1. T \ {y} \in SUBSET S /\ Cardinality(T \ {y}) \in Nat /\ ~(n <= Cardinality(T \ {y}))
      BY <1>1, <2>2, OneLess
    <3>2. Cardinality(T \ {y}) \notin Bad
      <4> HIDE DEF Bad
      <4> QED BY <2>1, <3>1
    <3> HIDE DEF Right
    <3> QED BY <3>1, <3>2
  <2> HIDE DEF Bad
  <2>6. h[y] \in Nat /\ y \in S
    OBVIOUS
  <2> QED BY <2>2, <2>4, <2>5, <2>6
<1>4. Right(S)
  <2> HIDE DEF Right
  <2> QED BY <1>1, <1>3
<1> QED BY <1>4

\* What a sum over the ranks is.
LEMMA Sums ==
  /\ \A h \in [Ranks -> Nat] : Sum(h) \in Nat /\ ((\A x \in Ranks : h[x] = 0) => Sum(h) = 0)
  /\ \A h, g \in [Ranks -> Nat], x \in Ranks :
       (\A y \in Ranks : y # x => g[y] = h[y]) => Sum(g) = Sum(h) + g[x] - h[x]
<1>1. IsFiniteSet(Ranks)
  BY MigrationAssumption, FS_Interval DEF Ranks
<1>2. ASSUME NEW h PROVE \E f : Summing(h, Ranks, f) /\ Sum(h) = f[Ranks]
  <2>1. \E f : Summing(h, Ranks, f)
    BY <1>1, SummingThere
  <2>2. Summing(h, Ranks, CHOOSE f : Summing(h, Ranks, f))
    BY <2>1
  <2> QED BY <2>2 DEF Sum
<1>3. ASSUME NEW h \in [Ranks -> Nat]
      PROVE  Sum(h) \in Nat /\ ((\A x \in Ranks : h[x] = 0) => Sum(h) = 0)
  <2>1. PICK f : Summing(h, Ranks, f) /\ Sum(h) = f[Ranks]
    BY <1>2
  <2> QED BY <1>1, <2>1, NoTerms
<1>4. ASSUME NEW h \in [Ranks -> Nat], NEW g \in [Ranks -> Nat], NEW x \in Ranks,
             \A y \in Ranks : y # x => g[y] = h[y]
      PROVE  Sum(g) = Sum(h) + g[x] - h[x]
  <2>1. h \in [Ranks -> Int] /\ g \in [Ranks -> Int]
    OBVIOUS
  <2>2. PICK f : Summing(h, Ranks, f) /\ Sum(h) = f[Ranks]
    BY <1>2
  <2>3. PICK k1 : Summing(g, Ranks, k1) /\ Sum(g) = k1[Ranks]
    BY <1>2
  <2>4. k1[Ranks] = f[Ranks] + g[x] - h[x]
    BY <1>1, <1>4, <2>1, <2>2, <2>3, OtherTerm
  <2> QED BY <2>2, <2>3, <2>4
<1> QED BY <1>3, <1>4

\* The sum in WithinLimits, and that in NoRoom.
LEMMA LeavingSum ==
  ASSUME NEW r
  PROVE  MapThenSumSet(LAMBDA d : Len(leave[r][d]), Ranks) = Sum(Rows(leave[r]))
<1> DEFINE h == Rows(leave[r])
           G == CHOOSE g : g = [U \in SUBSET Ranks |->
                                  IF U = {} THEN 0
                                  ELSE Len(leave[r][CHOOSE x \in U : TRUE])
                                         + g[U \ {CHOOSE x \in U : TRUE}]]
<1>1. ASSUME NEW g
      PROVE  Summing(h, Ranks, g) <=>
               g = [U \in SUBSET Ranks |->
                      IF U = {} THEN 0
                      ELSE Len(leave[r][CHOOSE x \in U : TRUE]) + g[U \ {CHOOSE x \in U : TRUE}]]
  <2> DEFINE a(U) == h[CHOOSE x \in U : TRUE]
             b(U) == Len(leave[r][CHOOSE x \in U : TRUE])
  <2>1. ASSUME NEW U \in SUBSET Ranks, U # {} PROVE a(U) = b(U)
    <3>1. (CHOOSE x \in U : TRUE) \in Ranks
      BY <2>1
    <3> QED BY <3>1 DEF Rows
  <2>2. [U \in SUBSET Ranks |-> IF U = {} THEN 0 ELSE a(U) + g[U \ {CHOOSE x \in U : TRUE}]]
          = [U \in SUBSET Ranks |-> IF U = {} THEN 0 ELSE b(U) + g[U \ {CHOOSE x \in U : TRUE}]]
    <3> HIDE DEF a, b
    <3> QED BY <2>1
  <2> QED BY <2>2 DEF Summing
<1>2. Sum(h) = G[Ranks]
  <2> HIDE DEF h
  <2> QED BY <1>1 DEF Sum
<1>3. MapThenSumSet(LAMBDA d : Len(leave[r][d]), Ranks) = G[Ranks]
  BY DEF MapThenSumSet, MapThenFoldSet
<1> HIDE DEF G
<1> QED BY <1>2, <1>3

LEMMA EnteringSum ==
  ASSUME NEW r
  PROVE  Entering(r) = Sum(enter'[r])
<1> DEFINE h == enter'[r]
           G == CHOOSE g : g = [U \in SUBSET Ranks |->
                                  IF U = {} THEN 0
                                  ELSE enter'[r][CHOOSE x \in U : TRUE]
                                         + g[U \ {CHOOSE x \in U : TRUE}]]
<1>2. Sum(h) = G[Ranks]
  BY DEF Sum, Summing
<1>3. Entering(r) = G[Ranks]
  BY DEF Entering, MapThenSumSet, MapThenFoldSet
<1> HIDE DEF G
<1> QED BY <1>2, <1>3

LEMMA RowCounts ==
  ASSUME NEW q \in [Ranks -> Seq(Particles)]
  PROVE  /\ Rows(q) \in [Ranks -> Nat] /\ Sum(Rows(q)) \in Nat
         /\ (\A d \in Ranks : q[d] = <<>>) => Sum(Rows(q)) = 0
<1>1. Rows(q) \in [Ranks -> Nat]
  BY LenProperties DEF Rows
<1>2. (\A d \in Ranks : q[d] = <<>>) => \A d \in Ranks : Rows(q)[d] = 0
  BY DEF Rows
<1> QED BY <1>1, <1>2, Sums

\* One destination gets more rows or less.
LEMMA OtherCount ==
  ASSUME NEW q \in [Ranks -> Seq(Particles)], NEW p \in [Ranks -> Seq(Particles)],
         NEW d \in Ranks, \A e \in Ranks : e # d => p[e] = q[e]
  PROVE  Sum(Rows(p)) = Sum(Rows(q)) + Len(p[d]) - Len(q[d])
<1>1. Rows(q) \in [Ranks -> Nat] /\ Rows(p) \in [Ranks -> Nat]
  BY RowCounts
<1>2. /\ \A e \in Ranks : e # d => Rows(p)[e] = Rows(q)[e]
      /\ Rows(p)[d] = Len(p[d]) /\ Rows(q)[d] = Len(q[d])
  BY DEF Rows
<1>3. Sum(Rows(p)) = Sum(Rows(q)) + Rows(p)[d] - Rows(q)[d]
  BY <1>1, <1>2, Sums
<1> QED BY <1>2, <1>3

\* A turn is over.
LEMMA NextDue ==
  ASSUME NEW n \in Ranks, NEW e \in [Ranks -> Nat]
  PROVE  /\ Sum(Due(n, e)) \in Nat /\ Sum(Due(n + 1, e)) \in Nat
         /\ Sum(Due(n + 1, e)) = Sum(Due(n, e)) - e[n] /\ e[n] \in Nat
<1> DEFINE h == Due(n, e)
           g == Due(n + 1, e)
<1>1. \A s \in Ranks : s \in Int
  BY DEF Ranks
<1>2. h \in [Ranks -> Nat] /\ g \in [Ranks -> Nat]
  BY DEF Due
<1>3. h[n] = e[n] /\ g[n] = 0
  BY <1>1 DEF Due
<1>4. \A s \in Ranks : s # n => g[s] = h[s]
  BY <1>1 DEF Due
<1> HIDE DEF h, g
<1>5. Sum(h) \in Nat /\ Sum(g) \in Nat
  BY <1>2, Sums
<1>6. Sum(g) = Sum(h) + g[n] - h[n]
  BY <1>2, <1>4, Sums
<1>7. e[n] \in Nat
  OBVIOUS
<1> QED BY <1>3, <1>5, <1>6, <1>7 DEF h, g

LEMMA BufferedStays ==
  ASSUME Buffered, UNCHANGED <<leave, nleave>>
  PROVE  Buffered'
BY DEF Buffered

\* A step that neither moves rows nor begins an exchange.
LEMMA RoomStays ==
  ASSUME Protocol, Room, Announced, UNCHANGED <<fp, leave, rows>>,
         \A s \in Ranks : /\ pc[s] = "exchange" => enter'[s] = enter[s]
                          /\ pc'[s] = "exchange" => pc[s] = "exchange" /\ i'[s] = i[s]
                          /\ pc'[s] = "collect" /\ ~bad'[s] =>
                               pc[s] = "collect" /\ ~bad[s] /\ enter'[s] = enter[s]
  PROVE  Room' /\ Announced'
<1>1. ASSUME NEW r \in Ranks
      PROVE  /\ Len(fp'[r]) <= MPar
             /\ pc'[r] = "collect" /\ ~bad'[r] => Len(fp'[r]) + Sum(enter'[r]) <= MPar
             /\ pc'[r] = "exchange" => Len(fp'[r]) + Sum(Due(i'[r], enter'[r])) <= MPar
  BY DEF Room
<1>2. ASSUME NEW s \in Ranks, NEW d \in Ranks, leave[s][d] # <<>>, pc'[s] = "exchange"
      PROVE  enter'[d][s] = Len(leave[s][d])
  <2>1. pc[s] = "exchange" /\ pc[d] = "exchange"
    BY <1>2 DEF Protocol, Sending
  <2> QED BY <1>2, <2>1 DEF Announced
<1>3. ASSUME NEW s \in Ranks, NEW d \in Ranks, rows[s][d] # <<>>, pc'[d] = "exchange"
      PROVE  enter'[d][s] = Len(rows[s][d])
  BY <1>3 DEF Announced
<1> QED BY <1>1, <1>2, <1>3 DEF Room, Announced

LEMMA InitLimits == Init => Limits
<1> SUFFICES ASSUME Init PROVE Limits
  OBVIOUS
<1>1. PICK s \in Starts : fp = s.fp
  BY DEF Init
<1>2. /\ \A r \in Ranks : Len(fp[r]) <= MPar /\ pc[r] = "idle"
      /\ nleave \in [Ranks -> 0 .. NMig] /\ \A r \in Ranks : nleave[r] = 0
  BY <1>1, StartsAssumption, MigrationAssumption DEF Init
<1>3. \A r, d \in Ranks : leave[r][d] = <<>> /\ rows[r][d] = <<>>
  BY DEF Init, Nothing
<1>4. \A r \in Ranks : Sum(Rows(leave[r])) = 0
  <2>1. \A r \in Ranks : leave[r] \in [Ranks -> Seq(Particles)]
    BY InitProtocol DEF Protocol, MigrationTypes
  <2> QED BY <1>3, <2>1, RowCounts
<1>5. Buffered
  BY <1>2, <1>4, MigrationAssumption DEF Buffered
<1> QED BY <1>2, <1>3, <1>5 DEF Limits, Room, Announced

\* A search begins.
LEMMA SearchLimits ==
  ASSUME Protocol, Limits, NEW S \in SUBSET Ranks, StartSweep(S),
         \A r \in S : pc[r] \in {"idle", "redo"}, UNCHANGED <<fp, bad, i, rows>>
  PROVE  Limits'
<1>1. \A r, d \in Ranks : r \in S => leave[r][d] = <<>>
  BY DEF Protocol, Emptied
<1>2. leave' = leave
  BY DEF StartSweep, Nothing, Protocol, MigrationTypes, Emptied
<1>3. \A r \in Ranks : /\ nleave'[r] = IF r \in S THEN 0 ELSE nleave[r]
                       /\ pc'[r] = IF r \in S THEN "sweep" ELSE pc[r]
                       /\ r \notin S => enter'[r] = enter[r]
  BY DEF StartSweep
<1>4. \A r \in S : Sum(Rows(leave[r])) = 0
  BY <1>1, RowCounts DEF Protocol, MigrationTypes
<1>5. Buffered'
  <2>1. nleave' \in [Ranks -> 0 .. NMig]
    BY MigrationAssumption DEF StartSweep, Limits, Buffered
  <2> QED BY <1>2, <1>3, <1>4, <2>1 DEF Limits, Buffered
<1> QED BY <1>2, <1>3, <1>5, RoomStays DEF Limits

LEMMA LeaveLimits ==
  ASSUME Protocol, Protocol', Limits, NEW r \in Ranks, NEW d \in Ranks, Leave(r, d)
  PROVE  Limits'
<1>0. /\ fp \in [Ranks -> Seq(Particles)] /\ leave \in [Ranks -> [Ranks -> Seq(Particles)]]
      /\ rows \in [Ranks -> [Ranks -> Seq(Particles)]] /\ enter \in [Ranks -> [Ranks -> Nat]]
      /\ pc \in [Ranks -> Labels] /\ bad \in [Ranks -> BOOLEAN]
  BY DEF Protocol, MigrationTypes
<1>a. leave' \in [Ranks -> [Ranks -> Seq(Particles)]] /\ enter' \in [Ranks -> [Ranks -> Nat]]
  BY DEF Protocol, MigrationTypes
<1>1. /\ pc[r] = "sweep" /\ k[r] \in 1 .. Len(fp[r]) /\ nleave[r] < NMig
      /\ nleave' = [nleave EXCEPT ![r] = @ + 1]
      /\ UNCHANGED <<enter, i, rows, pc>>
  <2>1. /\ pc[r] = "sweep" /\ k[r] > 0 /\ nleave[r] < NMig
        /\ nleave' = [nleave EXCEPT ![r] = @ + 1]
        /\ UNCHANGED <<enter, i, rows, pc>>
    BY DEF Leave, Looks
  <2>2. k[r] \in Nat /\ (pc[r] = "sweep" => k[r] <= Len(fp[r]))
    BY DEF Protocol, MigrationTypes, InRange
  <2>3. Len(fp[r]) \in Nat
    BY <1>0, LenProperties
  <2> QED BY <2>1, <2>2, <2>3
<1>2. /\ fp[r] \in Seq(Particles) /\ Len(fp[r]) \in Nat /\ fp[r][k[r]] \in Particles
      /\ leave[r] \in [Ranks -> Seq(Particles)] /\ leave[r][d] \in Seq(Particles)
  BY <1>0, <1>1, LenProperties, ElementOfSeq
<1>3. Len(WithoutRow(fp[r], k[r])) = Len(fp[r]) - 1
  BY <1>1, <1>2, ElementOfSeq, IsASeq DEF WithoutRow
<1>b. /\ fp' = [fp EXCEPT ![r] = WithoutRow(fp[r], k[r])]
      /\ leave' = [leave EXCEPT ![r] = [leave[r] EXCEPT ![d] = Append(leave[r][d], fp[r][k[r]])]]
      /\ bad' = [bad EXCEPT ![r] = bad[r] \/ d \notin Comm(r)]
  BY DEF Leave
<1>4. \A s \in Ranks : Len(fp'[s]) = IF s = r THEN Len(fp[r]) - 1 ELSE Len(fp[s])
  BY <1>0, <1>3, <1>b
<1>5. /\ \A s, e \in Ranks : s # r \/ e # d => leave'[s][e] = leave[s][e]
      /\ \A s \in Ranks : s # r => leave'[s] = leave[s]
      /\ leave'[r][d] = Append(leave[r][d], fp[r][k[r]])
  BY <1>0, <1>b
<1>6. Len(leave'[r][d]) = Len(leave[r][d]) + 1 /\ Len(leave[r][d]) \in Nat
  BY <1>2, <1>5, LenProperties, AppendProperties
<1>7. \A s \in Ranks : bad[s] => bad'[s]
  BY <1>0, <1>b
<1>8. Buffered'
  <2>1. leave'[r] \in [Ranks -> Seq(Particles)]
    BY <1>0, <1>a
  <2>2. Sum(Rows(leave'[r])) = Sum(Rows(leave[r])) + Len(leave'[r][d]) - Len(leave[r][d])
    BY <1>2, <1>5, <2>1, OtherCount
  <2>3. Sum(Rows(leave[r])) \in Nat
    BY <1>2, RowCounts
  <2>4. Sum(Rows(leave'[r])) = Sum(Rows(leave[r])) + 1
    BY <1>6, <2>2, <2>3
  <2>5. nleave \in [Ranks -> 0 .. NMig] /\ \A s \in Ranks : Sum(Rows(leave[s])) <= nleave[s]
    BY DEF Limits, Buffered
  <2>6. /\ nleave' \in [Ranks -> 0 .. NMig] /\ nleave'[r] = nleave[r] + 1
        /\ \A s \in Ranks : s # r => nleave'[s] = nleave[s]
    BY <1>1, <2>5, MigrationAssumption
  <2>7. \A s \in Ranks : Sum(Rows(leave'[s])) <= nleave'[s]
    BY <1>5, <2>3, <2>4, <2>5, <2>6
  <2> QED BY <2>6, <2>7 DEF Buffered
<1>9. Room'
  <2>1. ASSUME NEW s \in Ranks
        PROVE  /\ Len(fp'[s]) <= MPar
               /\ pc'[s] = "collect" /\ ~bad'[s] => Len(fp'[s]) + Sum(enter'[s]) <= MPar
               /\ pc'[s] = "exchange" => Len(fp'[s]) + Sum(Due(i'[s], enter'[s])) <= MPar
    <3>1. CASE s = r
      BY <1>1, <1>2, <1>4, <3>1, MigrationAssumption DEF Limits, Room
    <3>2. CASE s # r
      BY <1>1, <1>4, <1>7, <3>2 DEF Limits, Room
    <3> QED BY <3>1, <3>2
  <2> QED BY <2>1 DEF Room
<1>10. Announced'
  BY <1>1, <1>5 DEF Limits, Announced
<1> QED BY <1>8, <1>9, <1>10 DEF Limits

LEMMA HearLimits ==
  ASSUME Protocol, Protocol', Limits, NEW r \in Ranks, RecvCounts(r)
  PROVE  Limits'
<1>0. /\ fp \in [Ranks -> Seq(Particles)] /\ leave \in [Ranks -> [Ranks -> Seq(Particles)]]
      /\ rows \in [Ranks -> [Ranks -> Seq(Particles)]] /\ enter \in [Ranks -> [Ranks -> Nat]]
      /\ pc \in [Ranks -> Labels] /\ bad \in [Ranks -> BOOLEAN]
  BY DEF Protocol, MigrationTypes
<1>a. leave' \in [Ranks -> [Ranks -> Seq(Particles)]] /\ enter' \in [Ranks -> [Ranks -> Nat]]
  BY DEF Protocol, MigrationTypes
<1>1. /\ pc[r] = "count" /\ UNCHANGED <<fp, leave, nleave, i, rows>>
      /\ bad' = [bad EXCEPT ![r] = @ \/ NoRoom(r)]
      /\ enter' = [enter EXCEPT ![r] = [s \in Ranks |->
                     IF s \in Comm(r) THEN Head(counts[s][r]) ELSE 0]]
      /\ pc' = [pc EXCEPT ![r] = "collect"]
  BY DEF RecvCounts, buffer
<1>2. /\ \A s \in Ranks : s # r => enter'[s] = enter[s] /\ (bad'[s] <=> bad[s]) /\ pc'[s] = pc[s]
      /\ pc'[r] = "collect" /\ (~bad'[r] => ~NoRoom(r))
  BY <1>0, <1>a, <1>1
<1>3. Len(fp[r]) \in Nat /\ Sum(enter'[r]) \in Nat
  <2>1. enter'[r] \in [Ranks -> Nat] /\ fp[r] \in Seq(Particles)
    BY <1>0, <1>a
  <2> QED BY <2>1, Sums, LenProperties
<1>4. ~bad'[r] => Len(fp[r]) + Sum(enter'[r]) <= MPar
  <2>1. Entering(r) = Sum(enter'[r])
    BY EnteringSum
  <2>2. ~bad'[r] => ~(Len(fp[r]) + Sum(enter'[r]) > MPar)
    BY <1>2, <2>1 DEF NoRoom
  <2> QED BY <1>3, <2>2, MigrationAssumption
<1>5. Buffered'
  BY <1>1, BufferedStays DEF Limits
<1>6. Room'
  <2>1. ASSUME NEW s \in Ranks
        PROVE  /\ Len(fp'[s]) <= MPar
               /\ pc'[s] = "collect" /\ ~bad'[s] => Len(fp'[s]) + Sum(enter'[s]) <= MPar
               /\ pc'[s] = "exchange" => Len(fp'[s]) + Sum(Due(i'[s], enter'[s])) <= MPar
    <3>1. CASE s = r
      BY <1>1, <1>2, <1>4, <3>1 DEF Limits, Room
    <3>2. CASE s # r
      BY <1>1, <1>2, <3>2 DEF Limits, Room
    <3> QED BY <3>1, <3>2
  <2> QED BY <2>1 DEF Room
<1>7. Announced'
  <2>1. ASSUME NEW s \in Ranks, NEW d \in Ranks, leave'[s][d] # <<>>, pc'[s] = "exchange"
        PROVE  enter'[d][s] = Len(leave'[s][d])
    <3>1. s # r /\ pc[s] = "exchange"
      BY <1>2, <2>1
    <3>2. pc[d] = "exchange"
      BY <1>1, <2>1, <3>1 DEF Protocol, Sending
    <3>3. d # r
      BY <1>1, <3>2
    <3> QED BY <1>1, <1>2, <2>1, <3>1, <3>3 DEF Limits, Announced
  <2>2. ASSUME NEW s \in Ranks, NEW d \in Ranks, rows'[s][d] # <<>>, pc'[d] = "exchange"
        PROVE  enter'[d][s] = Len(rows'[s][d])
    BY <1>1, <1>2, <2>2 DEF Limits, Announced
  <2> QED BY <2>1, <2>2 DEF Announced
<1> QED BY <1>5, <1>6, <1>7 DEF Limits

LEMMA CollectLimits == ASSUME Protocol, Protocol', Limits, Collect PROVE Limits'
<1>0. /\ fp \in [Ranks -> Seq(Particles)] /\ leave \in [Ranks -> [Ranks -> Seq(Particles)]]
      /\ rows \in [Ranks -> [Ranks -> Seq(Particles)]] /\ enter \in [Ranks -> [Ranks -> Nat]]
      /\ pc \in [Ranks -> Labels] /\ bad \in [Ranks -> BOOLEAN]
  BY DEF Protocol, MigrationTypes
<1>a. leave' \in [Ranks -> [Ranks -> Seq(Particles)]] /\ enter' \in [Ranks -> [Ranks -> Nat]]
  BY DEF Protocol, MigrationTypes
<1>1. /\ \A r \in Ranks : pc[r] = "collect"
      /\ UNCHANGED <<fp, leave, nleave, bad, enter, rows>>
      /\ \A r \in Ranks : i'[r] = 0
      /\ \/ \A r \in Ranks : pc'[r] = "dead"
         \/ (\A r \in Ranks : pc'[r] = "exchange") /\ \A r \in Ranks : ~bad[r]
  BY DEF Collect, buffer
<1>2. Buffered'
  BY <1>1, BufferedStays DEF Limits
<1>3. \A r \in Ranks : Due(0, enter[r]) = enter[r]
  <2> SUFFICES ASSUME NEW r \in Ranks PROVE Due(0, enter[r]) = enter[r]
    OBVIOUS
  <2>1. enter[r] = [s \in Ranks |-> enter[r][s]]
    BY <1>0
  <2>2. \A s \in Ranks : 0 <= s
    BY DEF Ranks
  <2> QED BY <2>1, <2>2 DEF Due
<1>4. Room'
  BY <1>1, <1>3 DEF Limits, Room
<1>5. \A s, d \in Ranks : rows[s][d] = <<>>
  BY <1>1 DEF Protocol, Sent
<1>6. ASSUME NEW s \in Ranks, NEW d \in Ranks, leave[s][d] # <<>>, pc'[s] = "exchange"
      PROVE  enter[d][s] = Len(leave[s][d])
  <2>1. d \in Comm(s)
    BY <1>1, <1>6 DEF Protocol, ToNeighbours
  <2> QED BY <1>1, <2>1 DEF Protocol, Heard
<1>7. Announced'
  BY <1>1, <1>5, <1>6 DEF Announced
<1> QED BY <1>2, <1>4, <1>7 DEF Limits

LEMMA TakeLimits ==
  ASSUME Protocol, Protocol', Limits, NEW r \in Ranks, TakeRows(r)
  PROVE  Limits'
<1>0. /\ fp \in [Ranks -> Seq(Particles)] /\ leave \in [Ranks -> [Ranks -> Seq(Particles)]]
      /\ rows \in [Ranks -> [Ranks -> Seq(Particles)]] /\ enter \in [Ranks -> [Ranks -> Nat]]
      /\ pc \in [Ranks -> Labels] /\ bad \in [Ranks -> BOOLEAN]
  BY DEF Protocol, MigrationTypes
<1>a. leave' \in [Ranks -> [Ranks -> Seq(Particles)]] /\ enter' \in [Ranks -> [Ranks -> Nat]]
  BY DEF Protocol, MigrationTypes
<1>1. /\ pc[r] = "exchange" /\ i[r] # r /\ Advance(r)
      /\ UNCHANGED <<leave, nleave, bad, enter>>
  BY DEF TakeRows, buffer
<1>2. /\ i[r] \in Ranks /\ i'[r] = i[r] + 1 /\ pc'[r] \in {"exchange", "redo"}
      /\ \A s \in Ranks : s # r => i'[s] = i[s] /\ pc'[s] = pc[s]
  BY <1>1, Advances
<1>3. PICK q \in Ranks : q = i[r] /\ q # r
  BY <1>1, <1>2
<1>4. \A s, d \in Ranks : rows'[s][d] = <<>> \/ rows'[s][d] = rows[s][d]
  <2>1. SUFFICES ASSUME NEW s \in Ranks, NEW d \in Ranks
                 PROVE  rows'[s][d] = <<>> \/ rows'[s][d] = rows[s][d]
    OBVIOUS
  <2>2. rows \in [Ranks -> [Ranks -> Seq(Particles)]]
    BY <1>0
  <2>3. CASE Awaited(r, q)
    <3>1. rows' = [rows EXCEPT ![q][r] = <<>>]
      BY <1>3, <2>3 DEF TakeRows
    <3> QED BY <2>2, <3>1, EmptySeq
  <2>4. CASE ~Awaited(r, q)
    <3>1. rows' = rows
      BY <1>3, <2>4 DEF TakeRows
    <3> QED BY <3>1
  <2> QED BY <2>3, <2>4
<1>5. enter[r] \in [Ranks -> Nat] /\ fp[r] \in Seq(Particles) /\ rows[q][r] \in Seq(Particles)
  BY <1>0, <1>a
<1>6. Len(fp'[r]) = Len(fp[r]) \/ Len(fp'[r]) = Len(fp[r]) + enter[r][q]
  <2>1. CASE Awaited(r, q)
    <3>1. rows[q][r] # <<>> /\ fp'[r] = fp[r] \o rows[q][r]
      BY <1>0, <1>3, <2>1 DEF TakeRows
    <3>2. Len(rows[q][r]) = enter[r][q]
      BY <1>1, <3>1 DEF Limits, Announced
    <3>3. Len(fp[r] \o rows[q][r]) = Len(fp[r]) + Len(rows[q][r])
      BY <1>5, ConcatProperties
    <3> QED BY <3>1, <3>2, <3>3
  <2>2. CASE ~Awaited(r, q)
    BY <1>3, <2>2 DEF TakeRows
  <2> QED BY <2>1, <2>2
<1>7. \A s \in Ranks : s # r => fp'[s] = fp[s]
  <2>1. fp' = [fp EXCEPT ![r] = fp[r] \o rows[q][r]] \/ fp' = fp
    BY <1>3 DEF TakeRows
  <2> QED BY <1>0, <2>1
<1>8. /\ Len(fp'[r]) <= MPar /\ Len(fp'[r]) + Sum(Due(i'[r], enter'[r])) <= MPar
  <2>1. PICK a, b, c : a = Sum(Due(q, enter[r])) /\ b = Sum(Due(q + 1, enter[r])) /\ c = enter[r][q]
    OBVIOUS
  <2>2. a \in Nat /\ b \in Nat /\ c \in Nat /\ b = a - c
    BY <1>5, <2>1, NextDue
  <2>3. Len(fp[r]) \in Nat /\ Len(fp[r]) + a <= MPar
    BY <1>1, <1>3, <1>5, <2>1, LenProperties DEF Limits, Room
  <2>4. Len(fp'[r]) = Len(fp[r]) \/ Len(fp'[r]) = Len(fp[r]) + c
    BY <1>6, <2>1
  <2>5. MPar \in Nat
    BY MigrationAssumption
  <2>6. Len(fp'[r]) <= MPar /\ Len(fp'[r]) + b <= MPar
    BY <2>2, <2>3, <2>4, <2>5
  <2> QED BY <1>1, <1>2, <1>3, <2>1, <2>6
<1>9. Buffered'
  BY <1>1, BufferedStays DEF Limits
<1>10. Room'
  <2>1. ASSUME NEW s \in Ranks
        PROVE  /\ Len(fp'[s]) <= MPar
               /\ pc'[s] = "collect" /\ ~bad'[s] => Len(fp'[s]) + Sum(enter'[s]) <= MPar
               /\ pc'[s] = "exchange" => Len(fp'[s]) + Sum(Due(i'[s], enter'[s])) <= MPar
    <3>1. CASE s = r
      BY <1>2, <1>8, <3>1
    <3>2. CASE s # r
      BY <1>1, <1>2, <1>7, <3>2 DEF Limits, Room
    <3> QED BY <3>1, <3>2
  <2> QED BY <2>1 DEF Room
<1>11. Announced'
  <2>1. \A s \in Ranks : pc'[s] = "exchange" => pc[s] = "exchange"
    BY <1>1, <1>2
  <2> QED BY <1>1, <1>4, <2>1 DEF Limits, Announced
<1> QED BY <1>9, <1>10, <1>11 DEF Limits

LEMMA TurnLimits ==
  ASSUME Protocol, Limits, NEW r \in Ranks, EndTurn(r)
  PROVE  Limits'
<1>0. /\ fp \in [Ranks -> Seq(Particles)] /\ leave \in [Ranks -> [Ranks -> Seq(Particles)]]
      /\ rows \in [Ranks -> [Ranks -> Seq(Particles)]] /\ enter \in [Ranks -> [Ranks -> Nat]]
      /\ pc \in [Ranks -> Labels] /\ bad \in [Ranks -> BOOLEAN]
  BY DEF Protocol, MigrationTypes
<1>1. /\ pc[r] = "exchange" /\ i[r] = r /\ Advance(r)
      /\ UNCHANGED <<fp, leave, nleave, bad, enter, rows>>
  BY DEF EndTurn, buffer
<1>2. /\ i'[r] = r + 1 /\ pc'[r] \in {"exchange", "redo"}
      /\ \A s \in Ranks : s # r => i'[s] = i[s] /\ pc'[s] = pc[s]
  BY <1>1, Advances
<1>3. Len(fp[r]) + Sum(Due(r + 1, enter[r])) <= MPar
  <2>1. enter[r] \in [Ranks -> Nat] /\ fp[r] \in Seq(Particles)
    BY <1>0
  <2>2. PICK a, b, c : a = Sum(Due(r, enter[r])) /\ b = Sum(Due(r + 1, enter[r])) /\ c = enter[r][r]
    OBVIOUS
  <2>3. a \in Nat /\ b \in Nat /\ c \in Nat /\ b = a - c
    BY <2>1, <2>2, NextDue
  <2>4. Len(fp[r]) \in Nat /\ Len(fp[r]) + a <= MPar
    BY <1>1, <2>1, <2>2, LenProperties DEF Limits, Room
  <2>5. Len(fp[r]) + b <= MPar
    BY <2>3, <2>4, MigrationAssumption
  <2> QED BY <2>2, <2>5
<1>4. Buffered'
  BY <1>1, BufferedStays DEF Limits
<1>5. Room'
  BY <1>1, <1>2, <1>3 DEF Limits, Room
<1>6. Announced'
  <2>1. \A s \in Ranks : pc'[s] = "exchange" => pc[s] = "exchange"
    BY <1>1, <1>2
  <2> QED BY <1>1, <2>1 DEF Limits, Announced
<1> QED BY <1>4, <1>5, <1>6 DEF Limits

LEMMA SendLimits ==
  ASSUME Protocol, Protocol', Limits, NEW r \in Ranks, NEW d \in Ranks, SendRows(r, d)
  PROVE  Limits'
<1>0. /\ fp \in [Ranks -> Seq(Particles)] /\ leave \in [Ranks -> [Ranks -> Seq(Particles)]]
      /\ rows \in [Ranks -> [Ranks -> Seq(Particles)]] /\ enter \in [Ranks -> [Ranks -> Nat]]
      /\ pc \in [Ranks -> Labels] /\ bad \in [Ranks -> BOOLEAN]
  BY DEF Protocol, MigrationTypes
<1>a. leave' \in [Ranks -> [Ranks -> Seq(Particles)]] /\ enter' \in [Ranks -> [Ranks -> Nat]]
  BY DEF Protocol, MigrationTypes
<1>1. /\ pc[r] = "exchange" /\ leave[r][d] # <<>>
      /\ UNCHANGED <<fp, nleave, bad, enter, i, pc>>
  BY DEF SendRows
<1>2. \A s, e \in Ranks :
        /\ rows'[s][e]  = IF s = r /\ e = d THEN leave[r][d] ELSE rows[s][e]
        /\ leave'[s][e] = IF s = r /\ e = d THEN <<>> ELSE leave[s][e]
  <2>1. /\ rows' = [rows EXCEPT ![r] = [rows[r] EXCEPT ![d] = leave[r][d]]]
        /\ leave' = [leave EXCEPT ![r] = [leave[r] EXCEPT ![d] = <<>>]]
    BY DEF SendRows
  <2> QED BY <1>0, <2>1
<1>3. \A s \in Ranks : s # r => leave'[s] = leave[s]
  BY DEF SendRows
<1>4. Buffered'
  <2>1. /\ leave[r] \in [Ranks -> Seq(Particles)] /\ leave'[r] \in [Ranks -> Seq(Particles)]
        /\ leave[r][d] \in Seq(Particles)
    BY <1>0, <1>a
  <2>2. Sum(Rows(leave'[r])) = Sum(Rows(leave[r])) + Len(leave'[r][d]) - Len(leave[r][d])
    BY <1>2, <2>1, OtherCount
  <2>3. Sum(Rows(leave[r])) \in Nat /\ Len(leave[r][d]) \in Nat /\ Len(leave'[r][d]) = 0
    BY <1>2, <2>1, RowCounts, LenProperties
  <2>4. Sum(Rows(leave'[r])) <= Sum(Rows(leave[r])) /\ Sum(Rows(leave'[r])) \in Int
    BY <2>2, <2>3
  <2>5. nleave \in [Ranks -> 0 .. NMig] /\ nleave[r] \in 0 .. NMig /\ Sum(Rows(leave[r])) <= nleave[r]
    BY DEF Limits, Buffered
  <2>6. Sum(Rows(leave'[r])) <= nleave[r]
    BY <2>3, <2>4, <2>5
  <2> QED BY <1>1, <1>3, <2>5, <2>6 DEF Limits, Buffered
<1>5. Room'
  BY <1>1 DEF Limits, Room
<1>6. Announced'
  BY <1>1, <1>2 DEF Limits, Announced
<1> QED BY <1>4, <1>5, <1>6 DEF Limits

LEMMA NextLimits ==
  ASSUME Protocol, Protocol', Limits, [Next]_vars
  PROVE  Limits'
<1>1. ASSUME UNCHANGED <<fp, leave, nleave, enter, i, rows>>, \A s \in Ranks : bad[s] => bad'[s],
             \A s \in Ranks : pc'[s] = pc[s] \/ pc'[s] \notin {"collect", "exchange"}
      PROVE  Limits'
  BY <1>1, RoomStays, BufferedStays DEF Limits
<1>2. CASE UNCHANGED vars
  BY <1>1, <1>2 DEF vars, buffer
<1>3. ASSUME NEW r \in Ranks, Keep(r) \/ SendCounts(r) \/ Return(r) PROVE Limits'
  <2>1. UNCHANGED <<fp, leave, nleave, enter, i, rows, bad>>
    BY <1>3 DEF Keep, SendCounts, Return, buffer
  <2>2. \A s \in Ranks : pc'[s] = pc[s] \/ pc'[s] \notin {"collect", "exchange"}
    BY <1>3, ZenonT(40) DEF Keep, SendCounts, Return, Protocol, MigrationTypes
  <2> QED BY <1>1, <2>1, <2>2
<1>4. ASSUME NEW r \in Ranks, NEW d \in Ranks, Postpone(r, d) \/ TooMany(r, d) PROVE Limits'
  <2>1. UNCHANGED <<fp, leave, nleave, enter, i, rows>>
    BY <1>4 DEF Postpone, TooMany, buffer
  <2>2. \A s \in Ranks : pc'[s] = pc[s] \/ pc'[s] \notin {"collect", "exchange"}
    BY <1>4 DEF Postpone, TooMany, Protocol, MigrationTypes
  <2>3. \A s \in Ranks : bad[s] => bad'[s]
    BY <1>4, ZenonT(40) DEF Postpone, TooMany, Protocol, MigrationTypes
  <2> QED BY <1>1, <2>1, <2>2, <2>3
<1>5. ASSUME NEW r \in Ranks, RankStep(r) PROVE Limits'
  BY <1>3, <1>4, <1>5, LeaveLimits, HearLimits, TakeLimits, TurnLimits, SendLimits DEF RankStep
<1>6. CASE JobEnds
  <2>1. UNCHANGED <<fp, leave, nleave, enter, i, rows, bad>> /\ \A s \in Ranks : pc'[s] = "dead"
    BY <1>6 DEF JobEnds, buffer
  <2> QED BY <1>1, <2>1
<1>7. ASSUME NEW r \in Ranks, Call(r) PROVE Limits'
  BY <1>7, SearchLimits DEF Call
<1>8. CASE Repeat
  <2>1. CASE RedoAll
    <3>1. StartSweep(Ranks) /\ (\A r \in Ranks : pc[r] = "redo") /\ UNCHANGED <<fp, bad, i, rows>>
      BY <1>8, <2>1 DEF Repeat
    <3> QED BY <3>1, SearchLimits
  <2>2. CASE ~RedoAll
    <3>1. UNCHANGED <<fp, leave, nleave, enter, i, rows, bad>> /\ \A s \in Ranks : pc'[s] = "idle"
      BY <1>8, <2>2 DEF Repeat, buffer
    <3> QED BY <1>1, <3>1
  <2> QED BY <2>1, <2>2
<1> QED BY <1>2, <1>5, <1>6, <1>7, <1>8, CollectLimits DEF Next, Together

\* No array is written past its end: the buffer never holds more than npar_mig rows, nor fp
\* more than mpar_loc, for any number of ranks and particles, with lmigration_redo or
\* without: the room is asked for before any row comes (particles_mpicomm.f90:536-542).
THEOREM ArraysLargeEnough == Spec => []WithinLimits
<1>1. Init => Protocol /\ Limits
  BY InitProtocol, InitLimits
<1>2. Protocol /\ Limits /\ [Next]_vars => (Protocol /\ Limits)'
  BY NextProtocol, NextLimits
<1>3. Protocol /\ Limits => WithinLimits
  <2> SUFFICES ASSUME Protocol, Limits, NEW r \in Ranks
               PROVE  /\ MapThenSumSet(LAMBDA d : Len(leave[r][d]), Ranks) <= NMig
                      /\ Len(fp[r]) <= MPar
    BY DEF WithinLimits
  <2>1. Sum(Rows(leave[r])) <= NMig
    <3>1. Sum(Rows(leave[r])) \in Nat
      BY RowCounts DEF Protocol, MigrationTypes
    <3>2. Sum(Rows(leave[r])) <= nleave[r] /\ nleave[r] \in 0 .. NMig
      BY DEF Limits, Buffered
    <3> QED BY <3>1, <3>2, MigrationAssumption
  <2>2. MapThenSumSet(LAMBDA d : Len(leave[r][d]), Ranks) = Sum(Rows(leave[r]))
    BY LeavingSum
  <2>3. MapThenSumSet(LAMBDA d : Len(leave[r][d]), Ranks) <= NMig
    BY <2>1, <2>2
  <2> QED BY <2>3 DEF Limits, Room
<1> QED BY <1>1, <1>2, <1>3, PTL DEF Spec
=============================================================================
