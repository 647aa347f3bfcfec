--------------------------- MODULE SerialIOProofs ---------------------------
(***************************************************************************)
(* Proofs about SerialIO, for every number of ranks and every program of   *)
(* calls: the permission is in one place (SerialInv), so the blocks        *)
(* exclude each other and are done in iproc order.                         *)
(***************************************************************************)
EXTENDS SerialIO, TLAPS

LEMMA RootIsRank == Root \in Ranks /\ NP \in Nat \ {0}
BY SerialAssumption DEF Root, Ranks

LEMMA FollowingIsRank == ASSUME NEW r \in Ranks PROVE Following(r) \in Ranks
BY SerialAssumption DEF Ranks, Following

LEMMA InitInv == Init => SerialInv
<1> SUFFICES ASSUME Init PROVE SerialInv
  OBVIOUS
<1> USE RootIsRank DEF Init
<1>1. TypeOK
  <2>1. ip \in [Ranks -> Nat \ {0}] /\ level \in [Ranks -> Int]
    OBVIOUS
  <2>2. lock \in [Ranks -> {"out", "wait", "in"}]
    OBVIOUS
  <2>3. peer \in Ranks /\ turn \in Ranks /\ waiting \in BOOLEAN
    BY DEF Root
  <2>4. perm \in [Ranks -> Nat] /\ succ \in [Ranks -> Nat]
    OBVIOUS
  <2>5. stopped \in [Ranks -> BOOLEAN]
    OBVIOUS
  <2> QED BY <2>1, <2>2, <2>3, <2>4, <2>5 DEF TypeOK
<1>2. Permission
  BY DEF Permission, Others
<1>3. Turns
  BY DEF Turns
<1>4. Levels
  BY DEF Levels
<1> QED BY <1>1, <1>2, <1>3, <1>4 DEF SerialInv

\* Each action of SerialIO preserves SerialInv: a lemma for every action.
LEMMA StartInv ==
  ASSUME SerialInv, NEW r \in Ranks, StartSerialize(r) PROVE SerialInv'
<1> USE RootIsRank DEF SerialInv
<1>1. /\ At(r, "start") /\ lock[r] # "wait"
      /\ level' = [level EXCEPT ![r] = @ + 1]
      /\ UNCHANGED <<peer, waiting, perm, succ, stopped, turn>>
  BY DEF StartSerialize
<1>2. \/ level[r] >= 1 /\ Return(r) /\ UNCHANGED lock
      \/ level[r] < 1 /\ r = Root /\ lock' = [lock EXCEPT ![r] = "in"] /\ Return(r)
      \/ level[r] < 1 /\ r # Root /\ lock' = [lock EXCEPT ![r] = "wait"] /\ UNCHANGED ip
  BY DEF StartSerialize, TypeOK
<1>3. r = Root => peer = 0
  BY <1>1 DEF Levels, At
<1>4. level[r] \in Nat /\ level'[r] = level[r] + 1
  BY <1>1 DEF TypeOK, Levels, At
<1>5. TypeOK'
  <2>1. ip' \in [Ranks -> Nat \ {0}] /\ lock' \in [Ranks -> {"out", "wait", "in"}]
    BY <1>2 DEF TypeOK, Return
  <2>2. level' \in [Ranks -> Int]
    BY <1>1 DEF TypeOK
  <2> QED BY <1>1, <2>1, <2>2 DEF TypeOK
<1>6. Permission'
  <2>1. ASSUME NEW q \in Others PROVE (lock'[q] = "in") = (lock[q] = "in")
    BY <1>2, <1>4, <2>1 DEF TypeOK, Levels, Others
  <2>2. peer # 0 => lock'[Root] = lock[Root]
    BY <1>2, <1>3 DEF TypeOK
  <2> QED BY <1>1, <2>1, <2>2 DEF Permission
<1>7. Turns'
  BY <1>1 DEF Turns
<1>8. Levels'
  <2>1. ASSUME NEW q \in Ranks \ {r}
        PROVE  /\ ip'[q] = ip[q] /\ level'[q] = level[q]
               /\ lock'[q] = lock[q] /\ stopped'[q] = stopped[q]
    BY <1>1, <1>2, <2>1 DEF TypeOK, Return
  <2>2. lock'[r] # "out"
    BY <1>1, <1>2, <1>4 DEF TypeOK, Levels
  <2>3. lock'[r] = "wait" => level'[r] = 1 /\ At(r, "start")' /\ r # Root
    <3> SUFFICES ASSUME lock'[r] = "wait"
                 PROVE  level'[r] = 1 /\ At(r, "start")' /\ r # Root
      OBVIOUS
    <3>1. level[r] < 1 /\ r # Root /\ UNCHANGED ip
      BY <1>1, <1>2 DEF TypeOK
    <3>2. level'[r] = 1
      BY <3>1, <1>4
    <3>3. At(r, "start")'
      BY <3>1, <1>1 DEF At
    <3> QED BY <3>1, <3>2, <3>3
  <2>4. (peer # 0 => At(Root, "end"))'
    BY <1>1, <1>3, <2>1 DEF Levels, At
  <2>5. ASSUME NEW q \in Ranks
        PROVE  ( /\ ~stopped[q] => level[q] >= 0
                 /\ lock[q] = "out" => level[q] <= 0
                 /\ lock[q] = "in" => level[q] >= 1
                 /\ lock[q] = "wait" => level[q] = 1 /\ At(q, "start") /\ q # Root )'
    <3>1. CASE q = r
      BY <1>4, <2>2, <2>3, <3>1
    <3>2. CASE q # r
      BY <2>1, <3>2 DEF Levels, At
    <3> QED BY <3>1, <3>2
  <2> QED BY <2>4, <2>5 DEF Levels
<1> QED BY <1>5, <1>6, <1>7, <1>8

LEMMA RecvPermissionInv ==
  ASSUME SerialInv, NEW r \in Ranks, RecvPermission(r) PROVE SerialInv'
<1> USE RootIsRank DEF RecvPermission, SerialInv
<1>1. TypeOK'
  BY DEF TypeOK, Return
<1>2. Permission'
  BY DEF TypeOK, Permission, Others
<1>3. Turns'
  BY DEF Turns
<1>4. Levels'
  <2>1. ASSUME NEW q \in Ranks \ {r} PROVE ip'[q] = ip[q] /\ lock'[q] = lock[q]
    BY <2>1 DEF TypeOK, Return
  <2>2. lock'[r] = "in" /\ level[r] = 1
    BY DEF TypeOK, Levels
  <2> QED BY <2>1, <2>2 DEF Levels, At
<1> QED BY <1>1, <1>2, <1>3, <1>4

\* Who ends its outermost block is inside; a rank other than the root is peer.
LEMMA EndsInside ==
  ASSUME SerialInv, NEW r \in Ranks, At(r, "end"), level[r] = 1
  PROVE  /\ lock[r] = "in"
         /\ r # Root => waiting /\ peer = r /\ perm[r] = 0 /\ succ[r] = 0
         /\ r = Root => peer = 0 /\ ~waiting
<1>1. lock[r] = "in"
  BY DEF SerialInv, TypeOK, Levels, At
<1>2. r # Root => waiting /\ peer = r /\ perm[r] = 0 /\ succ[r] = 0
  BY <1>1 DEF SerialInv, Permission, Others
<1>3. r = Root => peer = 0 /\ ~waiting
  BY <1>1 DEF SerialInv, Permission
<1> QED BY <1>1, <1>2, <1>3

LEMMA EndInv ==
  ASSUME SerialInv, NEW r \in Ranks, EndSerialize(r) PROVE SerialInv'
<1> USE RootIsRank DEF SerialInv
<1>0. /\ At(r, "end") /\ (r = Root => peer = 0)
      /\ level' = [level EXCEPT ![r] = @ - 1]
      /\ UNCHANGED <<waiting, perm>>
  BY DEF EndSerialize
<1>1. CASE level[r] # 1
  <2>1. UNCHANGED <<lock, peer, succ, turn>>
    BY <1>1 DEF EndSerialize
  <2>2. \/ level[r] > 1 /\ Return(r) /\ UNCHANGED stopped
        \/ level[r] < 1 /\ stopped' = [stopped EXCEPT ![r] = TRUE] /\ UNCHANGED ip
    BY <1>1 DEF EndSerialize, TypeOK
  <2>3. TypeOK'
    <3>1. level' \in [Ranks -> Int]
      BY <1>0 DEF TypeOK
    <3>2. ip' \in [Ranks -> Nat \ {0}]
      BY <2>2 DEF TypeOK, Return
    <3>3. stopped' \in [Ranks -> BOOLEAN]
      BY <2>2 DEF TypeOK
    <3> QED BY <1>0, <2>1, <3>1, <3>2, <3>3 DEF TypeOK
  <2>4. Permission' /\ Turns'
    BY <1>0, <2>1 DEF Permission, Turns
  <2>5. (peer # 0 => At(Root, "end"))'
    <3>1. peer # 0 => r # Root
      BY <1>0
    <3> QED BY <2>1, <2>2, <3>1 DEF TypeOK, Levels, At, Return
  <2>6. ASSUME NEW q \in Ranks
        PROVE  ( /\ ~stopped[q] => level[q] >= 0
                 /\ lock[q] = "out" => level[q] <= 0
                 /\ lock[q] = "in" => level[q] >= 1
                 /\ lock[q] = "wait" => level[q] = 1 /\ At(q, "start") /\ q # Root )'
    <3>1. CASE q # r
      <4>1. level'[q] = level[q] /\ ip'[q] = ip[q] /\ stopped'[q] = stopped[q]
        BY <1>0, <2>2, <3>1 DEF TypeOK, Return
      <4> QED BY <2>1, <4>1 DEF Levels, At
    <3>2. CASE q = r
      <4>1. level'[q] = level[q] - 1 /\ level[q] \in Int
        BY <1>0, <3>2 DEF TypeOK
      <4>2. lock[q] # "wait"
        BY <1>0, <3>2 DEF Levels, At
      <4>3. stopped'[q] \/ level[q] > 1
        BY <2>2, <3>2 DEF TypeOK
      <4>4. lock[q] = "in" => level[q] > 1
        BY <1>1, <3>2, <4>1 DEF Levels
      <4> QED BY <2>1, <4>1, <4>2, <4>3, <4>4 DEF Levels
    <3> QED BY <3>1, <3>2
  <2> QED BY <2>3, <2>4, <2>5, <2>6 DEF Levels
<1>2. CASE level[r] = 1
  <2>1. /\ lock' = [lock EXCEPT ![r] = "out"]
        /\ turn' = Following(turn)
        /\ IF r = Root /\ NP > 1
           THEN peer' = 1 /\ UNCHANGED <<ip, succ>>
           ELSE /\ Return(r)
                /\ succ' = IF r = Root THEN succ ELSE [succ EXCEPT ![r] = @ + 1]
                /\ UNCHANGED peer
        /\ UNCHANGED stopped
    BY <1>2 DEF EndSerialize
  <2>2. /\ lock[r] = "in"
        /\ r # Root => waiting /\ peer = r /\ perm[r] = 0 /\ succ[r] = 0
        /\ r = Root => peer = 0 /\ ~waiting
    BY <1>0, <1>2, EndsInside
  <2>3. TypeOK'
    <3>1. level' \in [Ranks -> Int] /\ lock' \in [Ranks -> {"out", "wait", "in"}]
      BY <1>0, <2>1 DEF TypeOK
    <3>2. ip' \in [Ranks -> Nat \ {0}]
      BY <2>1 DEF TypeOK, Return
    <3>3. succ' \in [Ranks -> Nat]
      BY <2>1 DEF TypeOK
    <3>4. peer' \in Ranks /\ turn' \in Ranks
      <4>1. NP > 1 => 1 \in Ranks
        BY DEF Ranks
      <4> QED BY <2>1, <4>1, FollowingIsRank DEF TypeOK
    <3>5. perm' \in [Ranks -> Nat]
      BY <1>0 DEF TypeOK
    <3>6. stopped' \in [Ranks -> BOOLEAN]
      BY <2>1 DEF TypeOK
    <3>7. waiting' = waiting /\ waiting \in BOOLEAN
      BY <1>0 DEF TypeOK
    <3> QED BY <3>1, <3>2, <3>3, <3>4, <3>5, <3>6, <3>7 DEF TypeOK
  <2>4. CASE r = Root
    <3>1. UNCHANGED succ /\ (peer' # 0 => NP > 1 /\ UNCHANGED ip)
      BY <2>1, <2>2, <2>4
    <3>2. Permission'
      BY <1>0, <2>1, <2>2, <2>4, <3>1 DEF TypeOK, Permission, Others
    <3>3. Turns'
      BY <1>0, <2>1, <2>2, <2>4 DEF Turns, Following, Ranks, Root
    <3>4. (peer # 0 => At(Root, "end"))'
      BY <1>0, <2>1, <2>4, <3>1 DEF At
    <3>5. ASSUME NEW q \in Others PROVE ip'[q] = ip[q] /\ level'[q] = level[q]
      BY <1>0, <2>1, <2>4, <3>5 DEF TypeOK, Return, Others
    <3>6. level'[Root] = 0 /\ lock'[Root] = "out"
      BY <1>0, <1>2, <2>1, <2>4 DEF TypeOK
    <3>7. ASSUME NEW q \in Others PROVE lock'[q] = lock[q] /\ stopped'[q] = stopped[q]
      BY <2>1, <2>4, <3>7 DEF TypeOK, Others
    <3>8. Levels'
      BY <3>4, <3>5, <3>6, <3>7 DEF Levels, At, Others
    <3> QED BY <2>3, <3>2, <3>3, <3>8
  <2>5. CASE r # Root
    <3>1. /\ succ' = [succ EXCEPT ![r] = @ + 1] /\ Return(r) /\ UNCHANGED peer
          /\ peer = r /\ waiting /\ succ[r] = 0 /\ perm[r] = 0
      BY <2>1, <2>2, <2>5
    <3>2. Permission'
      BY <1>0, <2>1, <2>5, <3>1 DEF TypeOK, Permission, Others
    <3>3. Turns'
      BY <1>0, <2>1, <3>1 DEF TypeOK, Turns
    <3>4. ASSUME NEW q \in Ranks \ {r}
          PROVE  /\ ip'[q] = ip[q] /\ level'[q] = level[q]
                 /\ lock'[q] = lock[q] /\ stopped'[q] = stopped[q]
      BY <1>0, <2>1, <3>1, <3>4 DEF TypeOK, Return
    <3>5. level'[r] = 0 /\ lock'[r] = "out"
      BY <1>0, <1>2, <2>1 DEF TypeOK
    <3>6. Levels'
      BY <2>5, <3>1, <3>4, <3>5 DEF Levels, At
    <3> QED BY <2>3, <3>2, <3>3, <3>6
  <2> QED BY <2>4, <2>5
<1> QED BY <1>1, <1>2

LEMMA SendPermissionInv ==
  ASSUME SerialInv, SendPermission PROVE SerialInv'
<1> USE RootIsRank DEF SendPermission, SerialInv
<1>1. TypeOK'
  BY DEF TypeOK
<1>2. Permission'
  BY DEF TypeOK, Permission, Others
<1>3. Turns'
  BY DEF TypeOK, Turns, Permission, Others, Root
<1>4. Levels'
  BY DEF Levels, At
<1> QED BY <1>1, <1>2, <1>3, <1>4

LEMMA RecvSuccessInv ==
  ASSUME SerialInv, RecvSuccess PROVE SerialInv'
<1> USE RootIsRank DEF SerialInv
<1>1. /\ succ' = [succ EXCEPT ![peer] = @ - 1] /\ ~waiting'
      /\ UNCHANGED <<level, lock, perm, stopped, turn>>
      /\ waiting /\ succ[peer] > 0
  BY DEF RecvSuccess
<1>2. /\ peer \in Others
      /\ succ[peer] = 1 /\ perm[peer] = 0 /\ lock[peer] # "in"
      /\ lock[Root] = "out"
  BY <1>1 DEF Permission, Others, TypeOK, Root
<1>3. \/ peer < NP - 1 /\ peer' = peer + 1 /\ UNCHANGED ip
      \/ peer = NP - 1 /\ peer' = 0 /\ Return(Root)
  BY DEF RecvSuccess, TypeOK, Ranks
<1>4. peer' \in Ranks /\ turn = peer'
  <2>1. peer' = Following(peer)
    BY <1>2, <1>3 DEF Following, Others, Ranks
  <2>2. turn = Following(peer)
    BY <1>1, <1>2 DEF Turns
  <2> QED BY <1>2, <2>1, <2>2, FollowingIsRank DEF Others
<1>5. TypeOK'
  <2>1. ip' \in [Ranks -> Nat \ {0}]
    BY <1>3 DEF TypeOK, Return
  <2>2. succ' \in [Ranks -> Nat]
    BY <1>1, <1>2 DEF TypeOK
  <2>3. waiting' \in BOOLEAN
    BY DEF RecvSuccess
  <2> QED BY <1>1, <1>4, <2>1, <2>2, <2>3 DEF TypeOK
<1>6. Permission'
  <2>1. ASSUME NEW q \in Others
        PROVE  (perm[q] = 0 /\ succ[q] = 0 /\ lock[q] # "in")'
    BY <1>1, <1>2, <2>1 DEF TypeOK, Permission, Others
  <2> QED BY <1>1, <1>2, <2>1 DEF Permission
<1>7. Turns'
  BY <1>1, <1>4 DEF Turns
<1>8. Levels'
  <2>1. ASSUME NEW q \in Others PROVE ip'[q] = ip[q]
    BY <1>3, <2>1 DEF TypeOK, Return, Others
  <2>2. peer' # 0 => UNCHANGED ip
    BY <1>3
  <2>3. (peer # 0 => At(Root, "end"))'
    BY <1>1, <1>2, <2>2 DEF Levels, At, Others, Root
  <2> QED BY <1>1, <1>2, <2>1, <2>3 DEF Levels, At, Others
<1> QED BY <1>5, <1>6, <1>7, <1>8

LEMMA IoInv ==
  ASSUME SerialInv, NEW r \in Ranks, Io(r) PROVE SerialInv'
<1> USE RootIsRank DEF Io, SerialInv
<1>1. TypeOK'
  BY DEF TypeOK, Return
<1>2. Permission' /\ Turns'
  BY DEF Permission, Turns
<1>3. Levels'
  BY DEF TypeOK, Levels, At, Return
<1> QED BY <1>1, <1>2, <1>3

LEMMA CollectiveInv ==
  ASSUME SerialInv, Collective PROVE SerialInv'
<1> USE RootIsRank DEF Collective, SerialInv
<1>1. TypeOK'
  BY DEF TypeOK
<1>2. Permission' /\ Turns'
  BY DEF Permission, Turns
<1>3. Levels'
  BY DEF TypeOK, Levels, At
<1> QED BY <1>1, <1>2, <1>3

\* start_serialize and end_serialize hand one permission round: it is with the
\* root, or in exactly one place on its way to and back from one other rank.
THEOREM Invariance == Spec => []SerialInv
<1>1. SerialInv /\ [Next]_vars => SerialInv'
  <2> SUFFICES ASSUME SerialInv, [Next]_vars PROVE SerialInv'
    OBVIOUS
  <2>1. CASE UNCHANGED vars
    BY <2>1 DEF vars, SerialInv, TypeOK, Permission, Turns, Levels, At
  <2>2. ASSUME NEW r \in Ranks, RankStep(r) PROVE SerialInv'
    BY <2>2, StartInv, RecvPermissionInv, EndInv, IoInv DEF RankStep
  <2> QED
    BY <2>1, <2>2, SendPermissionInv, RecvSuccessInv, CollectiveInv DEF Next
<1> QED BY <1>1, InitInv, PTL DEF Spec

LEMMA OneInside == SerialInv => MutualExclusion
BY RootIsRank DEF SerialInv, TypeOK, Permission, MutualExclusion, Others

\* At most one rank is inside a block, whatever the ranks and the calls.
THEOREM Exclusion == Spec => []MutualExclusion
BY Invariance, OneInside, PTL
-----------------------------------------------------------------------------
(***************************************************************************)
(* SerialIO implements OrderedTurns.                                       *)
(***************************************************************************)
LEMMA HolderIsInside ==
  ASSUME MutualExclusion, NEW r \in Ranks, lock[r] = "in" PROVE Holder = r
BY DEF Holder, MutualExclusion

LEMMA HolderIsNobody ==
  ASSUME \A r \in Ranks : lock[r] # "in" PROVE Holder = -1
BY DEF Holder

\* Who enters finds the block empty, and it is its turn.
LEMMA EnterStep ==
  ASSUME SerialInv, SerialInv', NEW r \in Ranks,
         lock' = [lock EXCEPT ![r] = "in"], UNCHANGED turn,
         \A q \in Ranks : lock[q] # "in", turn = r
  PROVE  Turn!Enter(r)
<1>1. lock'[r] = "in"
  BY DEF SerialInv, TypeOK
<1>2. MutualExclusion'
  <2>1. SerialInv' => MutualExclusion'
    BY OneInside, PTL
  <2> QED BY <2>1
<1>3. Holder' = r
  BY <1>1, <1>2 DEF Holder, MutualExclusion
<1>4. Holder = -1
  BY HolderIsNobody
<1> QED BY <1>3, <1>4 DEF Turn!Enter

\* Who leaves was inside, and the turn goes to the next rank.
LEMMA ExitStep ==
  ASSUME SerialInv, NEW r \in Ranks,
         lock' = [lock EXCEPT ![r] = "out"], turn' = Following(turn),
         lock[r] = "in"
  PROVE  Turn!Exit(r)
<1>1. MutualExclusion
  BY OneInside
<1>2. Holder = r
  BY <1>1, HolderIsInside
<1>3. \A q \in Ranks : lock'[q] # "in"
  BY <1>1 DEF MutualExclusion, SerialInv, TypeOK
<1>4. Holder' = -1
  BY <1>3 DEF Holder
<1>5. turn' = Turn!Successor(turn)
  BY DEF Following, Turn!Successor
<1> QED BY <1>2, <1>4, <1>5 DEF Turn!Exit

\* A step that does not change who is inside is a stuttering step.
LEMMA StutterStep ==
  ASSUME UNCHANGED turn, \A q \in Ranks : (lock'[q] = "in") = (lock[q] = "in")
  PROVE  UNCHANGED <<Holder, turn>>
<1>1. CASE \E q \in Ranks : lock[q] = "in"
  <2>1. (CHOOSE q \in Ranks : lock'[q] = "in") = (CHOOSE q \in Ranks : lock[q] = "in")
    OBVIOUS
  <2> QED BY <1>1, <2>1 DEF Holder
<1>2. CASE \A q \in Ranks : lock[q] # "in"
  BY <1>2 DEF Holder
<1> QED BY <1>1, <1>2

LEMMA StepRefines ==
  ASSUME SerialInv, SerialInv', [Next]_vars
  PROVE  Turn!Next \/ UNCHANGED <<Holder, turn>>
<1> USE RootIsRank
<1>1. CASE UNCHANGED vars
  BY <1>1, StutterStep DEF vars
<1>2. ASSUME NEW r \in Ranks, StartSerialize(r)
      PROVE  Turn!Next \/ UNCHANGED <<Holder, turn>>
  <2>1. CASE level[r] >= 1
    <3>1. UNCHANGED <<lock, turn>>
      BY <1>2, <2>1 DEF StartSerialize
    <3> QED BY <3>1, StutterStep
  <2>2. CASE level[r] < 1 /\ r = Root
    <3>1. lock' = [lock EXCEPT ![r] = "in"] /\ UNCHANGED turn
      BY <1>2, <2>2 DEF StartSerialize, SerialInv, TypeOK
    <3>2. peer = 0
      BY <1>2, <2>2 DEF StartSerialize, SerialInv, Levels, At
    <3>3. \A q \in Ranks : lock[q] # "in"
      BY <2>2, <3>2 DEF SerialInv, TypeOK, Permission, Levels, Others
    <3>4. turn = r
      BY <2>2, <3>2 DEF SerialInv, Permission, Turns, Root
    <3>5. Turn!Enter(r)
      BY <3>1, <3>3, <3>4, EnterStep
    <3> QED BY <3>5 DEF Turn!Next, Turn!Ranks, Ranks
  <2>3. CASE level[r] < 1 /\ r # Root
    <3>1. lock' = [lock EXCEPT ![r] = "wait"] /\ UNCHANGED turn /\ lock[r] # "in"
      BY <1>2, <2>3 DEF StartSerialize, SerialInv, TypeOK, Levels
    <3>2. \A q \in Ranks : (lock'[q] = "in") = (lock[q] = "in")
      BY <3>1 DEF SerialInv, TypeOK
    <3> QED BY <3>1, <3>2, StutterStep
  <2> QED BY <2>1, <2>2, <2>3 DEF SerialInv, TypeOK
<1>3. ASSUME NEW r \in Ranks, RecvPermission(r)
      PROVE  Turn!Next \/ UNCHANGED <<Holder, turn>>
  <2>1. lock' = [lock EXCEPT ![r] = "in"] /\ UNCHANGED turn
    BY <1>3 DEF RecvPermission
  <2>2. waiting /\ peer = r /\ succ[r] = 0 /\ lock[Root] = "out"
    BY <1>3 DEF RecvPermission, SerialInv, TypeOK, Permission, Others
  <2>3. \A q \in Ranks : lock[q] # "in"
    BY <1>3, <2>2 DEF RecvPermission, SerialInv, Permission, Others
  <2>4. turn = r
    BY <2>2 DEF SerialInv, Turns
  <2>5. Turn!Enter(r)
    BY <2>1, <2>3, <2>4, EnterStep
  <2> QED BY <2>5 DEF Turn!Next, Turn!Ranks, Ranks
<1>4. ASSUME NEW r \in Ranks, EndSerialize(r)
      PROVE  Turn!Next \/ UNCHANGED <<Holder, turn>>
  <2>1. CASE level[r] # 1
    <3>1. UNCHANGED <<lock, turn>>
      BY <1>4, <2>1 DEF EndSerialize
    <3> QED BY <3>1, StutterStep
  <2>2. CASE level[r] = 1
    <3>1. lock' = [lock EXCEPT ![r] = "out"] /\ turn' = Following(turn)
      BY <1>4, <2>2 DEF EndSerialize
    <3>2. lock[r] = "in"
      BY <1>4, <2>2, EndsInside DEF EndSerialize
    <3>3. Turn!Exit(r)
      BY <3>1, <3>2, ExitStep
    <3> QED BY <3>3 DEF Turn!Next, Turn!Ranks, Ranks
  <2> QED BY <2>1, <2>2
<1>5. ASSUME NEW r \in Ranks, Io(r) PROVE UNCHANGED <<Holder, turn>>
  BY <1>5, StutterStep DEF Io
<1>6. CASE SendPermission \/ RecvSuccess \/ Collective
  BY <1>6, StutterStep DEF SendPermission, RecvSuccess, Collective
<1> QED BY <1>1, <1>2, <1>3, <1>4, <1>5, <1>6 DEF Next, RankStep

\* "Do block between start_serialize and end_serialize serially in iproc order":
\* every behaviour of the message passing is one of OrderedTurns.
THEOREM Order == Spec => SerialOrder
<1>1. Init => Turn!Init
  <2>1. Init => Holder = -1
    BY HolderIsNobody DEF Init
  <2> QED BY <2>1 DEF Init, Turn!Init
<1>2. SerialInv /\ SerialInv' /\ [Next]_vars => [Turn!Next]_<<Holder, turn>>
  BY StepRefines
<1> QED BY <1>1, <1>2, Invariance, PTL DEF Spec, SerialOrder, Turn!Spec
=============================================================================
