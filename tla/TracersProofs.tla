--------------------------- MODULE TracersProofs ---------------------------
(***************************************************************************)
(* For every number of processes, every number of seeds, every call and    *)
(* every order in which the messages of the children come in, with or      *)
(* without children that die: find_tracers implements SerialTracing, the   *)
(* single loop over the seeds, and find_fixed enters every fixed point     *)
(* of a snapshot once and keeps no two that are close to one another.      *)
(* The sums and sequences of find_fixed are reasoned about by the smallest *)
(* counterexample: the prefixes of a fold, and the folds of all sequences  *)
(* of the same points.                                                     *)
(***************************************************************************)
EXTENDS FixedPoints, TLAPS, FiniteSetTheorems, WellFoundedInduction

LEMMA DivLower ==
  ASSUME NEW n \in Nat \ {0}, NEW q \in Nat, NEW x \in Nat, q * n <= x
  PROVE  q <= x \div n
<1> DEFINE d == x \div n
<1>1. d \in Nat /\ x < (d + 1) * n
  BY Z3
<1>2. SUFFICES ASSUME d < q PROVE FALSE
  BY <1>1
<1>3. (d + 1) * n <= q * n
  BY <1>1, <1>2
<1> QED BY <1>1, <1>3

\* Seed s is in row Row(s) of process s % NProc, and that is a row the process has.
LEMMA RowOfSeed ==
  ASSUME NEW s \in Seeds
  PROVE  /\ s % NProc \in Workers
         /\ Row(s) \in 0 .. NRows(s % NProc) - 1
         /\ (s % NProc) + Row(s) * NProc = s
<1> DEFINE r == s % NProc
           q == s \div NProc
           x == NSeeds + NProc - 1 - r
<1>1. NProc \in Nat \ {0} /\ NSeeds \in Nat /\ s \in Nat /\ s < NSeeds
  BY ForkAssumption, SeriesAssumption DEF Seeds
<1>2. r \in 0 .. NProc - 1 /\ q \in Nat /\ s = r + q * NProc
  BY <1>1, Z3
<1>3. (q + 1) * NProc = q * NProc + NProc
  BY <1>1, <1>2
<1>4. x \in Nat /\ (q + 1) * NProc <= x
  BY <1>1, <1>2, <1>3
<1>5. q + 1 <= x \div NProc
  BY <1>1, <1>2, <1>4, DivLower, SMTT(20)
<1>6. x \div NProc \in Nat
  BY <1>1, <1>4, Z3
<1>7. q \in 0 .. (x \div NProc) - 1
  BY <1>2, <1>5, <1>6
<1> QED BY <1>2, <1>7 DEF Workers, Row, NRows

LEMMA InputTypes ==
  ASSUME input \in Inputs
  PROVE  /\ ti \in Int /\ tf \in Int /\ old \in BOOLEAN
         /\ nTimes \in Nat \ {0} /\ FirstIdx \in Int /\ LastIdx \in Int
<1>1. ti \in Int /\ tf \in Int /\ old \in BOOLEAN
  BY SeriesAssumption DEF input
<1>2. nTimes \in Nat \ {0}
  BY <1>1 DEF nTimes, series
<1> QED BY <1>1, <1>2 DEF FirstIdx, LastIdx, NewFirst, NewLast, OldFirst, OldLast

LEMMA EntryInArray ==
  ASSUME TypeOK, InRange(t_idx)
  PROVE  Entry(t_idx) \in 0 .. nTimes - 1
BY InputTypes DEF TypeOK, InRange, Entry

\* The input does not change, and neither does what depends on it alone.
LEMMA SameInput ==
  ASSUME UNCHANGED input
  PROVE  /\ nTimes' = nTimes /\ FirstIdx' = FirstIdx /\ LastIdx' = LastIdx
         /\ Message' = Message /\ (input \in Inputs)' = (input \in Inputs)
         /\ \A i : FileOf(i)' = FileOf(i) /\ InRange(i)' = InRange(i) /\ Entry(i)' = Entry(i)
         /\ \A i, w : SubTracers(i, w)' = SubTracers(i, w)
<1>1. ti' = ti /\ tf' = tf /\ old' = old
  BY DEF input
<1>2. series' = series /\ nTimes' = nTimes
  BY <1>1 DEF series, nTimes
<1>3. /\ FirstIdx' = FirstIdx /\ LastIdx' = LastIdx
      /\ \A i : FileOf(i)' = FileOf(i) /\ InRange(i)' = InRange(i) /\ Entry(i)' = Entry(i)
  BY <1>1, <1>2 DEF FirstIdx, LastIdx, NewFirst, NewLast, OldFirst, OldLast, FileOf, InRange, Entry
<1>4. \A i, w : SubTracers(i, w)' = SubTracers(i, w)
  BY <1>3 DEF SubTracers
<1>5. Message' = Message
  BY <1>3, <1>4 DEF Message
<1> QED BY <1>1, <1>2, <1>3, <1>4, <1>5 DEF input

LEMMA InitInv == Init => TracersInv
<1> SUFFICES ASSUME Init PROVE TracersInv
  OBVIOUS
<1>1. input \in Inputs
  <2>1. PICK in \in Inputs : ti = in[1] /\ tf = in[2] /\ old = in[3]
    BY DEF Init, InitInput
  <2>2. in = <<in[1], in[2], in[3]>>
    BY SeriesAssumption
  <2> QED BY <2>1, <2>2 DEF input
<1>2. Messages = << >> /\ parent = "read"
  BY DEF Init, InitFork, Messages
<1>3. TypeOK
  <2>1. /\ queue \in Seq(Message) /\ sub_data \in Seq(Message)
        /\ child \in [Workers -> {"new", "running", "ended", "died"}]
    BY DEF Init, InitFork
  <2>2. t_idx \in Int /\ FirstIdx <= t_idx
    BY <1>1, InputTypes DEF Init
  <2>3. /\ x1 \in [0 .. nTimes - 1 -> [Seeds -> {"zero", "seed", "end"} \X Int \X Int]]
        /\ t \in [0 .. nTimes - 1 -> Int]
    BY DEF Init, ZeroRows, ZeroTime, Zero, NoTime
  <2> QED BY <1>1, <1>2, <2>1, <2>2, <2>3 DEF TypeOK
<1>4. EntryThere
  BY <1>2 DEF EntryThere, Working
<1>5. OneMessageEach
  BY <1>2 DEF OneMessageEach, Working, Init, InitFork
<1>6. NoneLeft
  BY <1>2 DEF NoneLeft, Init, InitFork
<1> QED BY <1>3, <1>4, <1>5, <1>6 DEF TracersInv

\* Each action of Tracers preserves TracersInv: a lemma for every action.
LEMMA ReadVarInv ==
  ASSUME TracersInv, ReadVar PROVE TracersInv'
<1> USE DEF TracersInv
<1>1. /\ parent = "read" /\ t_idx <= LastIdx /\ InRange(t_idx)
      /\ x1' = [x1 EXCEPT ![Entry(t_idx)] = [s \in Seeds |-> Seed]]
      /\ t'  = [t EXCEPT ![Entry(t_idx)] = FileOf(t_idx)]
      /\ parent' = "start" /\ child' = [w \in Workers |-> "new"] /\ sub_data' = << >>
      /\ UNCHANGED <<queue, input, t_idx>>
  BY DEF ReadVar, Prepare
<1>2. queue' = << >> /\ Messages' = << >>
  BY <1>1 DEF NoneLeft, Messages
<1>3. TypeOK'
  <2>1. x1' \in [0 .. nTimes - 1 -> [Seeds -> {"zero", "seed", "end"} \X Int \X Int]]
    <3>1. [s \in Seeds |-> Seed] \in [Seeds -> {"zero", "seed", "end"} \X Int \X Int]
      BY DEF Seed
    <3>2. x1 \in [0 .. nTimes - 1 -> [Seeds -> {"zero", "seed", "end"} \X Int \X Int]]
      BY DEF TypeOK
    <3>3. nTimes' = nTimes
      BY <1>1, SameInput
    <3> QED BY <1>1, <3>1, <3>2, <3>3, Zenon
  <2>2. FileOf(t_idx) \in Int
    BY DEF FileOf, TypeOK
  <2>3. t' \in [0 .. nTimes - 1 -> Int]
    BY <1>1, <2>2 DEF TypeOK
  <2> QED BY <1>1, <1>2, <2>1, <2>3, SameInput DEF TypeOK
<1>4. EntryThere'
  BY <1>1, SameInput DEF EntryThere
<1>5. OneMessageEach'
  BY <1>1, <1>2 DEF OneMessageEach, Working
<1>6. NoneLeft'
  BY <1>1 DEF NoneLeft
<1> QED BY <1>3, <1>4, <1>5, <1>6

LEMMA EndInv ==
  ASSUME TracersInv, IndexError \/ Return PROVE TracersInv'
<1> USE DEF TracersInv
<1>1. /\ parent = "read" /\ parent' \in {"failed", "done"}
      /\ UNCHANGED <<child, queue, sub_data, input, t_idx, x1, t>>
  BY DEF IndexError, Return, seriesVars
<1>2. TypeOK'
  BY <1>1, SameInput DEF TypeOK
<1>3. EntryThere'
  BY <1>1 DEF EntryThere, Working
<1>4. OneMessageEach'
  BY <1>1 DEF OneMessageEach, Working, Messages
<1>5. NoneLeft'
  BY <1>1 DEF NoneLeft
<1> QED BY <1>2, <1>3, <1>4, <1>5

\* Steps of the children that change neither the queue nor the results.
LEMMA StartDieInv ==
  ASSUME TracersInv, NEW w \in Workers, Start(w) \/ Die(w), UNCHANGED seriesVars
  PROVE  TracersInv'
<1> USE DEF TracersInv
<1>1. /\ UNCHANGED <<queue, sub_data, input, t_idx, x1, t>> /\ child[w] \in {"new", "running"}
      /\ \E c \in {"running", "died"} : child' = [child EXCEPT ![w] = c]
      /\ \/ parent = "start" /\ parent' \in {"start", "get"}
         \/ parent' = parent
  BY DEF Start, Die, seriesVars
<1>2. TypeOK'
  BY <1>1, SameInput DEF TypeOK
<1>3. EntryThere'
  BY <1>1, SameInput DEF EntryThere, Working
<1>4. OneMessageEach'
  <2>1. Messages' = Messages /\ (Working' => Working) /\ (~Working' => ~Working)
    BY <1>1 DEF Messages, Working
  <2>2. ASSUME NEW i \in 1 .. Len(Messages), Working
        PROVE  child'[Messages[i].from] = "ended"
    <3>1. Messages[i].from \in Workers /\ child[Messages[i].from] = "ended"
      BY <2>2 DEF OneMessageEach
    <3> QED BY <1>1, <3>1 DEF TypeOK
  <2> QED BY <1>1, <2>1, <2>2, SameInput DEF OneMessageEach
<1>5. parent \in {"start", "get"} /\ parent' \in {"start", "get"}
  <2>1. CASE Start(w)
    BY <2>1 DEF Start
  <2>2. CASE Die(w)
    BY <2>2 DEF Die, NoneLeft
  <2> QED BY <2>1, <2>2
<1>6. NoneLeft'
  BY <1>5 DEF NoneLeft
<1> QED BY <1>2, <1>3, <1>4, <1>6

LEMMA PutInv ==
  ASSUME TracersInv, NEW w \in Workers, Put(w, SubTracers(t_idx, w)), UNCHANGED seriesVars
  PROVE  TracersInv'
<1> USE DEF TracersInv
<1> DEFINE m == [from |-> w, data |-> SubTracers(t_idx, w)]
<1>1. /\ child[w] = "running" /\ queue' = Append(queue, m)
      /\ child' = [child EXCEPT ![w] = "ended"]
      /\ UNCHANGED <<parent, sub_data, input, t_idx, x1, t>>
  BY DEF Put, seriesVars
<1>0. parent \in {"start", "get"} /\ Working
  BY <1>1 DEF NoneLeft, Working
<1>2. m \in Message
  <2>1. t_idx \in FirstIdx .. LastIdx
    BY <1>0, InputTypes DEF TypeOK, EntryThere
  <2> QED BY <2>1 DEF Message
<1>3. TypeOK'
  <2>1. queue' \in Seq(Message)
    BY <1>1, <1>2 DEF TypeOK
  <2> QED BY <1>1, <2>1, SameInput DEF TypeOK
<1>4. EntryThere'
  BY <1>1, SameInput DEF EntryThere, Working
<1>5. /\ Messages \in Seq(Message) /\ Messages' = Append(Messages, m)
  BY <1>1, <1>2 DEF Messages, TypeOK
<1>6. \A i \in 1 .. Len(Messages) : Messages[i].from \in Workers /\ child[Messages[i].from] = "ended"
  BY <1>0 DEF OneMessageEach
<1>7. \A i \in 1 .. Len(Messages) : Messages[i].from # w
  BY <1>1, <1>6
<1>8. /\ Len(Messages') = Len(Messages) + 1 /\ Messages'[Len(Messages) + 1] = m
      /\ \A i \in 1 .. Len(Messages) : Messages'[i] = Messages[i]
  BY <1>5
<1>9. OneMessageEach'
  <2>1. ASSUME NEW i \in 1 .. Len(Messages')
        PROVE  /\ Messages'[i].from \in Workers /\ child'[Messages'[i].from] = "ended"
               /\ Messages'[i].data = SubTracers(t_idx, Messages'[i].from)
    <3>1. CASE i \in 1 .. Len(Messages)
      <4>1. Messages'[i] = Messages[i]
        BY <1>8, <3>1
      <4>2. child'[Messages[i].from] = "ended"
        BY <1>1, <1>6, <3>1 DEF TypeOK
      <4> QED BY <1>6, <3>1, <4>1, <4>2, <1>0 DEF OneMessageEach
    <3>2. CASE i = Len(Messages) + 1
      BY <1>1, <1>8, <3>2 DEF TypeOK
    <3> QED BY <1>5, <1>8, <3>1, <3>2
  <2>2. ASSUME NEW i \in 1 .. Len(Messages'), NEW j \in 1 .. Len(Messages'),
               Messages'[i].from = Messages'[j].from
        PROVE  i = j
    <3>1. CASE i \in 1 .. Len(Messages) /\ j \in 1 .. Len(Messages)
      BY <1>8, <2>2, <3>1 DEF OneMessageEach
    <3>2. CASE i = Len(Messages) + 1 \/ j = Len(Messages) + 1
      BY <1>5, <1>7, <1>8, <2>2, <3>2
    <3> QED BY <1>5, <1>8, <3>1, <3>2
  <2>3. Working' /\ t_idx' = t_idx
    BY <1>1, <1>0 DEF Working
  <2>4. \A v : SubTracers(t_idx, v)' = SubTracers(t_idx, v)
    BY <1>1, SameInput DEF SubTracers
  <2> QED BY <2>1, <2>2, <2>3, <2>4 DEF OneMessageEach
<1>10. NoneLeft'
  BY <1>0, <1>1 DEF NoneLeft
<1> QED BY <1>3, <1>4, <1>9, <1>10

LEMMA GetInv ==
  ASSUME TracersInv, Get, UNCHANGED seriesVars PROVE TracersInv'
<1> USE DEF TracersInv
<1>1. /\ parent = "get" /\ queue # << >>
      /\ sub_data' = Append(sub_data, Head(queue)) /\ queue' = Tail(queue)
      /\ UNCHANGED <<parent, child, input, t_idx, x1, t>>
  BY DEF Get, seriesVars
<1>2. TypeOK'
  <2>1. sub_data' \in Seq(Message) /\ queue' \in Seq(Message)
    BY <1>1 DEF TypeOK
  <2> QED BY <1>1, <2>1, SameInput DEF TypeOK
<1>3. EntryThere'
  BY <1>1, SameInput DEF EntryThere, Working
<1>4. Messages' = Messages
  BY <1>1 DEF Messages, TypeOK
<1>5. Working /\ Working'
  BY <1>1 DEF Working
<1>6. OneMessageEach'
  BY <1>1, <1>4, <1>5, SameInput DEF OneMessageEach
<1>7. NoneLeft'
  BY <1>1 DEF NoneLeft
<1> QED BY <1>2, <1>3, <1>6, <1>7


\* The pigeonhole argument: NProc messages of different processes are one of each.
LEMMA OneOfEach ==
  ASSUME NEW M, queue \in Seq(M), sub_data \in Seq(M), Len(sub_data) = NProc,
         \A i \in 1 .. Len(Messages) : Messages[i].from \in Workers,
         \A i, j \in 1 .. Len(Messages) : (Messages[i].from = Messages[j].from) => i = j
  PROVE  /\ \A w \in Workers : \E i \in 1 .. NProc : sub_data[i].from = w
         /\ queue = << >>
<1> DEFINE f == [i \in 1 .. NProc |-> sub_data[i].from]
<1>1. NProc \in Nat \ {0} /\ sub_data \in Seq(M) /\ queue \in Seq(M)
  BY ForkAssumption
<1>2. /\ Len(Messages) = NProc + Len(queue)
      /\ \A i \in 1 .. NProc : i \in 1 .. Len(Messages) /\ Messages[i] = sub_data[i]
  BY <1>1, SMTT(20) DEF Messages
<1>3. f \in Injection(1 .. NProc, Workers)
  <2>1. f \in [1 .. NProc -> Workers]
    BY <1>2
  <2>2. \A i, j \in 1 .. NProc : f[i] = f[j] => i = j
    BY <1>2
  <2> QED BY <2>1, <2>2 DEF Injection, IsInjective
<1>4. /\ IsFiniteSet(Workers) /\ Cardinality(Workers) = NProc
      /\ IsFiniteSet(1 .. NProc) /\ Cardinality(1 .. NProc) = NProc
  BY <1>1, FS_Interval DEF Workers
<1>5. f \in Surjection(1 .. NProc, Workers)
  BY <1>3, <1>4, FS_Injection
<1>6. \A w \in Workers : \E i \in 1 .. NProc : sub_data[i].from = w
  BY <1>5 DEF Surjection
<1>7. queue = << >>
  <2>1. SUFFICES ASSUME queue # << >> PROVE FALSE
    OBVIOUS
  <2>2. NProc + 1 \in 1 .. Len(Messages)
    BY <1>1, <1>2, <2>1
  <2>3. Messages[NProc + 1].from \in Workers
    BY <2>2
  <2>4. PICK i \in 1 .. NProc : sub_data[i].from = Messages[NProc + 1].from
    BY <1>6, <2>3
  <2>5. i = NProc + 1
    BY <1>2, <2>2, <2>4
  <2> QED BY <1>1, <2>5
<1> QED BY <1>6, <1>7

LEMMA JoinInv ==
  ASSUME TracersInv, Join, UNCHANGED seriesVars PROVE TracersInv'
<1> USE DEF TracersInv
<1>1. /\ parent = "get" /\ parent' = "store"
      /\ UNCHANGED <<child, queue, sub_data, input, t_idx, x1, t>>
  BY DEF Join, seriesVars
<1>2. TypeOK'
  BY <1>1, SameInput DEF TypeOK
<1>3. EntryThere'
  BY <1>1, SameInput DEF EntryThere, Working
<1>4. OneMessageEach'
  BY <1>1, SameInput DEF OneMessageEach, Messages, Working
<1>5. NoneLeft'
  <2>1. queue \in Seq(Message) /\ sub_data \in Seq(Message)
    BY DEF TypeOK
  <2>2. /\ \A i \in 1 .. Len(Messages) : Messages[i].from \in Workers
        /\ \A i, j \in 1 .. Len(Messages) : (Messages[i].from = Messages[j].from) => i = j
    BY DEF OneMessageEach
  <2>3. queue = << >>
    BY <2>1, <2>2, OneOfEach DEF Join
  <2> QED BY <1>1, <2>3 DEF NoneLeft, Join
<1> QED BY <1>2, <1>3, <1>4, <1>5

\* What Store enters for each seed: the end of its line in the snapshot.
LEMMA StoredLines ==
  ASSUME TracersInv, Store, NEW rows
  PROVE  Reassembled(rows) = [s \in Seeds |-> Line(FileOf(t_idx), s)]
<1> USE DEF TracersInv
<1>1. /\ parent = "store" /\ Len(sub_data) = NProc /\ Working
      /\ NProc \in Nat \ {0} /\ sub_data \in Seq(Message) /\ queue \in Seq(Message)
  BY ForkAssumption DEF Store, NoneLeft, Working, TypeOK
<1>2. SUFFICES ASSUME NEW s \in Seeds
               PROVE  Reassembled(rows)[s] = Line(FileOf(t_idx), s)
  BY DEF Reassembled
<1> DEFINE w == s % NProc
           sent == Sent(w)
<1>3. w \in Workers /\ Row(s) \in 0 .. NRows(w) - 1 /\ w + Row(s) * NProc = s
  BY RowOfSeed
<1>a. /\ \A i \in 1 .. Len(Messages) : Messages[i].from \in Workers
      /\ \A i, j \in 1 .. Len(Messages) : (Messages[i].from = Messages[j].from) => i = j
  BY DEF OneMessageEach
<1>4. PICK i \in 1 .. NProc : sub_data[i].from = w
  BY <1>1, <1>3, <1>a, OneOfEach
<1>5. /\ Len(Messages) >= NProc
      /\ \A j \in 1 .. NProc : j \in 1 .. Len(Messages) /\ Messages[j] = sub_data[j]
  BY <1>1 DEF Messages
<1>6. sent = {i}
  BY <1>1, <1>4, <1>5 DEF Sent, OneMessageEach
<1>7. (CHOOSE k \in sent : \A j \in sent : j <= k) = i
  BY <1>4, <1>6
<1>8. sub_data[i].data = SubTracers(t_idx, w)
  BY <1>1, <1>4, <1>5 DEF OneMessageEach
<1>9. sub_data[i].data[Row(s)] = Line(FileOf(t_idx), s)
  BY <1>3, <1>8 DEF SubTracers
<1>10. Reassembled(rows)[s] = sub_data[i].data[Row(s)]
  BY <1>6, <1>7, Zenon DEF Reassembled
<1> QED BY <1>9, <1>10

LEMMA StoreInv ==
  ASSUME TracersInv, Store PROVE TracersInv'
<1> USE DEF TracersInv
<1>1. /\ parent = "store" /\ parent' = "read" /\ t_idx' = t_idx + 1
      /\ x1' = [x1 EXCEPT ![Entry(t_idx)] = Reassembled(@)]
      /\ UNCHANGED <<child, queue, sub_data, input, t>>
  BY DEF Store
<1>2. Entry(t_idx) \in 0 .. nTimes - 1
  BY <1>1, EntryInArray DEF EntryThere, Working
<1>3. x1' = [x1 EXCEPT ![Entry(t_idx)] = [s \in Seeds |-> Line(FileOf(t_idx), s)]]
  BY <1>1, <1>2, StoredLines, Zenon
<1>4. TypeOK'
  <2>1. FileOf(t_idx) \in Int /\ FirstIdx \in Int
    BY InputTypes DEF FileOf, TypeOK
  <2>2. [s \in Seeds |-> Line(FileOf(t_idx), s)] \in [Seeds -> {"zero", "seed", "end"} \X Int \X Int]
    BY <2>1, SeriesAssumption DEF Line, Seeds
  <2>3. x1' \in [0 .. nTimes - 1 -> [Seeds -> {"zero", "seed", "end"} \X Int \X Int]]
    BY <1>3, <2>2 DEF TypeOK
  <2> QED BY <1>1, <2>1, <2>3, SameInput DEF TypeOK
<1>5. EntryThere'
  BY <1>1 DEF EntryThere, Working
<1>6. OneMessageEach'
  BY <1>1 DEF OneMessageEach, Messages, Working
<1>7. NoneLeft'
  BY <1>1 DEF NoneLeft
<1> QED BY <1>4, <1>5, <1>6, <1>7

LEMMA StepInv ==
  ASSUME TracersInv, ParentStep \/ \E w \in Workers : WorkTracers(w) PROVE TracersInv'
<1>1. CASE ParentStep
  <2>1. CASE ReadVar
    BY <2>1, ReadVarInv
  <2>2. CASE IndexError \/ Return
    BY <2>2, EndInv
  <2>3. CASE Collect
    BY <2>3, GetInv, JoinInv DEF Collect
  <2>4. CASE Store
    BY <2>4, StoreInv
  <2> QED BY <1>1, <2>1, <2>2, <2>3, <2>4 DEF ParentStep
<1>2. CASE \E w \in Workers : WorkTracers(w)
  BY <1>2, StartDieInv, PutInv DEF WorkTracers, Work
<1> QED BY <1>1, <1>2

LEMMA StutterInv ==
  ASSUME TracersInv, UNCHANGED vars PROVE TracersInv'
<1>1. UNCHANGED <<parent, child, queue, sub_data, input, t_idx, x1, t>>
  BY DEF vars, forkVars, seriesVars
<1> QED BY <1>1, SameInput
        DEF TracersInv, TypeOK, EntryThere, OneMessageEach, NoneLeft, Working, Messages

\* What a step of find_fixed is outside of find_tracers.
LEMMA FixedStage ==
  ASSUME FixedNext, ~TracersParent, ~\E w \in Workers : TracersWork(w)
  PROVE  /\ stage' = "fixed" /\ UNCHANGED seriesVars
         /\ stage = "fixed" \/ parent = "done"
<1> USE DEF fixedVars
<1>1. CASE BeginFixed \/ ReadField \/ ReturnFixed \/ FixedCollect
  BY <1>1 DEF BeginFixed, ReadField, ReturnFixed, FixedCollect
<1>2. CASE StoreFixed
  BY <1>2 DEF StoreFixed
<1>3. CASE StoreFixedOld
  BY <1>3 DEF StoreFixedOld
<1>4. CASE \E w \in Workers : FixedWork(w)
  BY <1>4 DEF FixedWork
<1> QED BY <1>1, <1>2, <1>3, <1>4 DEF FixedNext, FixedParent, FixedChild

\* In find_tracers, there is at most one message of each process, about the snapshot
\* the parent works on: the queue carries nothing from one snapshot to the next.
THEOREM MappingCorrect == FixedSpec => []MappingInv
<1>1. InitFixed => MappingInv
  BY InitInv DEF InitFixed, MappingInv
<1>2. MappingInv /\ [FixedNext]_allVars => MappingInv'
  <2> SUFFICES ASSUME MappingInv, [FixedNext]_allVars, stage' = "tracers" PROVE TracersInv'
    BY DEF MappingInv
  <2>1. CASE TracersParent
    BY <2>1, StepInv DEF TracersParent, MappingInv
  <2>2. CASE \E w \in Workers : TracersWork(w)
    BY <2>2, StepInv DEF TracersWork, MappingInv
  <2>3. CASE FixedNext /\ ~TracersParent /\ ~\E w \in Workers : TracersWork(w)
    BY <2>3, FixedStage
  <2>4. CASE UNCHANGED allVars
    <3>1. UNCHANGED vars /\ stage = "tracers"
      BY <2>4 DEF allVars, fixedVars
    <3> QED BY <3>1, StutterInv DEF MappingInv
  <2> QED BY <2>1, <2>2, <2>3, <2>4
<1> QED BY <1>1, <1>2, PTL DEF FixedSpec

\* The definitions that SerialTracing and Tracers share.
LEMMA Shared ==
  /\ Mapping!InitInput <=> InitInput
  /\ Mapping!FirstIdx = FirstIdx /\ Mapping!LastIdx = LastIdx
  /\ Mapping!ZeroRows = ZeroRows /\ Mapping!ZeroTime = ZeroTime /\ Mapping!input = input
  /\ Mapping!Seeds = Seeds /\ Mapping!Seed = Seed
  /\ \A i : Mapping!FileOf(i) = FileOf(i) /\ Mapping!Entry(i) = Entry(i)
  /\ \A i : Mapping!InRange(i) <=> InRange(i)
  /\ \A i, s : Mapping!Line(i, s) = Line(i, s)
<1>1. /\ Mapping!Seeds = Seeds /\ Mapping!Seed = Seed /\ Mapping!input = input
      /\ Mapping!nTimes = nTimes /\ (Mapping!series <=> series)
      /\ \A i, s : Mapping!Line(i, s) = Line(i, s)
  BY DEF Mapping!Seeds, Seeds, Mapping!Seed, Seed, Mapping!input, input, Mapping!nTimes, nTimes,
         Mapping!series, series, Mapping!Line, Line
<1>2. Mapping!InitInput <=> InitInput
  BY DEF Mapping!InitInput, InitInput
<1>3. Mapping!FirstIdx = FirstIdx /\ Mapping!LastIdx = LastIdx
  BY <1>1 DEF Mapping!FirstIdx, FirstIdx, Mapping!LastIdx, LastIdx, Mapping!OldFirst, OldFirst,
              Mapping!NewFirst, NewFirst, Mapping!OldLast, OldLast, Mapping!NewLast, NewLast
<1>4. Mapping!ZeroRows = ZeroRows /\ Mapping!ZeroTime = ZeroTime
  BY <1>1 DEF Mapping!ZeroRows, ZeroRows, Mapping!ZeroTime, ZeroTime, Mapping!Zero, Zero,
              Mapping!NoTime, NoTime
<1>5. /\ \A i : Mapping!FileOf(i) = FileOf(i) /\ Mapping!Entry(i) = Entry(i)
      /\ \A i : Mapping!InRange(i) <=> InRange(i)
  BY <1>1 DEF Mapping!FileOf, FileOf, Mapping!Entry, Entry, Mapping!InRange, InRange
<1> QED BY <1>1, <1>2, <1>3, <1>4, <1>5

\* Each step of the processes is a step of the single loop or changes nothing it knows:
\* reading a snapshot and storing its results are, all between the two is not.
LEMMA StepMaps ==
  ASSUME MappingInv, [FixedNext]_allVars PROVE [Mapping!Next]_(Mapping!serialVars)
<1> DEFINE phase == IF stage = "fixed" THEN "done" ELSE IF Working THEN "trace" ELSE parent
<1> USE Shared
<1>1. SUFFICES Mapping!Next \/ (UNCHANGED seriesVars /\ phase' = phase)
  BY DEF Mapping!serialVars, seriesVars, input, Mapping!input
<1>2. ASSUME TracersParent PROVE Mapping!Next \/ (UNCHANGED seriesVars /\ phase' = phase)
  <2>1. stage = "tracers" /\ stage' = "tracers" /\ TracersInv
    BY <1>2 DEF TracersParent, MappingInv, fixedVars
  <2>2. CASE ReadVar
    <3>1. phase = "read" /\ phase' = "trace"
      BY <2>1, <2>2 DEF ReadVar, Prepare, Working
    <3>2. Mapping!Read
      BY <2>2, <3>1 DEF ReadVar, Mapping!Read, input, Mapping!input
    <3> QED BY <3>2 DEF Mapping!Next
  <2>3. CASE IndexError \/ Return
    <3>1. phase = "read" /\ phase' = parent'
      BY <2>1, <2>3 DEF IndexError, Return, Working
    <3>2. Mapping!Return
      BY <2>3, <3>1 DEF IndexError, Return, Mapping!Return, seriesVars, input, Mapping!input
    <3> QED BY <3>2 DEF Mapping!Next
  <2>4. CASE Collect
    BY <2>1, <2>4 DEF Collect, Get, Join, Working
  <2>5. CASE Store
    <3>1. phase = "trace" /\ phase' = "read"
      BY <2>1, <2>5 DEF Store, Working
    <3>2. Entry(t_idx) \in 0 .. nTimes - 1
      BY <2>1, <2>5, EntryInArray DEF TracersInv, EntryThere, Working, Store
    <3>3. Reassembled(x1[Entry(t_idx)]) = [s \in Seeds |-> Line(FileOf(t_idx), s)]
      BY <2>1, <2>5, StoredLines
    <3>4. x1' = [x1 EXCEPT ![Entry(t_idx)] = [s \in Seeds |-> Line(FileOf(t_idx), s)]]
      BY <2>5, <3>3, Zenon DEF Store
    <3>5. Mapping!TraceAll
      BY <2>5, <3>1, <3>4 DEF Store, Mapping!TraceAll, input, Mapping!input
    <3> QED BY <3>5 DEF Mapping!Next
  <2> QED BY <1>2, <2>2, <2>3, <2>4, <2>5 DEF TracersParent, ParentStep
<1>3. ASSUME NEW w \in Workers, TracersWork(w) PROVE UNCHANGED seriesVars /\ phase' = phase
  <2>1. /\ stage = "tracers" /\ stage' = "tracers" /\ UNCHANGED seriesVars
        /\ NoneLeft /\ Work(w)
    BY <1>3 DEF TracersWork, WorkTracers, fixedVars, MappingInv, TracersInv
  <2>2. Working /\ Working'
    BY <2>1 DEF Work, Start, Put, Die, NoneLeft, Working
  <2> QED BY <2>1, <2>2
<1>4. CASE FixedNext /\ ~TracersParent /\ ~\E w \in Workers : TracersWork(w)
  BY <1>4, FixedStage DEF Working
<1>5. CASE UNCHANGED allVars
  BY <1>5 DEF allVars, vars, forkVars, fixedVars, Working
<1> QED BY <1>2, <1>3, <1>4, <1>5

\* For every number of processes and whatever the order of their messages, the mapping
\* find_fixed gets is the one a single loop over the seeds gives.
THEOREM MappingIsSerial == FixedSpec => IsSerial
<1>1. InitFixed => Mapping!Init
  BY Shared DEF InitFixed, Init, InitFork, Mapping!Init, Working
<1>2. MappingInv /\ [FixedNext]_allVars => [Mapping!Next]_(Mapping!serialVars)
  BY StepMaps
<1> QED BY <1>1, <1>2, MappingCorrect, PTL DEF FixedSpec, IsSerial, Mapping!Spec

-----------------------------------------------------------------------------
(* Sets of numbers *)

\* A set of numbers has a smallest one.
LEMMA Smallest ==
  ASSUME NEW S \in SUBSET Nat, S # {}
  PROVE  \E n \in S : \A m \in S : n <= m
<1>1. \E n \in S : \A m \in S : ~(<<m, n>> \in OpToRel(<, Nat))
  BY NatLessThanWellFounded, WFMin
<1>2. PICK n \in S : \A m \in S : ~(<<m, n>> \in OpToRel(<, Nat))
  BY <1>1
<1>3. \A m \in S : ~(m < n)
  BY <1>2 DEF OpToRel
<1>4. \A m \in S : n <= m
  BY <1>3
<1> QED BY <1>4

\* How FlattenSeq puts sequences together.
Joining(seqs, k, g) ==
  g = [i \in 1 .. k |-> IF i = 1 THEN seqs[i] ELSE g[i - 1] \o seqs[i]]

LEMMA JoiningThere ==
  ASSUME NEW seqs, NEW k \in Nat
  PROVE  \E g : Joining(seqs, k, g)
<1> DEFINE Bad == {n \in Nat : ~\E g : Joining(seqs, n, g)}
<1> SUFFICES ASSUME Bad # {} PROVE FALSE
  OBVIOUS
<1>1. PICK n \in Bad : \A m \in Bad : n <= m
  <2>1. Bad \in SUBSET Nat
    OBVIOUS
  <2> HIDE DEF Bad
  <2> QED BY <2>1, Smallest
<1>2. n # 0
  <2>1. Joining(seqs, 0, [i \in 1 .. 0 |-> seqs[i]])
    BY DEF Joining
  <2> QED BY <2>1
<1>3. n \in Nat /\ n - 1 \in Nat /\ n - 1 \notin Bad
  BY <1>1, <1>2
<1>4. PICK g : Joining(seqs, n - 1, g)
  BY <1>3
<1> DEFINE h == [i \in 1 .. n |-> IF i < n THEN g[i] ELSE IF n = 1 THEN seqs[n] ELSE g[n - 1] \o seqs[n]]
<1>5. Joining(seqs, n, h)
  <2>1. ASSUME NEW i \in 1 .. n
        PROVE  h[i] = IF i = 1 THEN seqs[i] ELSE h[i - 1] \o seqs[i]
    <3>1. CASE i < n
      <4>1. i \in 1 .. n - 1
        BY <1>3, <3>1
      <4>2. h[i] = g[i] /\ (i # 1 => h[i - 1] = g[i - 1])
        BY <1>3, <4>1
      <4>3. g[i] = IF i = 1 THEN seqs[i] ELSE g[i - 1] \o seqs[i]
        BY <1>4, <4>1 DEF Joining
      <4> HIDE DEF h
      <4> QED BY <4>2, <4>3
    <3>2. CASE i = n
      <4>1. h[n] = IF n = 1 THEN seqs[n] ELSE g[n - 1] \o seqs[n]
        BY <1>3
      <4>2. n # 1 => h[n - 1] = g[n - 1]
        BY <1>3
      <4> HIDE DEF h
      <4> QED BY <3>2, <4>1, <4>2
    <3> QED BY <1>3, <3>1, <3>2
  <2>2. h = [i \in 1 .. n |-> h[i]]
    OBVIOUS
  <2> HIDE DEF h
  <2> QED BY <2>1, <2>2 DEF Joining
<1> QED BY <1>1, <1>5


-----------------------------------------------------------------------------
(* Sifted *)

Upto(S, p) == {m \in S : m <= p}

LEMMA UptoFinite ==
  ASSUME NEW S \in SUBSET Nat, IsFiniteSet(S), NEW p \in S
  PROVE  /\ IsFiniteSet(Upto(S, p)) /\ Cardinality(Upto(S, p)) \in 1 .. Cardinality(S)
         /\ Cardinality(S) \in Nat
<1>1. Upto(S, p) \in SUBSET S /\ p \in Upto(S, p)
  BY DEF Upto
<1>2. /\ IsFiniteSet(Upto(S, p)) /\ Cardinality(Upto(S, p)) <= Cardinality(S)
      /\ Cardinality(Upto(S, p)) \in Nat /\ Cardinality(S) \in Nat
  BY <1>1, FS_Subset, FS_CardinalityType
<1>3. Cardinality(Upto(S, p)) # 0
  BY <1>1, <1>2, FS_EmptySet
<1> QED BY <1>2, <1>3

LEMMA UptoGrows ==
  ASSUME NEW S \in SUBSET Nat, IsFiniteSet(S), NEW p \in S, NEW q \in S, p < q
  PROVE  Cardinality(Upto(S, p)) < Cardinality(Upto(S, q))
<1>0. p \in Nat /\ q \in Nat
  OBVIOUS
<1>1. /\ \A m \in Upto(S, p) : m \in Upto(S, q)
      /\ q \in Upto(S, q) /\ q \notin Upto(S, p)
  BY <1>0 DEF Upto
<1>2. Upto(S, p) \in SUBSET Upto(S, q) /\ Upto(S, p) # Upto(S, q)
  BY <1>1
<1>3. /\ IsFiniteSet(Upto(S, q)) /\ Cardinality(Upto(S, p)) \in Nat
      /\ Cardinality(Upto(S, q)) \in Nat
  BY UptoFinite
<1>4. /\ Cardinality(Upto(S, p)) <= Cardinality(Upto(S, q))
      /\ Cardinality(Upto(S, p)) # Cardinality(Upto(S, q))
  BY <1>2, <1>3, FS_Subset
<1> QED BY <1>3, <1>4

\* The elements of s at these places: every place is taken, each by one element.
LEMMA SiftedPlaces ==
  ASSUME NEW s, NEW S \in SUBSET Nat, IsFiniteSet(S)
  PROVE  \E place :
           /\ \A i \in 1 .. Cardinality(S) : place[i] \in S /\ Sifted(s, S)[i] = s[place[i]]
           /\ \A i, j \in 1 .. Cardinality(S) : place[i] = place[j] => i = j
           /\ \A p \in S : \E i \in 1 .. Cardinality(S) : place[i] = p
<1> DEFINE c == Cardinality(S)
           f == [p \in S |-> Cardinality(Upto(S, p))]
<1>1. c \in Nat /\ IsFiniteSet(1 .. c) /\ Cardinality(1 .. c) = c
  BY FS_CardinalityType, FS_Interval
<1>2. \A p, q \in S : f[p] = f[q] => p = q
  <2> SUFFICES ASSUME NEW p \in S, NEW q \in S, f[p] = f[q], p # q PROVE FALSE
    OBVIOUS
  <2>1. Cardinality(Upto(S, p)) = Cardinality(Upto(S, q)) /\ p \in Nat /\ q \in Nat
    OBVIOUS
  <2>2. Cardinality(Upto(S, p)) \in Nat /\ Cardinality(Upto(S, q)) \in Nat
    BY UptoFinite
  <2>3. p < q \/ q < p
    BY <2>1
  <2> QED BY <2>1, <2>2, <2>3, UptoGrows
<1>3. f \in Surjection(S, 1 .. c)
  <2>1. f \in [S -> 1 .. c]
    BY UptoFinite
  <2>2. f \in Injection(S, 1 .. c)
    BY <2>1, <1>2 DEF Injection, IsInjective
  <2> QED BY <1>1, <2>2, FS_Injection
<1> DEFINE place == [i \in 1 .. c |-> CHOOSE p \in S : Cardinality(Upto(S, p)) = i]
<1>4. \A i \in 1 .. c : place[i] \in S /\ f[place[i]] = i
  <2> SUFFICES ASSUME NEW i \in 1 .. c PROVE place[i] \in S /\ Cardinality(Upto(S, place[i])) = i
    OBVIOUS
  <2>1. \E p \in S : f[p] = i
    BY <1>3 DEF Surjection
  <2>2. \E p \in S : Cardinality(Upto(S, p)) = i
    BY <2>1
  <2> QED BY <2>2
<1>5. \A p \in S : f[p] \in 1 .. c /\ place[f[p]] = p
  <2> TAKE p \in S
  <2>1. f[p] \in 1 .. c
    BY <1>3 DEF Surjection
  <2>2. place[f[p]] \in S /\ f[place[f[p]]] = f[p]
    BY <1>4, <2>1
  <2> HIDE DEF place, f
  <2> QED BY <1>2, <2>1, <2>2
<1>6. \A i \in 1 .. c : Sifted(s, S)[i] = s[place[i]]
  <2> TAKE i \in 1 .. c
  <2>1. place[i] = CHOOSE n \in S : Cardinality({m \in S : m <= n}) = i
    BY DEF Upto
  <2>2. Sifted(s, S) = [k \in 1 .. c |-> s[CHOOSE n \in S : Cardinality({m \in S : m <= n}) = k]]
    BY DEF Sifted
  <2>3. Sifted(s, S)[i] = s[CHOOSE n \in S : Cardinality({m \in S : m <= n}) = i]
    <3> HIDE DEF place, c, f
    <3> QED BY <2>2
  <2> QED BY <2>1, <2>3
<1>7. \A i, j \in 1 .. c : place[i] = place[j] => i = j
  <2> HIDE DEF place, f
  <2> QED BY <1>4
<1> HIDE DEF place, f
<1> QED BY <1>4, <1>5, <1>6, <1>7

LEMMA SiftedIsSeq ==
  ASSUME NEW T, NEW s, NEW S \in SUBSET Nat, IsFiniteSet(S), \A p \in S : s[p] \in T
  PROVE  Sifted(s, S) \in Seq(T) /\ Len(Sifted(s, S)) = Cardinality(S)
<1>1. Cardinality(S) \in Nat
  BY FS_CardinalityType
<1>2. \A i \in 1 .. Cardinality(S) : Sifted(s, S)[i] \in T
  BY SiftedPlaces
<1>3. Sifted(s, S) = [i \in 1 .. Cardinality(S) |-> Sifted(s, S)[i]]
  BY DEF Sifted
<1>4. Sifted(s, S) \in [1 .. Cardinality(S) -> T]
  <2> DEFINE z == Sifted(s, S)
  <2> HIDE DEF z
  <2> QED BY <1>2, <1>3 DEF z
<1> QED BY <1>1, <1>4

\* Two points that are kept are apart.
LEMMA DiscardedApart ==
  ASSUME NEW T, NEW points \in Seq(T)
  PROVE  /\ Len(DiscardClose(points)) \in Nat
         /\ \A i, j \in 1 .. Len(DiscardClose(points)) :
              i # j => Apart(DiscardClose(points)[i], DiscardClose(points)[j])
<1> DEFINE S == {i \in 1 .. Len(points) : \A j \in 1 .. i - 1 : Apart(points[i], points[j])}
<1>1. Len(points) \in Nat /\ \A i \in 1 .. Len(points) : points[i] \in T
  OBVIOUS
<1>2. S \in SUBSET (1 .. Len(points)) /\ IsFiniteSet(1 .. Len(points))
  BY <1>1, FS_Interval
<1>3. IsFiniteSet(S) /\ S \in SUBSET Nat
  <2> HIDE DEF S
  <2>1. IsFiniteSet(S)
    BY <1>2, FS_Subset
  <2>2. S \in SUBSET Nat
    BY <1>1, <1>2
  <2> QED BY <2>1, <2>2
<1>4. DiscardClose(points) = Sifted(points, S)
  BY DEF DiscardClose
<1>5. \A p, q \in S : p # q => Apart(points[p], points[q])
  <2> SUFFICES ASSUME NEW p \in S, NEW q \in S, p # q PROVE Apart(points[p], points[q])
    OBVIOUS
  <2>1. p < q \/ q < p
    BY <1>1, <1>2
  <2>2. CASE p < q
    <3>1. Apart(points[q], points[p])
      BY <1>1, <2>2
    <3> QED BY <3>1 DEF Apart
  <2>3. CASE q < p
    BY <1>1, <2>3
  <2> QED BY <2>1, <2>2, <2>3
<1> HIDE DEF S
<1>6. Len(DiscardClose(points)) = Cardinality(S) /\ Cardinality(S) \in Nat
  <2>1. \A p \in S : points[p] \in T
    BY <1>1, <1>2
  <2> QED BY <1>3, <1>4, <2>1, SiftedIsSeq, FS_CardinalityType
<1>7. \A i, j \in 1 .. Cardinality(S) :
        i # j => Apart(Sifted(points, S)[i], Sifted(points, S)[j])
  <2>1. PICK place :
           /\ \A i \in 1 .. Cardinality(S) : place[i] \in S /\ Sifted(points, S)[i] = points[place[i]]
           /\ \A i, j \in 1 .. Cardinality(S) : place[i] = place[j] => i = j
    BY <1>3, SiftedPlaces, SMTT(20)
  <2> QED BY <1>5, <2>1
<1> QED BY <1>4, <1>6, <1>7

-----------------------------------------------------------------------------
(* FlattenSeq *)

\* The sequence flat is seqs[1] .. seqs[k] one behind the other, at any rate up to the order:
\* element at[i][2] of sequence at[i][1] is in place i, and each is in one place.
Holds(seqs, k, flat, at) ==
  /\ \A i \in 1 .. Len(flat) :
       /\ at[i][1] \in 1 .. k /\ at[i][2] \in 1 .. Len(seqs[at[i][1]])
       /\ at[i] = <<at[i][1], at[i][2]>>
       /\ flat[i] = seqs[at[i][1]][at[i][2]]
  /\ \A i, j \in 1 .. Len(flat) : at[i] = at[j] => i = j
  /\ \A a \in 1 .. k : \A b \in 1 .. Len(seqs[a]) : \E i \in 1 .. Len(flat) : at[i] = <<a, b>>

LEMMA HoldsOne ==
  ASSUME NEW S, NEW seqs, seqs[1] \in Seq(S)
  PROVE  \E at : Holds(seqs, 1, seqs[1], at)
<1> DEFINE l == Len(seqs[1])
           at == [i \in 1 .. l |-> <<1, i>>]
<1>1. \A i \in 1 .. l : at[i] = <<1, i>>
  OBVIOUS
<1>2. l = Len(seqs[1])
  OBVIOUS
<1> HIDE DEF at, l
<1>3. \A i \in 1 .. l : at[i][1] = 1 /\ at[i][2] = i
  BY <1>1
<1>4. \A i, j \in 1 .. l : at[i] = at[j] => i = j
  BY <1>3
<1>5. \A a \in 1 .. 1 : \A b \in 1 .. Len(seqs[a]) : \E i \in 1 .. l : at[i] = <<a, b>>
  <2> SUFFICES ASSUME NEW a \in 1 .. 1, NEW b \in 1 .. Len(seqs[a])
               PROVE  \E i \in 1 .. l : at[i] = <<a, b>>
    OBVIOUS
  <2>1. a = 1
    OBVIOUS
  <2>2. b \in 1 .. l
    BY <1>2, <2>1
  <2>3. at[b] = <<a, b>>
    BY <1>1, <2>1, <2>2
  <2> QED BY <2>2, <2>3
<1>6. 1 \in 1 .. 1
  OBVIOUS
<1>7. Holds(seqs, 1, seqs[1], at)
  BY <1>1, <1>2, <1>3, <1>4, <1>5, <1>6 DEF Holds
<1> QED BY <1>7

LEMMA HoldsMore ==
  ASSUME NEW S, NEW seqs, NEW k \in Nat, NEW flat \in Seq(S), seqs[k + 1] \in Seq(S),
         NEW at, Holds(seqs, k, flat, at)
  PROVE  \E more : Holds(seqs, k + 1, flat \o seqs[k + 1], more)
<1> DEFINE l == Len(flat)
           m == Len(seqs[k + 1])
           more == [i \in 1 .. l + m |-> IF i <= l THEN at[i] ELSE <<k + 1, i - l>>]
           new == flat \o seqs[k + 1]
<1>1. /\ l \in Nat /\ m \in Nat /\ Len(new) = l + m
      /\ \A i \in 1 .. l : new[i] = flat[i]
      /\ \A i \in 1 .. l + m : i > l => i - l \in 1 .. m /\ new[i] = seqs[k + 1][i - l]
  OBVIOUS
<1>2. /\ \A i \in 1 .. l + m : i <= l => more[i] = at[i]
      /\ \A i \in 1 .. l + m : i > l => more[i] = <<k + 1, i - l>>
  BY <1>1
<1> HIDE DEF more, new
<1>a. \A i \in 1 .. l :
       /\ at[i][1] \in 1 .. k /\ at[i][2] \in 1 .. Len(seqs[at[i][1]])
       /\ at[i] = <<at[i][1], at[i][2]>>
       /\ flat[i] = seqs[at[i][1]][at[i][2]]
  BY DEF Holds
<1>b. \A i, j \in 1 .. l : at[i] = at[j] => i = j
  BY DEF Holds
<1>c. \A a \in 1 .. k : \A b \in 1 .. Len(seqs[a]) : \E i \in 1 .. l : at[i] = <<a, b>>
  BY DEF Holds
<1>d. m = Len(seqs[k + 1])
  OBVIOUS
<1> HIDE DEF l, m
<1>3. ASSUME NEW i \in 1 .. l + m
      PROVE  /\ more[i][1] \in 1 .. k + 1 /\ more[i][2] \in 1 .. Len(seqs[more[i][1]])
             /\ more[i] = <<more[i][1], more[i][2]>>
             /\ new[i] = seqs[more[i][1]][more[i][2]]
  <2>1. CASE i <= l
    <3>1. i \in 1 .. l /\ more[i] = at[i] /\ new[i] = flat[i]
      BY <1>1, <1>2, <2>1
    <3> QED BY <1>a, <3>1
  <2>2. CASE i > l
    <3>1. more[i] = <<k + 1, i - l>> /\ i - l \in 1 .. m /\ new[i] = seqs[k + 1][i - l]
      BY <1>1, <1>2, <2>2
    <3>2. more[i][1] = k + 1 /\ more[i][2] = i - l
      BY <3>1
    <3> QED BY <1>d, <3>1, <3>2
  <2> QED BY <1>1, <2>1, <2>2
<1>4. ASSUME NEW i \in 1 .. l + m, NEW j \in 1 .. l + m, more[i] = more[j] PROVE i = j
  <2>1. CASE i <= l /\ j <= l
    <3>1. i \in 1 .. l /\ j \in 1 .. l /\ more[i] = at[i] /\ more[j] = at[j]
      BY <1>1, <1>2, <2>1
    <3> QED BY <1>4, <1>b, <3>1
  <2>2. CASE i > l /\ j > l
    <3>1. more[i] = <<k + 1, i - l>> /\ more[j] = <<k + 1, j - l>>
      BY <1>2, <2>2
    <3>2. i - l = j - l
      <4>1. more[i][2] = i - l /\ more[j][2] = j - l
        BY <3>1
      <4> QED BY <1>4, <4>1
    <3> QED BY <1>1, <3>2
  <2>3. ASSUME NEW a \in 1 .. l + m, NEW b \in 1 .. l + m, a <= l, b > l PROVE more[a] # more[b]
    <3>1. a \in 1 .. l /\ more[a] = at[a] /\ more[b] = <<k + 1, b - l>>
      BY <1>1, <1>2, <2>3
    <3>2. more[a][1] \in 1 .. k /\ more[b][1] = k + 1
      BY <1>a, <3>1
    <3> QED BY <3>2
  <2>4. i \in Int /\ j \in Int /\ l \in Int
    BY <1>1
  <2>5. CASE i <= l /\ j > l
    BY <1>4, <2>3, <2>5
  <2>6. CASE i > l /\ j <= l
    BY <1>4, <2>3, <2>6
  <2> QED BY <2>1, <2>2, <2>4, <2>5, <2>6
<1>5. ASSUME NEW a \in 1 .. k + 1, NEW b \in 1 .. Len(seqs[a])
      PROVE  \E i \in 1 .. l + m : more[i] = <<a, b>>
  <2>1. CASE a = k + 1
    <3>1. b \in 1 .. m /\ l + b \in 1 .. l + m /\ l + b > l /\ (l + b) - l = b
      BY <1>1, <1>d, <2>1
    <3>2. more[l + b] = <<a, b>>
      BY <1>2, <2>1, <3>1
    <3> QED BY <3>1, <3>2
  <2>2. CASE a \in 1 .. k
    <3>1. PICK i \in 1 .. l : at[i] = <<a, b>>
      BY <1>c, <2>2
    <3>2. i \in 1 .. l + m /\ i <= l
      BY <1>1
    <3> QED BY <1>2, <3>1, <3>2
  <2> QED BY <2>1, <2>2
<1>6. Holds(seqs, k + 1, new, more)
  <2>1. Len(new) = l + m
    BY <1>1
  <2>2. /\ \A i, j \in 1 .. Len(new) : more[i] = more[j] => i = j
        /\ \A a \in 1 .. k + 1 : \A b \in 1 .. Len(seqs[a]) :
             \E i \in 1 .. Len(new) : more[i] = <<a, b>>
    BY <2>1, <1>4, <1>5, Zenon
  <2>3. \A i \in 1 .. Len(new) :
          /\ more[i][1] \in 1 .. k + 1 /\ more[i][2] \in 1 .. Len(seqs[more[i][1]])
          /\ more[i] = <<more[i][1], more[i][2]>>
          /\ new[i] = seqs[more[i][1]][more[i][2]]
    BY <2>1, <1>3, Zenon
  <2> QED BY <2>2, <2>3, Zenon DEF Holds
<1> QED BY <1>6 DEF new

LEMMA FlattenHolds ==
  ASSUME NEW S, NEW seqs, Len(seqs) \in Nat \ {0}, \A i \in 1 .. Len(seqs) : seqs[i] \in Seq(S)
  PROVE  FlattenSeq(seqs) \in Seq(S) /\ \E at : Holds(seqs, Len(seqs), FlattenSeq(seqs), at)
<1> DEFINE n == Len(seqs)
<1>1. PICK g : Joining(seqs, n, g) /\ FlattenSeq(seqs) = g[n]
  <2> DEFINE G == CHOOSE g : g = [i \in 1 .. n |-> IF i = 1 THEN seqs[i] ELSE g[i - 1] \o seqs[i]]
  <2>1. \E g : Joining(seqs, n, g)
    BY JoiningThere
  <2>2. Joining(seqs, n, G)
    BY <2>1 DEF Joining
  <2>3. FlattenSeq(seqs) = G[n]
    BY DEF FlattenSeq
  <2> QED BY <2>2, <2>3
<1>0. n \in Nat \ {0} /\ \A i \in 1 .. n : seqs[i] \in Seq(S)
  OBVIOUS
<1> HIDE DEF n
<1> DEFINE Good(k) == g[k] \in Seq(S) /\ \E at : Holds(seqs, k, g[k], at)
           Bad == {k \in 1 .. n : ~Good(k)}
<1>2. Bad = {}
  <2> SUFFICES ASSUME Bad # {} PROVE FALSE
    OBVIOUS
  <2>1. PICK k \in Bad : \A m \in Bad : k <= m
    <3>1. Bad \in SUBSET Nat
      BY <1>0
    <3> HIDE DEF Bad
    <3> QED BY <3>1, Smallest
  <2>2. k \in 1 .. n /\ ~Good(k)
    OBVIOUS
  <2>3. g[k] = IF k = 1 THEN seqs[k] ELSE g[k - 1] \o seqs[k]
    BY <1>1, <2>2 DEF Joining
  <2>4. seqs[k] \in Seq(S) /\ k \in Nat
    BY <1>0, <2>2
  <2>5. CASE k = 1
    <3>1. g[1] = seqs[1] /\ seqs[1] \in Seq(S)
      BY <2>3, <2>4, <2>5
    <3>2. Good(1)
      BY <3>1, HoldsOne
    <3> HIDE DEF Good
    <3> QED BY <2>2, <2>5, <3>2
  <2>6. CASE k # 1
    <3>1. k - 1 \in 1 .. n /\ ~(k <= k - 1) /\ k - 1 \in Nat /\ (k - 1) + 1 = k
      BY <1>0, <2>2, <2>6
    <3>2. Good(k - 1)
      <4>1. k - 1 \notin Bad
        BY <2>1, <3>1
      <4> HIDE DEF Good
      <4> QED BY <3>1, <4>1
    <3>3. PICK at : Holds(seqs, k - 1, g[k - 1], at)
      BY <3>2
    <3>4. g[k] = g[k - 1] \o seqs[k] /\ g[k - 1] \in Seq(S)
      BY <2>3, <2>6, <3>2
    <3>5. \E more : Holds(seqs, (k - 1) + 1, g[k - 1] \o seqs[(k - 1) + 1], more)
      <4> DEFINE j == k - 1
      <4> HIDE DEF j
      <4>1. j \in Nat /\ g[j] \in Seq(S) /\ seqs[j + 1] \in Seq(S) /\ Holds(seqs, j, g[j], at)
        BY <2>4, <3>1, <3>3, <3>4 DEF j
      <4>2. \E more : Holds(seqs, j + 1, g[j] \o seqs[j + 1], more)
        BY <4>1, HoldsMore
      <4> QED BY <4>2 DEF j
    <3>6. \E more : Holds(seqs, k, g[k], more)
      BY <3>1, <3>4, <3>5
    <3>7. g[k] \in Seq(S)
      BY <2>4, <3>4
    <3> QED BY <2>2, <3>6, <3>7
  <2> QED BY <2>5, <2>6
<1>3. n \in 1 .. n
  BY <1>0
<1>4. Good(n)
  <2> HIDE DEF Good
  <2> QED BY <1>2, <1>3
<1> QED BY <1>1, <1>4 DEF n

-----------------------------------------------------------------------------
(* Sums *)

\* How MapThenFoldSet sums h over the subsets of S, in the order of its choices.
Summing(h, S, g) ==
  g = [T \in SUBSET S |->
         IF T = {} THEN 0
         ELSE h[CHOOSE x \in T : TRUE] + g[T \ {CHOOSE x \in T : TRUE}]]

LEMMA OneLess ==
  ASSUME NEW T, IsFiniteSet(T), NEW x \in T
  PROVE  /\ IsFiniteSet(T \ {x}) /\ Cardinality(T) \in Nat /\ Cardinality(T \ {x}) \in Nat
         /\ Cardinality(T \ {x}) = Cardinality(T) - 1 /\ T \ {x} \in SUBSET T
BY FS_RemoveElement, FS_CardinalityType, FS_Subset

LEMMA SummingThere ==
  ASSUME NEW h, NEW S, IsFiniteSet(S)
  PROVE  \E g : Summing(h, S, g)
<1> DEFINE Few(n) == {T \in SUBSET S : Cardinality(T) <= n}
           Sum(n, g) == g = [T \in Few(n) |->
                               IF T = {} THEN 0
                               ELSE h[CHOOSE x \in T : TRUE] + g[T \ {CHOOSE x \in T : TRUE}]]
           Bad == {n \in Nat : ~\E g : Sum(n, g)}
<1>1. \A T \in SUBSET S : IsFiniteSet(T) /\ Cardinality(T) \in Nat
  BY FS_Subset, FS_CardinalityType
<1>2. Bad = {}
  <2> SUFFICES ASSUME Bad # {} PROVE FALSE
    OBVIOUS
  <2>1. PICK n \in Bad : \A m \in Bad : n <= m
    <3>1. Bad \in SUBSET Nat
      OBVIOUS
    <3> HIDE DEF Bad
    <3> QED BY <3>1, Smallest
  <2>2. n \in Nat /\ ~\E g : Sum(n, g)
    OBVIOUS
  <2>3. n # 0
    <3> DEFINE g0 == [T \in Few(0) |-> 0]
    <3>1. \A T \in Few(0) : T = {}
      BY <1>1, FS_EmptySet
    <3>2. Sum(0, g0)
      BY <3>1
    <3> HIDE DEF Sum
    <3> QED BY <2>2, <3>2
  <2>4. n - 1 \in Nat /\ n - 1 \notin Bad
    <3>1. n - 1 \in Nat /\ ~(n <= n - 1)
      BY <2>2, <2>3
    <3> HIDE DEF Bad
    <3> QED BY <2>1, <3>1
  <2>5. PICK g : Sum(n - 1, g)
    <3> HIDE DEF Sum
    <3> QED BY <2>4
  <2> DEFINE more == [T \in Few(n) |->
                        IF T = {} THEN 0
                        ELSE h[CHOOSE x \in T : TRUE] + g[T \ {CHOOSE x \in T : TRUE}]]
  <2>6. \A T \in Few(n - 1) : T \in Few(n) /\ more[T] = g[T]
    <3> TAKE T \in Few(n - 1)
    <3>1. T \in Few(n)
      BY <1>1, <2>2
    <3>2. more[T] = IF T = {} THEN 0
                    ELSE h[CHOOSE x \in T : TRUE] + g[T \ {CHOOSE x \in T : TRUE}]
      BY <3>1
    <3>3. g[T] = IF T = {} THEN 0
                 ELSE h[CHOOSE x \in T : TRUE] + g[T \ {CHOOSE x \in T : TRUE}]
      BY <2>5
    <3> HIDE DEF more, Sum, Few
    <3> QED BY <3>1, <3>2, <3>3
  <2>7. ASSUME NEW T \in Few(n), T # {}
        PROVE  g[T \ {CHOOSE x \in T : TRUE}] = more[T \ {CHOOSE x \in T : TRUE}]
    <3> DEFINE y == CHOOSE x \in T : TRUE
    <3>1. y \in T
      BY <2>7
    <3> HIDE DEF y
    <3>2. T \ {y} \in Few(n - 1)
      BY <1>1, <2>2, <3>1, OneLess
    <3>3. g[T \ {y}] = more[T \ {y}]
      <4> HIDE DEF more, Sum, Few
      <4> QED BY <2>6, <3>2
    <3> QED BY <3>3 DEF y
  <2>8. Sum(n, more)
    <3> DEFINE a(T) == g[T \ {CHOOSE x \in T : TRUE}]
               b(T) == more[T \ {CHOOSE x \in T : TRUE}]
    <3>1. \A T \in Few(n) : T # {} => a(T) = b(T)
      BY <2>7
    <3>2. more = [T \in Few(n) |-> IF T = {} THEN 0 ELSE h[CHOOSE x \in T : TRUE] + a(T)]
      OBVIOUS
    <3>3. more = [T \in Few(n) |-> IF T = {} THEN 0 ELSE h[CHOOSE x \in T : TRUE] + b(T)]
      <4> HIDE DEF a, b, more, Few
      <4> QED BY <3>1, <3>2
    <3> HIDE DEF more
    <3> QED BY <3>3
  <2> HIDE DEF Sum
  <2> QED BY <2>2, <2>8
<1>3. PICK g : Sum(Cardinality(S), g)
  <2>1. Cardinality(S) \in Nat
    BY FS_CardinalityType
  <2> HIDE DEF Sum
  <2> QED BY <1>2, <2>1
<1>4. Few(Cardinality(S)) = SUBSET S
  BY FS_Subset
<1>5. Summing(h, S, g)
  BY <1>3, <1>4 DEF Summing
<1> QED BY <1>5

Additive(h, S, g) ==
  /\ g[{}] = 0
  /\ \A T \in SUBSET S : g[T] \in Int /\ \A x \in T : g[T] = h[x] + g[T \ {x}]

\* It does not matter which element is chosen first.
LEMMA AnyOrder ==
  ASSUME NEW S, IsFiniteSet(S), NEW h \in [S -> Int], NEW g, Summing(h, S, g)
  PROVE  Additive(h, S, g)
<1> DEFINE Right(T) == g[T] \in Int /\ \A x \in T : g[T] = h[x] + g[T \ {x}]
           Bad == {n \in Nat : \E T \in SUBSET S : Cardinality(T) = n /\ ~Right(T)}
<1>1. \A T \in SUBSET S : IsFiniteSet(T) /\ Cardinality(T) \in Nat
  BY FS_Subset, FS_CardinalityType
<1>2. g[{}] = 0
  BY DEF Summing
<1>3. \A T \in SUBSET S : T # {} => \E y \in T : g[T] = h[y] + g[T \ {y}]
  <2> TAKE T \in SUBSET S
  <2> HAVE T # {}
  <2> DEFINE y == CHOOSE x \in T : TRUE
  <2>1. y \in T
    OBVIOUS
  <2>2. g[T] = h[y] + g[T \ {y}]
    BY DEF Summing
  <2> HIDE DEF y
  <2> QED BY <2>1, <2>2
<1>4. Bad = {}
  <2> SUFFICES ASSUME Bad # {} PROVE FALSE
    OBVIOUS
  <2>1. PICK n \in Bad : \A m \in Bad : n <= m
    <3>1. Bad \in SUBSET Nat
      OBVIOUS
    <3> HIDE DEF Bad
    <3> QED BY <3>1, Smallest
  <2>2. n \in Nat
    OBVIOUS
  <2>3. PICK T \in SUBSET S : Cardinality(T) = n /\ ~Right(T)
    OBVIOUS
  <2>4. \A U \in SUBSET S : Cardinality(U) < n => Right(U)
    <3> TAKE U \in SUBSET S
    <3> HAVE Cardinality(U) < n
    <3>1. Cardinality(U) \in Nat /\ ~(n <= Cardinality(U))
      BY <1>1, <2>2
    <3>2. Cardinality(U) \notin Bad
      <4> HIDE DEF Bad
      <4> QED BY <2>1, <3>1
    <3> HIDE DEF Right
    <3> QED BY <3>1, <3>2
  <2> HIDE DEF Bad
  <2>5. T # {}
    BY <1>2, <2>3
  <2>6. PICK y \in T : g[T] = h[y] + g[T \ {y}]
    BY <1>3, <2>5
  <2>7. \A x \in T : Right(T \ {x})
    <3> TAKE x \in T
    <3>1. Cardinality(T \ {x}) < n /\ T \ {x} \in SUBSET S
      BY <1>1, <2>2, <2>3, OneLess
    <3> HIDE DEF Right
    <3> QED BY <2>4, <3>1
  <2>8. \A x \in T : h[x] \in Int
    OBVIOUS
  <2>a. \A x \in T : g[T \ {x}] \in Int /\ \A z \in T \ {x} : g[T \ {x}] = h[z] + g[(T \ {x}) \ {z}]
    BY <2>7
  <2> HIDE DEF Right
  <2>9. g[T] \in Int
    <3>1. g[T \ {y}] \in Int /\ h[y] \in Int
      BY <2>8, <2>a
    <3> QED BY <2>6, <3>1
  <2>10. ASSUME NEW x \in T PROVE g[T] = h[x] + g[T \ {x}]
    <3>1. CASE x = y
      BY <2>6, <3>1
    <3>2. CASE x # y
      <4>1. g[T \ {y}] = h[x] + g[(T \ {y}) \ {x}]
        BY <2>a, <3>2
      <4>2. g[T \ {x}] = h[y] + g[(T \ {x}) \ {y}]
        BY <2>a, <3>2
      <4>3. (T \ {y}) \ {x} = (T \ {x}) \ {y}
        OBVIOUS
      <4>4. g[(T \ {x}) \ {y}] \in Int
        <5>1. x \in T \ {y}
          BY <3>2
        <5>2. Cardinality((T \ {y}) \ {x}) < n /\ (T \ {y}) \ {x} \in SUBSET S
          <6>1. IsFiniteSet(T \ {y}) /\ Cardinality(T \ {y}) = n - 1
            BY <1>1, <2>3, OneLess
          <6>2. Cardinality((T \ {y}) \ {x}) = (n - 1) - 1
            BY <5>1, <6>1, OneLess
          <6> QED BY <2>2, <6>2
        <5>3. Right((T \ {y}) \ {x})
          BY <2>4, <5>2
        <5> QED BY <4>3, <5>3 DEF Right
      <4>5. h[x] \in Int /\ h[y] \in Int
        BY <2>8
      <4> DEFINE r == g[(T \ {x}) \ {y}]
                 p == g[T \ {y}]
                 q == g[T \ {x}]
      <4>6. r \in Int /\ p = h[x] + r /\ q = h[y] + r /\ g[T] = h[y] + p
        BY <2>6, <4>1, <4>2, <4>3, <4>4
      <4>7. g[T] = h[x] + q
        <5> HIDE DEF r, p, q
        <5> QED BY <4>5, <4>6
      <4> QED BY <4>7
    <3> QED BY <3>1, <3>2
  <2> QED BY <2>3, <2>9, <2>10 DEF Right
<1>5. \A T \in SUBSET S : Right(T)
  <2> HIDE DEF Right
  <2> QED BY <1>1, <1>4
<1> QED BY <1>2, <1>5 DEF Additive

Moves(h, S, to, k, Q) ==
  /\ to \in [S -> Q] /\ \A x \in S : k[to[x]] = h[x]
  /\ \A x, y \in S : to[x] = to[y] => x = y
  /\ \A y \in Q : \E x \in S : to[x] = y

\* The same summands have the same sum.
LEMMA SameSum ==
  ASSUME NEW S, IsFiniteSet(S), NEW h \in [S -> Int], NEW g, Summing(h, S, g),
         NEW Q, IsFiniteSet(Q), NEW k \in [Q -> Int], NEW f, Summing(k, Q, f),
         NEW to, Moves(h, S, to, k, Q)
  PROVE  g[S] = f[Q]
<1>0. /\ to \in [S -> Q] /\ \A x \in S : k[to[x]] = h[x]
      /\ \A x, y \in S : to[x] = to[y] => x = y
      /\ \A y \in Q : \E x \in S : to[x] = y
  BY DEF Moves
<1> DEFINE Im(T) == {to[x] : x \in T}
           Right(T) == g[T] = f[Im(T)]
           Bad == {n \in Nat : \E T \in SUBSET S : Cardinality(T) = n /\ ~Right(T)}
<1>1. \A T \in SUBSET S : IsFiniteSet(T) /\ Cardinality(T) \in Nat
  BY FS_Subset, FS_CardinalityType
<1>2. /\ g[{}] = 0 /\ f[{}] = 0
      /\ \A T \in SUBSET S : \A x \in T : g[T] = h[x] + g[T \ {x}]
      /\ \A T \in SUBSET Q : \A x \in T : f[T] = k[x] + f[T \ {x}]
  <2>1. Additive(h, S, g) /\ Additive(k, Q, f)
    BY AnyOrder
  <2> QED BY <2>1 DEF Additive
<1>3. Bad = {}
  <2> SUFFICES ASSUME Bad # {} PROVE FALSE
    OBVIOUS
  <2>1. PICK n \in Bad : \A m \in Bad : n <= m
    <3>1. Bad \in SUBSET Nat
      OBVIOUS
    <3> HIDE DEF Bad
    <3> QED BY <3>1, Smallest
  <2>2. n \in Nat
    OBVIOUS
  <2>3. PICK T \in SUBSET S : Cardinality(T) = n /\ ~Right(T)
    OBVIOUS
  <2>4. T # {}
    <3> SUFFICES ASSUME T = {} PROVE FALSE
      OBVIOUS
    <3>1. Im(T) = {}
      OBVIOUS
    <3> QED BY <1>2, <2>3, <3>1
  <2>5. PICK x \in T : TRUE
    BY <2>4
  <2>6. /\ T \ {x} \in SUBSET S /\ Cardinality(T \ {x}) \in Nat
        /\ ~(n <= Cardinality(T \ {x}))
    BY <1>1, <2>2, <2>3, OneLess
  <2>7. Right(T \ {x})
    <3>1. Cardinality(T \ {x}) \notin Bad
      <4> HIDE DEF Bad
      <4> QED BY <2>1, <2>6
    <3> HIDE DEF Right
    <3> QED BY <2>6, <3>1
  <2>8. Im(T) \in SUBSET Q /\ to[x] \in Im(T) /\ Im(T \ {x}) = Im(T) \ {to[x]}
    BY <1>0
  <2> HIDE DEF Im, Bad
  <2>9. g[T] = h[x] + g[T \ {x}] /\ f[Im(T)] = k[to[x]] + f[Im(T) \ {to[x]}]
    BY <1>2, <2>8
  <2> QED BY <1>0, <2>3, <2>7, <2>8, <2>9
<1>4. Right(S)
  <2> HIDE DEF Right
  <2> QED BY <1>1, <1>3
<1>5. Im(S) = Q
  BY <1>0
<1> QED BY <1>4, <1>5

\* The sum of the signs of a sequence of points, and that of a set of them.
LEMMA FoldSums ==
  ASSUME NEW T, NEW points \in Seq(T)
  PROVE  \E g : /\ Summing([i \in 1 .. Len(points) |-> points[i].sign], 1 .. Len(points), g)
                /\ FoldSeq(LAMBDA p, n : p.sign + n, 0, points) = g[1 .. Len(points)]
<1> DEFINE S == 1 .. Len(points)
           h == [i \in S |-> points[i].sign]
           G == CHOOSE g : g = [U \in SUBSET S |->
                                  IF U = {} THEN 0
                                  ELSE points[CHOOSE x \in U : TRUE].sign
                                         + g[U \ {CHOOSE x \in U : TRUE}]]
<1>1. IsFiniteSet(S)
  BY FS_Interval
<1>2. ASSUME NEW g
      PROVE  Summing(h, S, g) <=>
               g = [U \in SUBSET S |->
                      IF U = {} THEN 0
                      ELSE points[CHOOSE x \in U : TRUE].sign + g[U \ {CHOOSE x \in U : TRUE}]]
  <2> DEFINE a(U) == h[CHOOSE x \in U : TRUE]
             b(U) == points[CHOOSE x \in U : TRUE].sign
  <2>1. ASSUME NEW U \in SUBSET S, U # {} PROVE a(U) = b(U)
    <3>1. (CHOOSE x \in U : TRUE) \in S
      BY <2>1
    <3> QED BY <3>1
  <2>2. [U \in SUBSET S |-> IF U = {} THEN 0 ELSE a(U) + g[U \ {CHOOSE x \in U : TRUE}]]
          = [U \in SUBSET S |-> IF U = {} THEN 0 ELSE b(U) + g[U \ {CHOOSE x \in U : TRUE}]]
    <3> HIDE DEF a, b, S
    <3> QED BY <2>1
  <2> QED BY <2>2 DEF Summing
<1>3. \E g : Summing(h, S, g)
  BY <1>1, SummingThere
<1>4. Summing(h, S, G)
  <2> HIDE DEF h, S
  <2> QED BY <1>2, <1>3, ZenonT(40)
<1>5. FoldSeq(LAMBDA p, n : p.sign + n, 0, points) = G[S]
  <2>1. DOMAIN points = S
    OBVIOUS
  <2> QED BY <2>1 DEF FoldSeq, FoldFunction, FoldFunctionOnSet, MapThenFoldSet
<1> HIDE DEF G
<1> QED BY <1>4, <1>5

LEMMA SetSums ==
  ASSUME NEW S, IsFiniteSet(S)
  PROVE  \E g : /\ Summing([p \in S |-> p.sign], S, g)
                /\ MapThenSumSet(LAMBDA p : p.sign, S) = g[S]
<1> DEFINE h == [p \in S |-> p.sign]
           G == CHOOSE g : g = [U \in SUBSET S |->
                                  IF U = {} THEN 0
                                  ELSE (CHOOSE x \in U : TRUE).sign
                                         + g[U \ {CHOOSE x \in U : TRUE}]]
<1>2. ASSUME NEW g
      PROVE  Summing(h, S, g) <=>
               g = [U \in SUBSET S |->
                      IF U = {} THEN 0
                      ELSE (CHOOSE x \in U : TRUE).sign + g[U \ {CHOOSE x \in U : TRUE}]]
  <2> DEFINE a(U) == h[CHOOSE x \in U : TRUE]
             b(U) == (CHOOSE x \in U : TRUE).sign
  <2>1. ASSUME NEW U \in SUBSET S, U # {} PROVE a(U) = b(U)
    <3>1. (CHOOSE x \in U : TRUE) \in S
      BY <2>1
    <3> QED BY <3>1
  <2>2. [U \in SUBSET S |-> IF U = {} THEN 0 ELSE a(U) + g[U \ {CHOOSE x \in U : TRUE}]]
          = [U \in SUBSET S |-> IF U = {} THEN 0 ELSE b(U) + g[U \ {CHOOSE x \in U : TRUE}]]
    <3> HIDE DEF a, b
    <3> QED BY <2>1
  <2> QED BY <2>2 DEF Summing
<1>3. \E g : Summing(h, S, g)
  BY SummingThere
<1>4. Summing(h, S, G)
  <2> HIDE DEF h
  <2> QED BY <1>2, <1>3, ZenonT(40)
<1>5. MapThenSumSet(LAMBDA p : p.sign, S) = G[S]
  BY DEF MapThenSumSet, MapThenFoldSet
<1> HIDE DEF G
<1> QED BY <1>4, <1>5

-----------------------------------------------------------------------------
(* find_fixed *)

\* The calls for which the mapping has, entry by entry, the lines of the snapshots the fields
\* are read from: find_tracers of pencilnew goes from ti to tf, whether or not there is a series.
Fitting == \A in \in Inputs : in[3] \/ in[1] <= in[2]

\* The files of these calls, and what is to be found in them: each cell has a point of its own.
Files == {-1} \cup UNION {0 .. in[2] : in \in {i \in Inputs : i[1] = 0}}
CellsNamed == \A f \in Files, c \in Cells : CellOf[f][c].cell = c /\ CellOf[f][c].sign \in Int

\* In find_tracers: the snapshots before t_idx have been traced, unless it works on their entry.
Lines(i) == [s \in Seeds |-> Line(FileOf(i), s)]
Traced ==
  /\ \A i \in FirstIdx .. t_idx - 1 :
       /\ InRange(i)
       /\ \/ Working /\ Entry(i) = Entry(t_idx)
          \/ x1[Entry(i)] = Lines(i)
  /\ parent = "done" => t_idx > LastIdx

\* After it: all entries have the lines of the fields.
AllTraced ==
  /\ series => ti = 0
  /\ \A k \in Steps : x1[k] = [s \in Seeds |-> Line(FieldFile(k), s)]

FixedMessage == {[from |-> w, data |-> SubFixed(w)] : w \in Workers}

\* The loop over the snapshots: the messages are those of this snapshot, one of each process.
FixedOK ==
  /\ parent \in {"read", "start", "get", "store", "done"}
  /\ child \in [Workers -> {"new", "running", "ended", "died"}]
  /\ NoneLeft
  /\ Working =>
       /\ tidx < nTimes
       /\ queue \in Seq(FixedMessage) /\ sub_data \in Seq(FixedMessage)
       /\ \A i \in 1 .. Len(Messages) : child[Messages[i].from] = "ended"
       /\ \A i, j \in 1 .. Len(Messages) : (Messages[i].from = Messages[j].from) => (i = j)

ResultTypes ==
  /\ input \in Inputs /\ tidx \in Nat /\ stage \in {"tracers", "fixed"}
  /\ DOMAIN fixed = Steps /\ DOMAIN found = Steps /\ DOMAIN fidx = Steps
  /\ DOMAIN poincare = Steps
  /\ old => ~series

FixedInv ==
  /\ MappingInv /\ ResultTypes
  /\ stage = "tracers" => Traced /\ tidx = 0
  /\ stage = "fixed" => AllTraced /\ FixedOK

FoundInv == FixedInv /\ EveryPointOnce /\ KeptApart

-----------------------------------------------------------------------------
(* The cells of a process *)

LEMMA TimesDiv ==
  ASSUME NEW n \in Nat \ {0}, NEW x \in Int, NEW i \in Nat, i <= x \div n
  PROVE  i * n <= x
<1> DEFINE d == x \div n
<1>1. d \in Int /\ d * n <= x
  BY Z3
<1>2. i * n <= d * n
  BY <1>1
<1>3. i * n \in Int /\ d * n \in Int
  BY <1>1
<1> HIDE DEF d
<1> QED BY <1>1, <1>2, <1>3

LEMMA CellsOfWorker ==
  ASSUME NEW w \in Workers, NEW i \in 1 .. NCells(w)
  PROVE  CellAt(w, i) \in Cells
<1> DEFINE x == NSeeds - 1 + NProc - 1 - w
<1>1. NProc \in Nat \ {0} /\ NSeeds \in Nat /\ w \in 0 .. NProc - 1
  BY ForkAssumption, SeriesAssumption DEF Workers
<1>2. x \in Int /\ i \in Nat \ {0} /\ i <= x \div NProc
  <2>1. x \in Int /\ NCells(w) = x \div NProc
    BY <1>1 DEF NCells
  <2>2. x \div NProc \in Int
    BY <1>1, <2>1, Z3
  <2> QED BY <2>1, <2>2
<1>3. i * NProc <= x
  BY <1>1, <1>2, TimesDiv
<1>4. (i - 1) * NProc = i * NProc - NProc /\ (i - 1) * NProc \in Nat
  <2>1. i - 1 \in Nat
    BY <1>2
  <2> QED BY <1>1, <1>2, <2>1
<1>5. w + (i - 1) * NProc \in 0 .. NSeeds - 2
  <2> DEFINE p == i * NProc
             q == (i - 1) * NProc
  <2>1. q = p - NProc /\ p \in Int /\ q \in Nat /\ p <= NSeeds - 1 + NProc - 1 - w
    BY <1>1, <1>2, <1>3, <1>4
  <2> HIDE DEF p, q
  <2>2. w + q \in 0 .. NSeeds - 2
    BY <1>1, <2>1
  <2> QED BY <2>2 DEF q
<1> QED BY <1>5 DEF CellAt, Cells

\* Cell c belongs to process c % NProc, and is its cell Row(c) + 1.
LEMMA WorkerOfCell ==
  ASSUME NEW c \in Cells
  PROVE  /\ c \in Seeds /\ c + 1 \in Seeds /\ c % NProc \in Workers
         /\ Row(c) \in 0 .. NCells(c % NProc) - 1
         /\ CellAt(c % NProc, Row(c) + 1) = c
<1> DEFINE r == c % NProc
           q == c \div NProc
           x == NSeeds - 1 + NProc - 1 - r
<1>1. NProc \in Nat \ {0} /\ NSeeds \in Nat /\ c \in Nat /\ c < NSeeds - 1
  BY ForkAssumption, SeriesAssumption DEF Cells
<1>2. r \in 0 .. NProc - 1 /\ q \in Nat /\ c = r + q * NProc
  BY <1>1, Z3
<1>3. (q + 1) * NProc = q * NProc + NProc
  BY <1>1, <1>2
<1>4. x \in Nat /\ (q + 1) * NProc <= x
  BY <1>1, <1>2, <1>3
<1>5. q + 1 <= x \div NProc
  BY <1>1, <1>2, <1>4, DivLower
<1>6. x \div NProc \in Nat
  BY <1>1, <1>4, Z3
<1>7. q \in 0 .. (x \div NProc) - 1
  BY <1>2, <1>5, <1>6
<1>8. (q + 1) - 1 = q
  BY <1>2
<1>9. CellAt(r, q + 1) = c
  BY <1>2, <1>8 DEF CellAt
<1>10. c \in Seeds /\ c + 1 \in Seeds
  BY <1>1 DEF Seeds
<1> QED BY <1>2, <1>7, <1>9, <1>10 DEF Workers, Row, NCells

\* No two processes have the same cell.
LEMMA CellOnce ==
  ASSUME NEW w \in Workers, NEW i \in Nat \ {0}, NEW v \in Workers, NEW j \in Nat \ {0},
         CellAt(w, i) = CellAt(v, j)
  PROVE  w = v /\ i = j
<1>1. NProc \in Nat \ {0} /\ w \in 0 .. NProc - 1 /\ v \in 0 .. NProc - 1
  BY ForkAssumption DEF Workers
<1> DEFINE a == i - 1
           b == j - 1
<1>2. a \in Nat /\ b \in Nat /\ w + a * NProc = v + b * NProc
  BY DEF CellAt
<1>3. ASSUME NEW k \in Nat, NEW l \in Nat, k < l PROVE k * NProc + NProc <= l * NProc
  <2>1. PICK m \in Nat : l = k + 1 + m
    <3>1. l - (k + 1) \in Nat
      BY <1>3
    <3> QED BY <3>1
  <2>2. l * NProc = k * NProc + NProc + m * NProc /\ m * NProc \in Nat
    BY <1>1, <2>1
  <2> QED BY <1>1, <2>2
<1>4. a * NProc \in Nat /\ b * NProc \in Nat
  BY <1>1, <1>2
<1>5. ~(a < b)
  <2> SUFFICES ASSUME a < b PROVE FALSE
    OBVIOUS
  <2>1. a * NProc + NProc <= b * NProc
    BY <1>2, <1>3
  <2> DEFINE p == a * NProc
             q == b * NProc
  <2>2. p \in Nat /\ q \in Nat /\ p + NProc <= q /\ w + p = v + q
    BY <1>2, <1>4, <2>1
  <2> HIDE DEF p, q
  <2> QED BY <1>1, <2>2
<1>6. ~(b < a)
  <2> SUFFICES ASSUME b < a PROVE FALSE
    OBVIOUS
  <2>1. b * NProc + NProc <= a * NProc
    BY <1>2, <1>3
  <2> DEFINE p == a * NProc
             q == b * NProc
  <2>2. p \in Nat /\ q \in Nat /\ q + NProc <= p /\ w + p = v + q
    BY <1>2, <1>4, <2>1
  <2> HIDE DEF p, q
  <2> QED BY <1>1, <2>2
<1>7. a = b
  <2> HIDE DEF a, b
  <2> QED BY <1>2, <1>5, <1>6
<1> QED BY <1>1, <1>2, <1>4, <1>7

-----------------------------------------------------------------------------
(* What is found in a snapshot *)

\* What is to be found in a cell of the snapshot, and in which cells there is a point.
Cell(c) == CellOf[FieldFile(tidx)][c]
Holding == {c \in Cells : Cell(c).sign # 0 /\ Cell(c).at # Outside}

\* The loop has a snapshot whose lines are all there.
Ready ==
  /\ input \in Inputs /\ tidx \in Nat /\ tidx < nTimes
  /\ AllTraced /\ CellsNamed

LEMMA FileThere == ASSUME Ready PROVE FieldFile(tidx) \in Files /\ tidx \in Steps
<1>1. ti \in Int /\ tf \in Int /\ nTimes \in Nat \ {0}
  BY InputTypes DEF Ready
<1>2. tidx \in Steps
  BY <1>1 DEF Ready, Steps
<1>3. CASE ~series
  BY <1>2, <1>3 DEF FieldFile, Files
<1>4. CASE series
  <2>1. ti = 0 /\ tidx <= tf
    BY <1>1, <1>4 DEF Ready, AllTraced, nTimes, series
  <2>2. input[1] = ti /\ input[2] = tf
    BY DEF input
  <2>3. FieldFile(tidx) \in 0 .. tf
    BY <1>1, <1>4, <2>1 DEF FieldFile, Ready
  <2> QED BY <1>2, <2>1, <2>2, <2>3 DEF Files, Ready
<1> QED BY <1>2, <1>3, <1>4

LEMMA SearchFinds ==
  ASSUME Ready, NEW c \in Cells
  PROVE  Search(c) = Cell(c) /\ Cell(c).cell = c /\ Cell(c).sign \in Int
<1>1. c \in Seeds /\ c + 1 \in Seeds
  BY WorkerOfCell
<1>2. FieldFile(tidx) \in Files /\ tidx \in Steps
  BY FileThere
<1>3. \A s \in {c, c + 1} : x1[tidx][s] = Line(FieldFile(tidx), s)
  BY <1>1, <1>2 DEF Ready, AllTraced
<1> QED BY <1>2, <1>3 DEF Search, Cell, Ready, CellsNamed

LEMMA ExpectedHolding ==
  ASSUME Ready
  PROVE  /\ Expected(tidx) = {Cell(c) : c \in Holding}
         /\ \A c, d \in Holding : Cell(c) = Cell(d) => c = d
<1>1. \A c \in Cells : Cell(c).cell = c
  BY SearchFinds
<1>2. \A c \in Cells : Cell(c) = CellOf[FieldFile(tidx)][c]
  BY DEF Cell
<1>3. Expected(tidx) = {Cell(c) : c \in Holding}
  <2>1. \A p : p \in Expected(tidx) <=> \E c \in Cells : p = Cell(c) /\ p.sign # 0 /\ p.at # Outside
    BY <1>2 DEF Expected
  <2>2. \A p : p \in {Cell(c) : c \in Holding} <=> \E c \in Cells : p = Cell(c) /\ p.sign # 0 /\ p.at # Outside
    BY DEF Holding
  <2> QED BY <2>1, <2>2
<1> QED BY <1>1, <1>3 DEF Holding

\* The points of the cells of process w, once each.
PartRight(w, points) ==
  /\ points \in Seq(Expected(tidx))
  /\ \A b \in 1 .. Len(points) : \E c \in Holding : c % NProc = w /\ points[b] = Cell(c)
  /\ \A a, b \in 1 .. Len(points) : points[a] = points[b] => a = b
  /\ \A c \in Holding : c % NProc = w => \E b \in 1 .. Len(points) : points[b] = Cell(c)

LEMMA PartOf ==
  ASSUME Ready, NEW w \in Workers
  PROVE  PartRight(w, SubFixed(w).points)
<1> DEFINE n == NCells(w)
           cells == [i \in 1 .. n |-> Search(CellAt(w, i))]
           S == {i \in 1 .. Len(cells) : cells[i].sign # 0 /\ cells[i].at # Outside}
           points == SubFixed(w).points
<1>1. \A i \in 1 .. n : CellAt(w, i) \in Cells /\ cells[i] = Cell(CellAt(w, i))
  <2> TAKE i \in 1 .. n
  <2>1. CellAt(w, i) \in Cells
    BY CellsOfWorker
  <2>2. cells[i] = Search(CellAt(w, i))
    OBVIOUS
  <2> HIDE DEF cells
  <2> QED BY <2>1, <2>2, SearchFinds
<1>2. points = Sifted(cells, S)
  BY DEF SubFixed, Searched
<1>3. n \in Int
  <2>1. NProc \in Nat \ {0} /\ NSeeds - 1 + NProc - 1 - w \in Int
    BY ForkAssumption, SeriesAssumption DEF Workers
  <2> QED BY <2>1, Z3 DEF NCells
<1> HIDE DEF n
<1>4. 1 .. Len(cells) = 1 .. n
  <2>1. CASE n \in Nat
    BY <2>1
  <2>2. CASE n \notin Nat
    <3>1. 1 .. n = 1 .. 0
      BY <1>3, <2>2
    <3>2. cells = [i \in 1 .. 0 |-> Search(CellAt(w, i))]
      BY <3>1
    <3>3. Len(cells) = 0
      <4> HIDE DEF cells
      <4>1. cells = << >>
        BY <3>2
      <4> QED BY <4>1
    <3> HIDE DEF cells
    <3> QED BY <3>1, <3>3
  <2> QED BY <2>1, <2>2
<1>5. S = {i \in 1 .. n : CellAt(w, i) \in Holding}
  <2> HIDE DEF cells
  <2>1. \A i : i \in S <=> i \in 1 .. n /\ cells[i].sign # 0 /\ cells[i].at # Outside
    BY <1>4
  <2> HIDE DEF S
  <2>2. \A i \in 1 .. n : CellAt(w, i) \in Holding <=> cells[i].sign # 0 /\ cells[i].at # Outside
    BY <1>1 DEF Holding
  <2> QED BY <2>1, <2>2
<1>6. \A i \in S : i \in Nat \ {0} /\ CellAt(w, i) \in Holding /\ cells[i] = Cell(CellAt(w, i))
  <2> HIDE DEF cells, S
  <2> QED BY <1>1, <1>3, <1>5
<1> HIDE DEF cells, S, points
<1>7. S \in SUBSET Nat /\ IsFiniteSet(S)
  <2>1. IsFiniteSet(1 .. n)
    BY <1>3, FS_Interval
  <2>2. S \in SUBSET (1 .. n)
    BY <1>5
  <2> QED BY <1>6, <2>1, <2>2, FS_Subset
<1>8. \A i \in S : cells[i] \in Expected(tidx)
  BY <1>6, ExpectedHolding
<1>9. points \in Seq(Expected(tidx)) /\ Len(points) = Cardinality(S)
  BY <1>2, <1>7, <1>8, SiftedIsSeq
<1>10. PICK place :
         /\ \A i \in 1 .. Cardinality(S) : place[i] \in S /\ points[i] = cells[place[i]]
         /\ \A i, j \in 1 .. Cardinality(S) : place[i] = place[j] => i = j
         /\ \A p \in S : \E i \in 1 .. Cardinality(S) : place[i] = p
  BY <1>2, <1>7, SiftedPlaces
<1>11. \A i \in S : CellAt(w, i) % NProc = w
  <2> TAKE i \in S
  <2> DEFINE c == CellAt(w, i)
             v == c % NProc
  <2>1. c \in Cells
    BY <1>6 DEF Holding
  <2>2. v \in Workers /\ Row(c) \in Nat /\ CellAt(v, Row(c) + 1) = CellAt(w, i)
    BY <2>1, WorkerOfCell
  <2>3. Row(c) + 1 \in Nat \ {0} /\ i \in Nat \ {0}
    BY <1>6, <2>2
  <2>4. v = w
    <3> HIDE DEF v, c
    <3> QED BY <2>2, <2>3, CellOnce
  <2> QED BY <2>4
<1>12. \A b \in 1 .. Len(points) : \E c \in Holding : c % NProc = w /\ points[b] = Cell(c)
  <2> TAKE b \in 1 .. Len(points)
  <2>1. place[b] \in S /\ points[b] = Cell(CellAt(w, place[b]))
    BY <1>6, <1>9, <1>10
  <2> QED BY <1>6, <1>11, <2>1
<1>13. \A a, b \in 1 .. Len(points) : points[a] = points[b] => a = b
  <2> SUFFICES ASSUME NEW a \in 1 .. Len(points), NEW b \in 1 .. Len(points), points[a] = points[b]
               PROVE  a = b
    OBVIOUS
  <2>1. place[a] \in S /\ place[b] \in S /\ Cell(CellAt(w, place[a])) = Cell(CellAt(w, place[b]))
    BY <1>6, <1>9, <1>10
  <2>2. CellAt(w, place[a]) = CellAt(w, place[b])
    BY <1>6, <2>1, ExpectedHolding
  <2>3. place[a] = place[b]
    BY <1>6, <2>1, <2>2, CellOnce
  <2> QED BY <1>9, <1>10, <2>3
<1>14. \A c \in Holding : c % NProc = w => \E b \in 1 .. Len(points) : points[b] = Cell(c)
  <2> TAKE c \in Holding
  <2> HAVE c % NProc = w
  <2>1. c \in Cells
    BY DEF Holding
  <2>2. Row(c) \in 0 .. NCells(w) - 1 /\ CellAt(w, Row(c) + 1) = c
    BY <2>1, WorkerOfCell
  <2>3. Row(c) + 1 \in 1 .. n
    BY <1>3, <2>2 DEF n
  <2>4. Row(c) + 1 \in S
    BY <1>5, <2>2, <2>3
  <2>5. PICK b \in 1 .. Cardinality(S) : place[b] = Row(c) + 1
    BY <1>10, <2>4
  <2>6. points[b] = Cell(c)
    BY <1>6, <1>10, <2>2, <2>4, <2>5
  <2> QED BY <1>9, <2>5, <2>6
<1> QED BY <1>9, <1>12, <1>13, <1>14 DEF points, PartRight

\* The messages: one of each process, and each has the cells of its own.
AllHere ==
  /\ \A i \in 1 .. NProc :
       sub_data[i].from \in Workers /\ sub_data[i].data = SubFixed(sub_data[i].from)
  /\ \A i, j \in 1 .. NProc : (sub_data[i].from = sub_data[j].from) => i = j
  /\ \A w \in Workers : \E i \in 1 .. NProc : sub_data[i].from = w

Once(points, S) ==
  /\ points \in Seq(S)
  /\ \A i, j \in 1 .. Len(points) : points[i] = points[j] => i = j
  /\ \A p \in S : \E i \in 1 .. Len(points) : points[i] = p

\* In whatever order the messages are gone through, every point is there once.
LEMMA PointsOnce ==
  ASSUME Ready, AllHere, NEW order, \A a \in 1 .. NProc : order[a] \in 1 .. NProc,
         \A a, b \in 1 .. NProc : order[a] = order[b] => a = b,
         \A i \in 1 .. NProc : \E a \in 1 .. NProc : order[a] = i
  PROVE  Once(Points(order), Expected(tidx))
<1> DEFINE seqs == [i \in 1 .. NProc |-> sub_data[order[i]].data.points]
           who(a) == sub_data[order[a]].from
           flat == Points(order)
<1>1. NProc \in Nat \ {0} /\ Len(seqs) = NProc
  BY ForkAssumption
<1>2. \A a \in 1 .. NProc : who(a) \in Workers /\ seqs[a] = SubFixed(who(a)).points
  BY DEF AllHere
<1>3. \A a, b \in 1 .. NProc : who(a) = who(b) => a = b
  BY DEF AllHere
<1>4. \A w \in Workers : \E a \in 1 .. NProc : who(a) = w
  BY DEF AllHere
<1>5. flat = FlattenSeq(seqs)
  BY DEF Points
<1> HIDE DEF who, seqs, flat
<1>6. \A a \in 1 .. NProc : PartRight(who(a), seqs[a])
  BY <1>2, PartOf
<1>7. \A a \in 1 .. NProc : seqs[a] \in Seq(Expected(tidx))
  BY <1>6 DEF PartRight
<1>8. flat \in Seq(Expected(tidx)) /\ \E at : Holds(seqs, NProc, flat, at)
  BY <1>1, <1>5, <1>7, FlattenHolds
<1>9. PICK at : Holds(seqs, NProc, flat, at)
  BY <1>8
<1> DEFINE A(i) == at[i][1]
           B(i) == at[i][2]
<1>a. \A i \in 1 .. Len(flat) :
        /\ A(i) \in 1 .. NProc /\ B(i) \in 1 .. Len(seqs[A(i)])
        /\ at[i] = <<A(i), B(i)>> /\ flat[i] = seqs[A(i)][B(i)]
  BY <1>9 DEF Holds
<1>b. \A i, j \in 1 .. Len(flat) : at[i] = at[j] => i = j
  BY <1>9 DEF Holds
<1>c. \A a \in 1 .. NProc : \A b \in 1 .. Len(seqs[a]) : \E i \in 1 .. Len(flat) : at[i] = <<a, b>>
  BY <1>9 DEF Holds
<1> HIDE DEF A, B
<1>10. ASSUME NEW i \in 1 .. Len(flat), NEW j \in 1 .. Len(flat), flat[i] = flat[j] PROVE i = j
  <2>1. PICK c \in Holding : c % NProc = who(A(i)) /\ seqs[A(i)][B(i)] = Cell(c)
    BY <1>6, <1>a DEF PartRight
  <2>2. PICK d \in Holding : d % NProc = who(A(j)) /\ seqs[A(j)][B(j)] = Cell(d)
    BY <1>6, <1>a DEF PartRight
  <2>3. c = d
    BY <1>10, <1>a, <2>1, <2>2, ExpectedHolding
  <2>4. A(i) = A(j)
    BY <1>3, <1>a, <2>1, <2>2, <2>3
  <2>5. B(i) = B(j)
    <3>1. PartRight(who(A(i)), seqs[A(i)])
      BY <1>6, <1>a
    <3>2. \A a, b \in 1 .. Len(seqs[A(i)]) : seqs[A(i)][a] = seqs[A(i)][b] => a = b
      BY <3>1 DEF PartRight
    <3>3. /\ B(i) \in 1 .. Len(seqs[A(i)]) /\ B(j) \in 1 .. Len(seqs[A(i)])
          /\ seqs[A(i)][B(i)] = seqs[A(i)][B(j)]
      BY <1>10, <1>a, <2>4
    <3> QED BY <3>2, <3>3
  <2>6. at[i] = at[j]
    BY <1>a, <2>4, <2>5
  <2> QED BY <1>b, <2>6
<1>11. ASSUME NEW p \in Expected(tidx) PROVE \E i \in 1 .. Len(flat) : flat[i] = p
  <2>1. PICK c \in Holding : p = Cell(c)
    BY ExpectedHolding
  <2>2. c % NProc \in Workers
    BY WorkerOfCell DEF Holding
  <2>3. PICK a \in 1 .. NProc : who(a) = c % NProc
    BY <1>4, <2>2
  <2>4. PartRight(c % NProc, seqs[a])
    BY <1>6, <2>3
  <2>5. PICK b \in 1 .. Len(seqs[a]) : seqs[a][b] = p
    BY <2>1, <2>4 DEF PartRight
  <2>6. PICK i \in 1 .. Len(flat) : at[i] = <<a, b>>
    BY <1>c
  <2>7. A(i) = a /\ B(i) = b
    BY <2>6 DEF A, B
  <2> QED BY <1>a, <2>5, <2>7
<1> QED BY <1>8, <1>10, <1>11 DEF Once, flat

\* The index of every cell.
LEMMA EveryIndex ==
  ASSUME Ready, AllHere
  PROVE  \A c \in Cells : NewCells(tidx)[c] = Cell(c).sign
<1> SUFFICES ASSUME NEW c \in Cells PROVE NewCells(tidx)[c] = Cell(c).sign
  OBVIOUS
<1> DEFINE w == c % NProc
           i == CHOOSE i \in 1 .. NProc : sub_data[i].from = w
<1>1. /\ c \in Seeds /\ w \in Workers /\ Row(c) \in 0 .. NCells(w) - 1
      /\ CellAt(w, Row(c) + 1) = c
  BY WorkerOfCell
<1>2. Row(c) \in 0 .. NRows(w) - 1
  BY <1>1, RowOfSeed
<1>3. i \in 1 .. NProc /\ sub_data[i].from = w
  BY <1>1 DEF AllHere
<1>4. NewCells(tidx)[c] = sub_data[i].data.rows[Row(c)]
  BY <1>1, Zenon DEF NewCells
<1> HIDE DEF i, w
<1>5. sub_data[i].data = SubFixed(w)
  BY <1>3 DEF AllHere
<1>6. SubFixed(w).rows[Row(c)] = IF Row(c) < NCells(w) THEN Search(CellAt(w, Row(c) + 1)).sign ELSE 0
  BY <1>2 DEF SubFixed, Searched
<1>7. Row(c) < NCells(w)
  <2>1. NProc \in Nat \ {0} /\ NSeeds - 1 + NProc - 1 - w \in Int
    BY <1>1, ForkAssumption, SeriesAssumption DEF Workers
  <2>2. NCells(w) \in Int
    BY <2>1, Z3 DEF NCells
  <2> QED BY <1>1, <2>2
<1> QED BY <1>1, <1>4, <1>5, <1>6, <1>7, SearchFinds

\* What is there once is counted once.
LEMMA CountedOnce ==
  ASSUME NEW S, NEW points, Once(points, S), \A p \in S : p.sign \in Int
  PROVE  /\ Len(points) = Cardinality(S) /\ {points[i] : i \in 1 .. Len(points)} = S
         /\ FoldSeq(LAMBDA p, n : p.sign + n, 0, points) = MapThenSumSet(LAMBDA p : p.sign, S)
<1> DEFINE n == Len(points)
           to == [i \in 1 .. n |-> points[i]]
           h == [i \in 1 .. n |-> points[i].sign]
           k == [p \in S |-> p.sign]
<1>1. /\ n \in Nat /\ \A i \in 1 .. n : points[i] \in S
      /\ points \in Seq(S)
      /\ \A i, j \in 1 .. n : points[i] = points[j] => i = j
      /\ \A p \in S : \E i \in 1 .. n : points[i] = p
  <2>1. /\ points \in Seq(S)
        /\ \A i, j \in 1 .. n : points[i] = points[j] => i = j
        /\ \A p \in S : \E i \in 1 .. n : points[i] = p
    BY Zenon DEF Once
  <2>2. n \in Nat /\ \A i \in 1 .. n : points[i] \in S
    BY <2>1
  <2> QED BY <2>1, <2>2
<1> HIDE DEF n
<1>2. IsFiniteSet(1 .. n) /\ Cardinality(1 .. n) = n
  BY <1>1, FS_Interval
<1>3. /\ to \in [1 .. n -> S]
      /\ \A i, j \in 1 .. n : to[i] = to[j] => i = j
      /\ \A p \in S : \E i \in 1 .. n : to[i] = p
  BY <1>1
<1>4. \A i \in 1 .. n : k[to[i]] = h[i]
  BY <1>1
<1>5. h \in [1 .. n -> Int] /\ k \in [S -> Int]
  BY <1>1
<1>6. PICK g : Summing(h, 1 .. n, g)
               /\ FoldSeq(LAMBDA p, m : p.sign + m, 0, points) = g[1 .. n]
  BY <1>1, FoldSums DEF n
<1> HIDE DEF h, to
<1>7. to \in Bijection(1 .. n, S)
  BY <1>3 DEF Bijection, Injection, Surjection, IsInjective
<1>8. IsFiniteSet(S) /\ Cardinality(S) = n
  BY <1>2, <1>7, FS_Bijection DEF ExistsBijection
<1>9. PICK f : Summing(k, S, f) /\ MapThenSumSet(LAMBDA p : p.sign, S) = f[S]
  BY <1>8, SetSums
<1> HIDE DEF k
<1>10. g[1 .. n] = f[S]
  <2>1. Moves(h, 1 .. n, to, k, S)
    BY <1>3, <1>4, Zenon DEF Moves
  <2>2. Summing(h, 1 .. n, g) /\ Summing(k, S, f)
    BY <1>6, <1>9, Zenon
  <2> DEFINE D == 1 .. n
  <2>3. /\ IsFiniteSet(D) /\ IsFiniteSet(S) /\ h \in [D -> Int] /\ k \in [S -> Int]
        /\ Summing(h, D, g) /\ Summing(k, S, f) /\ Moves(h, D, to, k, S)
    BY <1>2, <1>5, <1>8, <2>1, <2>2, Zenon
  <2> HIDE DEF D
  <2>4. g[D] = f[S]
    BY <2>3, SameSum
  <2> QED BY <2>4 DEF D
<1>11. {points[i] : i \in 1 .. n} = S
  BY <1>1
<1> QED BY <1>6, <1>8, <1>9, <1>10, <1>11 DEF n

-----------------------------------------------------------------------------
(* The steps of find_fixed *)

\* Without a new result nothing changes of what the processes search for.
LEMMA SameSearch ==
  ASSUME UNCHANGED <<input, x1, tidx>>
  PROVE  /\ nTimes' = nTimes /\ Steps' = Steps /\ (series' <=> series)
         /\ \A k : FieldFile(k)' = FieldFile(k)
         /\ \A w : SubFixed(w)' = SubFixed(w)
         /\ FixedMessage' = FixedMessage
<1>1. ti' = ti /\ tf' = tf /\ old' = old
  BY DEF input
<1>2. (series' <=> series) /\ nTimes' = nTimes
  BY <1>1 DEF series, nTimes
<1>3. Steps' = Steps /\ \A k : FieldFile(k)' = FieldFile(k)
  BY <1>1, <1>2 DEF Steps, FieldFile
<1>4. \A c : Search(c)' = Search(c)
  BY <1>3 DEF Search
<1>5. \A w : SubFixed(w)' = SubFixed(w)
  BY <1>4 DEF SubFixed, Searched
<1>6. FixedMessage' = FixedMessage
  BY <1>5 DEF FixedMessage
<1> QED BY <1>2, <1>3, <1>5, <1>6

LEMMA SameTraced ==
  ASSUME UNCHANGED <<input, x1>>
  PROVE  /\ nTimes' = nTimes /\ Steps' = Steps /\ (series' <=> series) /\ ti' = ti /\ old' = old
         /\ \A k : FieldFile(k)' = FieldFile(k) /\ Expected(k)' = Expected(k)
         /\ AllTraced => AllTraced'
<1>1. ti' = ti /\ tf' = tf /\ old' = old
  BY DEF input
<1>2. (series' <=> series) /\ nTimes' = nTimes
  BY <1>1 DEF series, nTimes
<1>3. Steps' = Steps /\ \A k : FieldFile(k)' = FieldFile(k)
  BY <1>1, <1>2 DEF Steps, FieldFile
<1>4. \A k : Expected(k)' = Expected(k)
  BY <1>3 DEF Expected
<1> QED BY <1>1, <1>2, <1>3, <1>4 DEF AllTraced

\* An entry of the arrays belongs to one file.
LEMMA EntryFile ==
  ASSUME input \in Inputs, NEW i \in Int, NEW j \in Int, FirstIdx <= i, FirstIdx <= j,
         InRange(i), InRange(j), Entry(i) = Entry(j)
  PROVE  FileOf(i) = FileOf(j)
<1>1. ti \in Int /\ tf \in Int /\ old \in BOOLEAN /\ nTimes \in Nat \ {0}
  BY InputTypes
<1>2. CASE ~series
  BY <1>2 DEF FileOf
<1>3. CASE series
  <2>1. 0 <= FirstIdx
    BY <1>1, <1>3 DEF FirstIdx, NewFirst, OldFirst, series
  <2>2. FirstIdx \in Int
    BY InputTypes
  <2>3. i = j
    BY <1>1, <2>1, <2>2 DEF Entry
  <2> QED BY <2>3
<1> QED BY <1>2, <1>3

LEMMA TracedSteps ==
  ASSUME TracersInv, Traced, ParentStep \/ \E w \in Workers : WorkTracers(w)
  PROVE  Traced'
<1>0. /\ input \in Inputs /\ t_idx \in Int /\ FirstIdx <= t_idx /\ FirstIdx \in Int /\ LastIdx \in Int
      /\ DOMAIN x1 = 0 .. nTimes - 1 /\ x1 = [k \in DOMAIN x1 |-> x1[k]]
  BY InputTypes DEF TracersInv, TypeOK
<1>1. CASE ReadVar
  <2>1. /\ parent' = "start" /\ t_idx' = t_idx /\ UNCHANGED input /\ ~Working /\ Working'
        /\ x1' = [x1 EXCEPT ![Entry(t_idx)] = [s \in Seeds |-> Seed]]
    BY <1>1 DEF ReadVar, Prepare, Working
  <2>2. \A i \in FirstIdx .. t_idx - 1 : InRange(i) /\ x1[Entry(i)] = Lines(i)
    BY <2>1 DEF Traced
  <2>3. FirstIdx' = FirstIdx /\ \A i : /\ FileOf(i)' = FileOf(i) /\ InRange(i)' = InRange(i)
                                       /\ Entry(i)' = Entry(i) /\ Lines(i)' = Lines(i)
    BY <2>1, SameInput DEF Lines
  <2>4. ASSUME NEW i \in FirstIdx .. t_idx - 1, Entry(i) # Entry(t_idx)
        PROVE  x1'[Entry(i)] = Lines(i)
    BY <2>1, <2>2, <2>4, <1>0
  <2>5. \A i \in FirstIdx .. t_idx - 1 :
           /\ InRange(i)'
           /\ \/ Working' /\ Entry(i)' = Entry(t_idx)'
              \/ x1'[Entry(i)'] = Lines(i)'
    BY <2>1, <2>2, <2>3, <2>4
  <2> QED BY <2>1, <2>3, <2>5 DEF Traced
<1>2. CASE IndexError \/ Return
  <2>1. /\ UNCHANGED <<input, t_idx, x1>> /\ ~Working /\ (parent' = "done" => t_idx > LastIdx)
    BY <1>2 DEF IndexError, Return, seriesVars, Working
  <2>2. \A i \in FirstIdx .. t_idx - 1 : InRange(i) /\ x1[Entry(i)] = Lines(i)
    BY <2>1 DEF Traced
  <2>3. FirstIdx' = FirstIdx /\ LastIdx' = LastIdx
        /\ \A i : /\ FileOf(i)' = FileOf(i) /\ InRange(i)' = InRange(i)
                  /\ Entry(i)' = Entry(i) /\ Lines(i)' = Lines(i)
    BY <2>1, SameInput DEF Lines
  <2> QED BY <2>1, <2>2, <2>3 DEF Traced
<1>3. CASE Collect \/ \E w \in Workers : WorkTracers(w)
  <2>1. UNCHANGED <<input, t_idx, x1>> /\ Working /\ Working' /\ parent' # "done"
    <3>1. CASE Collect
      BY <3>1 DEF Collect, Get, Join, seriesVars, Working
    <3>2. ASSUME NEW w \in Workers, WorkTracers(w)
          PROVE  UNCHANGED <<input, t_idx, x1>> /\ Working /\ Working' /\ parent' # "done"
      BY <3>2 DEF WorkTracers, Work, Start, Die, Put, seriesVars, Working, TracersInv, NoneLeft
    <3> QED BY <1>3, <3>1, <3>2
  <2>2. FirstIdx' = FirstIdx
        /\ \A i : /\ FileOf(i)' = FileOf(i) /\ InRange(i)' = InRange(i)
                  /\ Entry(i)' = Entry(i) /\ Lines(i)' = Lines(i)
    BY <2>1, SameInput DEF Lines
  <2> QED BY <2>1, <2>2 DEF Traced
<1>4. CASE Store
  <2>1. /\ parent' = "read" /\ t_idx' = t_idx + 1 /\ UNCHANGED input /\ InRange(t_idx) /\ ~Working'
        /\ x1' = [x1 EXCEPT ![Entry(t_idx)] = Reassembled(@)]
    BY <1>4 DEF Store, TracersInv, EntryThere, Working
  <2>2. Entry(t_idx) \in DOMAIN x1
    BY <1>0, <2>1, EntryInArray DEF TracersInv
  <2>3. Reassembled(x1[Entry(t_idx)]) = Lines(t_idx)
    BY <1>4, StoredLines DEF Lines
  <2>4. x1'[Entry(t_idx)] = Lines(t_idx) /\ \A k \in DOMAIN x1 : k # Entry(t_idx) => x1'[k] = x1[k]
    BY <2>1, <2>2, <2>3, Zenon
  <2>5. FirstIdx' = FirstIdx
        /\ \A i : /\ FileOf(i)' = FileOf(i) /\ InRange(i)' = InRange(i)
                  /\ Entry(i)' = Entry(i) /\ Lines(i)' = Lines(i)
    BY <2>1, SameInput DEF Lines
  <2>6. ASSUME NEW i \in FirstIdx .. t_idx PROVE InRange(i) /\ x1'[Entry(i)] = Lines(i)
    <3>1. CASE i = t_idx
      BY <2>1, <2>4, <3>1
    <3>2. CASE i # t_idx
      <4>0. i \in FirstIdx .. t_idx - 1 /\ i \in Int /\ FirstIdx <= i
        BY <1>0, <3>2
      <4>1. InRange(i) /\ (Entry(i) = Entry(t_idx) \/ x1[Entry(i)] = Lines(i))
        BY <4>0 DEF Traced
      <4>2. CASE Entry(i) = Entry(t_idx)
        <5>1. FileOf(i) = FileOf(t_idx)
          BY <1>0, <2>1, <4>0, <4>1, <4>2, EntryFile
        <5>2. Lines(i) = Lines(t_idx)
          BY <5>1 DEF Lines
        <5> QED BY <2>4, <4>1, <4>2, <5>2
      <4>3. CASE Entry(i) # Entry(t_idx)
        <5>1. Entry(i) \in DOMAIN x1
          <6>1. nTimes \in Nat
            BY <1>0, InputTypes
          <6> QED BY <1>0, <4>0, <4>1, <6>1 DEF InRange, Entry
        <5> QED BY <2>4, <4>1, <4>3, <5>1
      <4> QED BY <4>2, <4>3
    <3> QED BY <3>1, <3>2
  <2>7. FirstIdx .. t_idx' - 1 = FirstIdx .. t_idx
    BY <1>0, <2>1
  <2> QED BY <2>1, <2>5, <2>6, <2>7 DEF Traced
<1> QED BY <1>1, <1>2, <1>3, <1>4 DEF ParentStep

\* When find_tracers is done, all entries have the lines of the fields that are read.
LEMMA TracedAll ==
  ASSUME TracersInv, Traced, Fitting, parent = "done", old => ~series
  PROVE  AllTraced
<1>1. /\ ti \in Int /\ tf \in Int /\ old \in BOOLEAN /\ nTimes \in Nat \ {0}
      /\ FirstIdx \in Int /\ LastIdx \in Int /\ t_idx \in Int /\ input \in Inputs /\ t_idx > LastIdx
  BY InputTypes DEF TracersInv, TypeOK, Traced
<1>2. input[1] = ti /\ input[2] = tf /\ input[3] = old
  BY DEF input
<1>3. old \/ ti <= tf
  BY <1>1, <1>2 DEF Fitting
<1>4. \A i \in FirstIdx .. LastIdx : InRange(i) /\ x1[Entry(i)] = Lines(i)
  <2>1. ~Working
    BY DEF Working
  <2> QED BY <1>1, <2>1 DEF Traced
<1>5. series => ti = 0
  <2> SUFFICES ASSUME series, ~old PROVE ti = 0
    OBVIOUS
  <2>1. tf \in FirstIdx .. LastIdx
    BY <1>1, <1>3 DEF FirstIdx, LastIdx, NewFirst, NewLast
  <2>2. tf < nTimes
    BY <1>4, <2>1 DEF InRange
  <2> QED BY <1>1, <2>2 DEF nTimes, series
<1>6. ASSUME NEW k \in Steps PROVE x1[k] = [s \in Seeds |-> Line(FieldFile(k), s)]
  <2>0. k \in 0 .. nTimes - 1
    BY DEF Steps
  <2>1. CASE series
    <3>1. k \in FirstIdx .. LastIdx
      BY <1>1, <1>5, <2>0, <2>1 DEF FirstIdx, LastIdx, NewFirst, NewLast, OldFirst, OldLast, nTimes, series
    <3>2. Entry(k) = k /\ FileOf(k) = FieldFile(k)
      BY <1>1, <1>5, <2>0, <2>1 DEF Entry, FileOf, FieldFile
    <3> QED BY <1>4, <3>1, <3>2 DEF Lines
  <2>2. CASE ~series
    <3>1. nTimes = 1 /\ k = 0
      BY <2>0, <2>2 DEF nTimes
    <3>2. FirstIdx \in FirstIdx .. LastIdx
      BY <1>1, <1>3, <3>1 DEF FirstIdx, LastIdx, NewFirst, NewLast, OldFirst, OldLast
    <3>3. Entry(FirstIdx) = 0
      BY <1>1, <1>4, <3>1, <3>2 DEF InRange, Entry
    <3>4. \A i : FileOf(i) = FieldFile(k)
      BY <2>2 DEF FileOf, FieldFile
    <3> QED BY <1>4, <3>1, <3>2, <3>3, <3>4 DEF Lines
  <2> QED BY <2>1, <2>2
<1> QED BY <1>5, <1>6 DEF AllTraced

\* The steps of a snapshot in the loop: nothing of the results and the mapping changes.
Quiet == UNCHANGED seriesVars /\ UNCHANGED fixedVars

LEMMA QuietFacts ==
  ASSUME Quiet
  PROVE  /\ UNCHANGED <<input, x1, t_idx, t, stage, tidx, fixed, fidx, poincare, found>>
         /\ nTimes' = nTimes /\ FixedMessage' = FixedMessage
BY SameSearch DEF Quiet, seriesVars, fixedVars

LEMMA FixedStartDie ==
  ASSUME FixedOK, NEW w \in Workers, Start(w) \/ Die(w), Quiet
  PROVE  FixedOK'
<1>1. /\ UNCHANGED <<queue, sub_data>> /\ child[w] \in {"new", "running"}
      /\ \E c \in {"running", "died"} : child' = [child EXCEPT ![w] = c]
      /\ \/ parent = "start" /\ parent' \in {"start", "get"}
         \/ parent' = parent
  BY DEF Start, Die
<1>2. parent \in {"start", "get"} /\ parent' \in {"start", "get"}
  <2>1. CASE Start(w)
    BY <2>1 DEF Start
  <2>2. CASE Die(w)
    BY <2>2 DEF Die, FixedOK, NoneLeft
  <2> QED BY <2>1, <2>2
<1>3. Working /\ Working' /\ Messages' = Messages /\ tidx' = tidx
  BY <1>1, <1>2, QuietFacts DEF Working, Messages
<1>4. child' \in [Workers -> {"new", "running", "ended", "died"}]
  BY <1>1 DEF FixedOK
<1>5. /\ tidx < nTimes
      /\ queue \in Seq(FixedMessage) /\ sub_data \in Seq(FixedMessage)
      /\ \A i \in 1 .. Len(Messages) : child[Messages[i].from] = "ended"
      /\ \A i, j \in 1 .. Len(Messages) : (Messages[i].from = Messages[j].from) => i = j
  BY <1>3 DEF FixedOK
<1>6. \A i \in 1 .. Len(Messages) : child'[Messages[i].from] = "ended"
  <2> TAKE i \in 1 .. Len(Messages)
  <2>1. child[Messages[i].from] = "ended"
    BY <1>5
  <2> QED BY <1>1, <2>1 DEF FixedOK
<1>7. NoneLeft'
  BY <1>2 DEF NoneLeft
<1> QED BY <1>1, <1>2, <1>3, <1>4, <1>5, <1>6, <1>7, QuietFacts DEF FixedOK

LEMMA FixedPut ==
  ASSUME FixedOK, NEW w \in Workers, Put(w, SubFixed(w)), Quiet
  PROVE  FixedOK'
<1> DEFINE m == [from |-> w, data |-> SubFixed(w)]
<1>1. /\ child[w] = "running" /\ queue' = Append(queue, m)
      /\ child' = [child EXCEPT ![w] = "ended"]
      /\ UNCHANGED <<parent, sub_data>>
  BY DEF Put
<1>2. parent \in {"start", "get"} /\ Working /\ Working'
  BY <1>1 DEF FixedOK, NoneLeft, Working
<1>3. m \in FixedMessage
  BY DEF FixedMessage
<1>4. /\ tidx < nTimes
      /\ queue \in Seq(FixedMessage) /\ sub_data \in Seq(FixedMessage)
      /\ \A i \in 1 .. Len(Messages) : child[Messages[i].from] = "ended"
      /\ \A i, j \in 1 .. Len(Messages) : (Messages[i].from = Messages[j].from) => i = j
      /\ child \in [Workers -> {"new", "running", "ended", "died"}]
  BY <1>2 DEF FixedOK
<1> HIDE DEF m
<1>5. /\ Messages \in Seq(FixedMessage) /\ Messages' = Append(Messages, m)
      /\ queue' \in Seq(FixedMessage)
  BY <1>1, <1>3, <1>4 DEF Messages
<1>6. /\ Len(Messages') = Len(Messages) + 1 /\ Messages'[Len(Messages) + 1] = m
      /\ \A i \in 1 .. Len(Messages) : Messages'[i] = Messages[i]
      /\ Len(Messages) \in Nat
  BY <1>3, <1>5
<1>7. /\ m.from = w /\ child'[w] = "ended"
      /\ \A i \in 1 .. Len(Messages) : Messages[i].from # w /\ child'[Messages[i].from] = "ended"
  <2>1. m.from = w /\ child'[w] = "ended"
    BY <1>1, <1>4 DEF m
  <2>2. ASSUME NEW i \in 1 .. Len(Messages)
        PROVE  Messages[i].from # w /\ child'[Messages[i].from] = "ended"
    <3>1. child[Messages[i].from] = "ended"
      BY <1>4
    <3> QED BY <1>1, <1>4, <3>1
  <2> QED BY <2>1, <2>2
<1>8. \A i \in 1 .. Len(Messages') : child'[Messages'[i].from] = "ended"
  <2> TAKE i \in 1 .. Len(Messages')
  <2>1. i \in 1 .. Len(Messages) \/ i = Len(Messages) + 1
    BY <1>6
  <2> QED BY <1>6, <1>7, <2>1
<1>9. \A i, j \in 1 .. Len(Messages') : (Messages'[i].from = Messages'[j].from) => i = j
  <2> SUFFICES ASSUME NEW i \in 1 .. Len(Messages'), NEW j \in 1 .. Len(Messages'),
                      Messages'[i].from = Messages'[j].from
               PROVE  i = j
    OBVIOUS
  <2>1. /\ i \in 1 .. Len(Messages) \/ i = Len(Messages) + 1
        /\ j \in 1 .. Len(Messages) \/ j = Len(Messages) + 1
    BY <1>6
  <2> QED BY <1>4, <1>6, <1>7, <2>1
<1>10. NoneLeft'
  BY <1>1, <1>2 DEF NoneLeft
<1>11. child' \in [Workers -> {"new", "running", "ended", "died"}]
  BY <1>1, <1>4
<1> QED BY <1>1, <1>2, <1>4, <1>5, <1>8, <1>9, <1>10, <1>11, QuietFacts DEF FixedOK

LEMMA FixedGet ==
  ASSUME FixedOK, Get, Quiet
  PROVE  FixedOK'
<1>1. /\ parent = "get" /\ queue # << >>
      /\ sub_data' = Append(sub_data, Head(queue)) /\ queue' = Tail(queue)
      /\ UNCHANGED <<parent, child>> /\ Working /\ Working'
  BY DEF Get, Working
<1>2. queue \in Seq(FixedMessage) /\ sub_data \in Seq(FixedMessage)
  BY <1>1 DEF FixedOK
<1>3. /\ queue' \in Seq(FixedMessage) /\ sub_data' \in Seq(FixedMessage) /\ Messages' = Messages
  BY <1>1, <1>2 DEF Messages
<1>4. NoneLeft'
  BY <1>1 DEF NoneLeft
<1> QED BY <1>1, <1>3, <1>4, QuietFacts DEF FixedOK

LEMMA FixedFrom ==
  ASSUME FixedOK, Working
  PROVE  /\ \A i \in 1 .. Len(Messages) : Messages[i].from \in Workers
         /\ \A i \in 1 .. Len(sub_data) :
              sub_data[i].from \in Workers /\ sub_data[i].data = SubFixed(sub_data[i].from)
<1>1. /\ queue \in Seq(FixedMessage) /\ sub_data \in Seq(FixedMessage)
      /\ Messages \in Seq(FixedMessage)
  BY DEF FixedOK, Messages
<1>2. /\ \A i \in 1 .. Len(Messages) : Messages[i] \in FixedMessage
      /\ \A i \in 1 .. Len(sub_data) : sub_data[i] \in FixedMessage
  BY <1>1
<1>3. \A m \in FixedMessage : m.from \in Workers /\ m.data = SubFixed(m.from)
  BY DEF FixedMessage
<1> QED BY <1>2, <1>3

LEMMA FixedJoin ==
  ASSUME FixedOK, Join, Quiet
  PROVE  FixedOK'
<1>1. /\ parent = "get" /\ parent' = "store" /\ UNCHANGED <<child, queue, sub_data>>
      /\ Working /\ Working' /\ Messages' = Messages /\ Len(sub_data) = NProc
      /\ \A w \in Workers : child[w] \in {"ended", "died"}
  BY DEF Join, Working, Messages
<1>2. queue = << >>
  <2>1. /\ queue \in Seq(FixedMessage) /\ sub_data \in Seq(FixedMessage)
        /\ \A i, j \in 1 .. Len(Messages) : (Messages[i].from = Messages[j].from) => i = j
    BY <1>1 DEF FixedOK
  <2> QED BY <1>1, <2>1, FixedFrom, OneOfEach
<1>3. NoneLeft'
  BY <1>1, <1>2 DEF NoneLeft
<1> QED BY <1>1, <1>3, QuietFacts DEF FixedOK

\* The next snapshot begins with an empty queue and no results.
LEMMA FixedRead ==
  ASSUME FixedOK, ResultTypes, ReadField
  PROVE  FixedOK'
<1>1. /\ parent = "read" /\ tidx < nTimes /\ parent' = "start"
      /\ child' = [w \in Workers |-> "new"] /\ sub_data' = << >> /\ UNCHANGED queue
      /\ Quiet
  BY DEF ReadField, Prepare, Quiet
<1>2. queue' = << >> /\ Messages' = << >> /\ tidx' < nTimes'
  BY <1>1, QuietFacts DEF FixedOK, NoneLeft, Messages
<1>3. NoneLeft'
  BY <1>1 DEF NoneLeft
<1>4. \A i \in 1 .. Len(Messages') : FALSE
  BY <1>2
<1>5. queue' \in Seq(FixedMessage') /\ sub_data' \in Seq(FixedMessage')
  BY <1>1, <1>2
<1>6. child' \in [Workers -> {"new", "running", "ended", "died"}]
  BY <1>1
<1> QED BY <1>1, <1>2, <1>3, <1>4, <1>5, <1>6 DEF FixedOK

\* Between two snapshots nothing is left of the one before.
LEMMA FixedIdle ==
  ASSUME parent' \in {"read", "done"}, UNCHANGED <<child, queue, sub_data>>,
         child \in [Workers -> {"new", "running", "ended", "died"}],
         parent \notin {"start", "get"}, NoneLeft
  PROVE  FixedOK'
<1>1. ~Working' /\ NoneLeft'
  BY DEF Working, NoneLeft
<1> QED BY <1>1 DEF FixedOK

\* The results of a snapshot: every point once, in whatever order the messages came, and
\* those that are kept are apart.
LEMMA StoredOnce ==
  ASSUME FixedOK, ResultTypes, AllTraced, CellsNamed, parent = "store"
  PROVE  /\ tidx \in Steps /\ Ready /\ AllHere
         /\ Once(Points(AsArrived), Expected(tidx)) /\ Once(Points(OldOrder), Expected(tidx))
         /\ \A p \in Expected(tidx) : p.sign \in Int
         /\ \A c \in Cells : NewCells(tidx)[c] = CellOf[FieldFile(tidx)][c].sign
<1>1. Working /\ Len(sub_data) = NProc /\ queue = << >> /\ NProc \in Nat \ {0}
  BY ForkAssumption DEF FixedOK, NoneLeft, Working
<1>2. Ready
  BY <1>1 DEF Ready, FixedOK, ResultTypes
<1>3. /\ queue \in Seq(FixedMessage) /\ sub_data \in Seq(FixedMessage)
      /\ \A i, j \in 1 .. Len(Messages) : (Messages[i].from = Messages[j].from) => i = j
  BY <1>1 DEF FixedOK
<1>4. /\ \A i \in 1 .. NProc :
           sub_data[i].from \in Workers /\ sub_data[i].data = SubFixed(sub_data[i].from)
      /\ \A i \in 1 .. Len(Messages) : Messages[i].from \in Workers
  BY <1>1, FixedFrom
<1>5. \A w \in Workers : \E i \in 1 .. NProc : sub_data[i].from = w
  BY <1>1, <1>3, <1>4, OneOfEach
<1>6. Messages = sub_data
  BY <1>1, <1>3 DEF Messages
<1>7. AllHere
  BY <1>1, <1>3, <1>4, <1>5, <1>6 DEF AllHere
<1>8. Once(Points(AsArrived), Expected(tidx))
  <2>1. \A a \in 1 .. NProc : AsArrived[a] = a
    BY DEF AsArrived
  <2> QED BY <1>2, <1>7, <2>1, PointsOnce
<1>9. Once(Points(OldOrder), Expected(tidx))
  <2>1. \A a \in 1 .. NProc : OldOrder[a] = sub_data[a].from + 1 /\ OldOrder[a] \in 1 .. NProc
    BY <1>1, <1>4 DEF OldOrder, Workers
  <2>2. \A a, b \in 1 .. NProc : OldOrder[a] = OldOrder[b] => a = b
    <3> SUFFICES ASSUME NEW a \in 1 .. NProc, NEW b \in 1 .. NProc, OldOrder[a] = OldOrder[b]
                 PROVE  a = b
      OBVIOUS
    <3>1. sub_data[a].from = sub_data[b].from
      BY <1>4, <2>1 DEF Workers
    <3> QED BY <1>7, <3>1 DEF AllHere
  <2>3. \A i \in 1 .. NProc : \E a \in 1 .. NProc : OldOrder[a] = i
    <3> TAKE i \in 1 .. NProc
    <3>1. i - 1 \in Workers
      BY <1>1 DEF Workers
    <3>2. PICK a \in 1 .. NProc : sub_data[a].from = i - 1
      BY <1>5, <3>1
    <3> QED BY <2>1, <3>2
  <2> QED BY <1>2, <1>7, <2>1, <2>2, <2>3, PointsOnce
<1>10. \A c \in Cells : NewCells(tidx)[c] = CellOf[FieldFile(tidx)][c].sign
  BY <1>2, <1>7, EveryIndex DEF Cell
<1>11. \A p \in Expected(tidx) : p.sign \in Int
  BY <1>2, ExpectedHolding, SearchFinds DEF Holding
<1> QED BY <1>2, <1>7, <1>8, <1>9, <1>10, <1>11, FileThere

\* What is known of the results of one snapshot.
SignSum(S) == MapThenSumSet(LAMBDA p : p.sign, S)
FoundAt(k) ==
  /\ Len(found[k]) = Cardinality(Expected(k))
  /\ {found[k][i] : i \in 1 .. Len(found[k])} = Expected(k)
  /\ ~old => /\ \A c \in Cells : poincare[k][c] = CellOf[FieldFile(k)][c].sign
             /\ fidx[k] = SignSum(Expected(k))
KeptAt(k) ==
  \A i, j \in 1 .. Len(fixed[k]) : i # j => Apart(fixed[k][i], fixed[k][j])

LEMMA ResultsAt ==
  /\ EveryPointOnce <=> \A k \in Steps : k < tidx => FoundAt(k)
  /\ KeptApart <=> (~old => \A k \in Steps : KeptAt(k))
BY Zenon DEF EveryPointOnce, FoundAt, KeptApart, KeptAt, SignSum

\* A step that stores nothing keeps what is known of the results.
LEMMA ResultsStay ==
  ASSUME FoundInv, UNCHANGED <<input, x1, tidx, fixed, fidx, poincare, found>>,
         stage' \in {"tracers", "fixed"}
  PROVE  ResultTypes' /\ EveryPointOnce' /\ KeptApart'
<1>1. ResultTypes'
  BY SameTraced DEF FoundInv, FixedInv, ResultTypes, input
<1>2. EveryPointOnce'
  <2> SUFFICES ASSUME NEW k \in Steps', k < tidx' PROVE FoundAt(k)'
    BY Zenon DEF EveryPointOnce, FoundAt, SignSum
  <2>1. FoundAt(k)
    BY SameTraced, ResultsAt DEF FoundInv
  <2> QED BY <2>1, SameTraced DEF FoundAt
<1>3. KeptApart'
  BY SameTraced DEF FoundInv, KeptApart
<1> QED BY <1>1, <1>2, <1>3

\* The points of the snapshot are entered: for all other snapshots nothing changes.
LEMMA StoreNew ==
  ASSUME FoundInv, CellsNamed, StoreFixed
  PROVE  ResultTypes' /\ EveryPointOnce' /\ KeptApart'
<1> DEFINE points == Points(AsArrived)
<1>1. /\ stage = "fixed" /\ parent = "store" /\ ~old
      /\ found' = [found EXCEPT ![tidx] = points]
      /\ fixed' = [fixed EXCEPT ![tidx] = DiscardClose(points)]
      /\ fidx' = [fidx EXCEPT ![tidx] = FoldSeq(LAMBDA p, n : p.sign + n, 0, points)]
      /\ poincare' = [poincare EXCEPT ![tidx] = NewCells(tidx)]
      /\ tidx' = tidx + 1 /\ stage' = "fixed"
      /\ UNCHANGED <<input, x1>>
  BY Zenon DEF StoreFixed, seriesVars
<1>2. ResultTypes /\ AllTraced /\ FixedOK /\ EveryPointOnce /\ KeptApart
  BY <1>1, Zenon DEF FoundInv, FixedInv
<1>0. tidx' = tidx + 1 /\ UNCHANGED input /\ old' = old
  BY <1>1, Zenon DEF input
<1>3. /\ tidx \in Steps /\ Once(points, Expected(tidx)) /\ \A p \in Expected(tidx) : p.sign \in Int
      /\ \A c \in Cells : NewCells(tidx)[c] = CellOf[FieldFile(tidx)][c].sign
  BY <1>1, <1>2, StoredOnce
<1>4. /\ Len(points) = Cardinality(Expected(tidx))
      /\ {points[i] : i \in 1 .. Len(points)} = Expected(tidx)
      /\ FoldSeq(LAMBDA p, n : p.sign + n, 0, points) = MapThenSumSet(LAMBDA p : p.sign, Expected(tidx))
  BY <1>3, CountedOnce, Zenon
<1>5. /\ Len(DiscardClose(points)) \in Nat
      /\ \A i, j \in 1 .. Len(DiscardClose(points)) :
           i # j => Apart(DiscardClose(points)[i], DiscardClose(points)[j])
  <2>1. points \in Seq(Expected(tidx))
    BY <1>3, Zenon DEF Once
  <2> HIDE DEF points
  <2> QED BY <2>1, DiscardedApart
<1>6. /\ Steps' = Steps /\ tidx \in Nat /\ nTimes \in Nat
      /\ \A k \in Steps : k \in Int /\ (k < tidx' => k < tidx \/ k = tidx)
  <2>1. Steps' = Steps
    BY <1>1, SameTraced
  <2>2. tidx \in Nat /\ nTimes \in Nat
    BY <1>2, InputTypes DEF ResultTypes
  <2> QED BY <1>0, <2>1, <2>2 DEF Steps
<1>7. ResultTypes'
  <2>1. DOMAIN found' = Steps /\ DOMAIN fixed' = Steps /\ DOMAIN fidx' = Steps /\ DOMAIN poincare' = Steps
    BY <1>1, <1>2, Zenon DEF ResultTypes
  <2>2. tidx' \in Nat /\ input' \in Inputs
    BY <1>0, <1>2, <1>6 DEF ResultTypes
  <2>3. old' => ~series'
    BY <1>0, <1>2 DEF ResultTypes, series, input
  <2> QED BY <1>1, <1>6, <2>1, <2>2, <2>3 DEF ResultTypes
<1>8. /\ found'[tidx] = points /\ fixed'[tidx] = DiscardClose(points)
      /\ fidx'[tidx] = SignSum(Expected(tidx))
      /\ poincare'[tidx] = NewCells(tidx)
      /\ \A k \in Steps : k # tidx =>
           /\ found'[k] = found[k] /\ fixed'[k] = fixed[k] /\ fidx'[k] = fidx[k]
           /\ poincare'[k] = poincare[k]
  BY <1>1, <1>2, <1>3, <1>4, Zenon DEF ResultTypes, SignSum
<1>9. \A k : FieldFile(k)' = FieldFile(k) /\ Expected(k)' = Expected(k)
  BY <1>1, SameTraced
<1> HIDE DEF points
<1>10. EveryPointOnce'
  <2> SUFFICES ASSUME NEW k \in Steps, k < tidx' PROVE FoundAt(k)'
    BY <1>6, Zenon DEF EveryPointOnce, FoundAt, SignSum
  <2>1. CASE k = tidx
    <3>1. Len(found'[k]) = Cardinality(Expected(k)) /\ {found'[k][i] : i \in 1 .. Len(found'[k])} = Expected(k)
      BY <1>4, <1>8, <2>1, Zenon
    <3>2. \A c \in Cells : poincare'[k][c] = CellOf[FieldFile(k)][c].sign
      BY <1>3, <1>8, <2>1
    <3>3. fidx'[k] = SignSum(Expected(k))
      BY <1>8, <2>1, Zenon
    <3> QED BY <1>9, <3>1, <3>2, <3>3 DEF FoundAt
  <2>2. CASE k # tidx
    <3>1. FoundAt(k)
      BY <1>2, <1>6, <2>2, ResultsAt
    <3> QED BY <1>0, <1>8, <1>9, <2>2, <3>1 DEF FoundAt
  <2> QED BY <2>1, <2>2
<1>11. KeptApart'
  <2> SUFFICES ASSUME NEW k \in Steps PROVE KeptAt(k)'
    BY <1>6 DEF KeptApart, KeptAt
  <2>1. CASE k = tidx
    BY <1>5, <1>8, <2>1 DEF KeptAt
  <2>2. CASE k # tidx
    <3>1. KeptAt(k)
      BY <1>1 DEF FoundInv, KeptApart, KeptAt
    <3> QED BY <1>8, <2>2, <3>1 DEF KeptAt
  <2> QED BY <2>1, <2>2
<1> QED BY <1>7, <1>10, <1>11

LEMMA StoreOld ==
  ASSUME FoundInv, CellsNamed, StoreFixedOld
  PROVE  ResultTypes' /\ EveryPointOnce' /\ KeptApart'
<1> DEFINE points == Points(OldOrder)
<1>a. stage = "fixed" /\ parent = "store" /\ old
  BY Zenon DEF StoreFixedOld
<1>b. tidx = 0
  <2>1. nTimes = 1 /\ tidx < nTimes /\ tidx \in Nat
    BY <1>a, Zenon DEF FoundInv, FixedInv, ResultTypes, FixedOK, Working, nTimes
  <2> QED BY <2>1
<1>1. /\ stage = "fixed" /\ parent = "store" /\ old
      /\ found' = [found EXCEPT ![tidx] = points]
      /\ fixed' = [fixed EXCEPT ![tidx] = points]
      /\ fidx' = [fidx EXCEPT ![tidx] = Len(points)]
      /\ tidx' = tidx + 1 /\ stage' = "fixed" /\ poincare' = poincare
      /\ UNCHANGED <<input, x1>>
  <2>1. 1 = tidx + 1
    BY <1>b
  <2> QED BY <1>a, <1>b, <2>1, Zenon DEF StoreFixedOld, seriesVars
<1>2. ResultTypes /\ AllTraced /\ FixedOK /\ EveryPointOnce /\ KeptApart
  BY <1>1, Zenon DEF FoundInv, FixedInv
<1>0. tidx' = tidx + 1 /\ UNCHANGED input /\ old' = old
  BY <1>1, Zenon DEF input
<1>3. tidx \in Steps /\ Once(points, Expected(tidx)) /\ \A p \in Expected(tidx) : p.sign \in Int
  BY <1>1, <1>2, StoredOnce
<1>4. /\ Len(points) = Cardinality(Expected(tidx))
      /\ {points[i] : i \in 1 .. Len(points)} = Expected(tidx)
  BY <1>3, CountedOnce, Zenon
<1>6. /\ Steps' = Steps /\ tidx \in Nat /\ nTimes \in Nat
      /\ \A k \in Steps : k \in Int /\ (k < tidx' => k < tidx \/ k = tidx)
  <2>1. Steps' = Steps
    BY <1>1, SameTraced
  <2>2. tidx \in Nat /\ nTimes \in Nat
    BY <1>2, InputTypes DEF ResultTypes
  <2> QED BY <1>0, <2>1, <2>2 DEF Steps
<1>7. ResultTypes'
  <2>1. DOMAIN found' = Steps /\ DOMAIN fixed' = Steps /\ DOMAIN fidx' = Steps /\ DOMAIN poincare' = Steps
    BY <1>1, <1>2, Zenon DEF ResultTypes
  <2>2. tidx' \in Nat /\ input' \in Inputs
    BY <1>0, <1>2, <1>6 DEF ResultTypes
  <2>3. old' => ~series'
    BY <1>0, <1>2 DEF ResultTypes, series, input
  <2> QED BY <1>1, <1>6, <2>1, <2>2, <2>3 DEF ResultTypes
<1>8. found'[tidx] = points /\ \A k \in Steps : k # tidx => found'[k] = found[k]
  BY <1>1, <1>2, <1>3, Zenon DEF ResultTypes
<1>9. /\ \A k : FieldFile(k)' = FieldFile(k) /\ Expected(k)' = Expected(k)
      /\ old'
  BY <1>1, SameTraced
<1> HIDE DEF points
<1>10. EveryPointOnce'
  <2> SUFFICES ASSUME NEW k \in Steps, k < tidx' PROVE FoundAt(k)'
    BY <1>6, Zenon DEF EveryPointOnce, FoundAt, SignSum
  <2>1. CASE k = tidx
    <3>1. Len(found'[k]) = Cardinality(Expected(k)) /\ {found'[k][i] : i \in 1 .. Len(found'[k])} = Expected(k)
      BY <1>4, <1>8, <2>1, Zenon
    <3> QED BY <1>9, <3>1, Zenon DEF FoundAt
  <2>2. CASE k # tidx
    <3>1. FoundAt(k)
      BY <1>2, <1>6, <2>2, ResultsAt
    <3> QED BY <1>0, <1>8, <1>9, <2>2, <3>1 DEF FoundAt
  <2> QED BY <2>1, <2>2
<1>11. KeptApart'
  BY <1>9 DEF KeptApart
<1> QED BY <1>7, <1>10, <1>11

LEMMA NextFound ==
  ASSUME Fitting, CellsNamed, FoundInv, MappingInv', [FixedNext]_allVars
  PROVE  FoundInv'
<1>0. MappingInv /\ ResultTypes
  BY DEF FoundInv, FixedInv
<1>1. ASSUME stage = "tracers", stage' = "tracers", UNCHANGED fixedVars,
             ParentStep \/ \E w \in Workers : WorkTracers(w)
      PROVE  FoundInv'
  <2>1. TracersInv /\ Traced /\ tidx = 0
    BY <1>1 DEF FoundInv, FixedInv, MappingInv
  <2>2. Traced'
    BY <1>1, <2>1, TracedSteps
  <2>3. UNCHANGED input
    BY <1>1 DEF ParentStep, ReadVar, IndexError, Return, Collect, Store, WorkTracers, seriesVars
  <2>4. tidx' = 0 /\ UNCHANGED <<fixed, fidx, poincare, found>>
    BY <1>1, <2>1 DEF fixedVars
  <2>5. /\ ti' = ti /\ tf' = tf /\ old' = old /\ nTimes' = nTimes /\ Steps' = Steps
        /\ nTimes \in Nat
    BY <1>0, <2>3, SameInput, InputTypes DEF input, Steps, ResultTypes
  <2>6. ResultTypes'
    <3>1. old' => ~series'
      BY <1>0, <2>3 DEF ResultTypes, series, input
    <3> QED BY <1>0, <1>1, <2>3, <2>4, <2>5, <3>1 DEF ResultTypes
  <2>7. EveryPointOnce'
    <3>1. \A k \in Steps' : ~(k < tidx')
      BY <2>4, <2>5 DEF Steps
    <3> QED BY <3>1 DEF EveryPointOnce
  <2>8. KeptApart'
    BY <2>4, <2>5 DEF FoundInv, KeptApart
  <2> QED BY <1>1, <2>2, <2>4, <2>6, <2>7, <2>8 DEF FoundInv, FixedInv
<1>2. CASE TracersParent \/ \E w \in Workers : TracersWork(w)
  <2>1. stage = "tracers" /\ stage' = "tracers" /\ UNCHANGED fixedVars
        /\ (ParentStep \/ \E w \in Workers : WorkTracers(w))
    BY <1>2 DEF TracersParent, TracersWork, fixedVars
  <2> QED BY <1>1, <2>1
<1>3. CASE BeginFixed
  <2>1. /\ stage = "tracers" /\ parent = "done" /\ stage' = "fixed" /\ parent' = "read"
        /\ UNCHANGED <<child, queue, sub_data, seriesVars, tidx, fixed, fidx, poincare, found>>
    BY <1>3 DEF BeginFixed
  <2>2. UNCHANGED <<input, x1>>
    BY <2>1 DEF seriesVars
  <2>3. TracersInv /\ Traced
    BY <2>1 DEF FoundInv, FixedInv, MappingInv
  <2>4. AllTraced'
    BY <1>0, <2>1, <2>2, <2>3, TracedAll, SameTraced DEF ResultTypes
  <2>5. FixedOK'
    BY <2>1, <2>3, FixedIdle DEF TracersInv, TypeOK
  <2>6. ResultTypes' /\ EveryPointOnce' /\ KeptApart'
    BY <2>1, <2>2, ResultsStay
  <2> QED BY <2>1, <2>4, <2>5, <2>6 DEF FoundInv, FixedInv
<1>4. ASSUME stage = "fixed", Quiet, FixedOK' PROVE FoundInv'
  <2>1. /\ stage' = "fixed"
        /\ UNCHANGED <<input, x1, tidx, fixed, fidx, poincare, found>>
    BY <1>4, QuietFacts
  <2>2. AllTraced'
    BY <1>4, <2>1, SameTraced DEF FoundInv, FixedInv
  <2>3. ResultTypes' /\ EveryPointOnce' /\ KeptApart'
    BY <2>1, ResultsStay
  <2> QED BY <1>4, <2>1, <2>2, <2>3 DEF FoundInv, FixedInv
<1>5. ASSUME stage = "fixed" PROVE AllTraced /\ FixedOK
  BY <1>5 DEF FoundInv, FixedInv
<1>6. CASE ReadField
  <2>1. stage = "fixed" /\ Quiet
    BY <1>6 DEF ReadField, Quiet
  <2> QED BY <1>0, <1>4, <1>5, <1>6, <2>1, FixedRead
<1>7. CASE ReturnFixed
  <2>1. stage = "fixed" /\ Quiet /\ parent = "read" /\ parent' = "done"
        /\ UNCHANGED <<child, queue, sub_data>>
    BY <1>7 DEF ReturnFixed, Quiet
  <2>2. FixedOK'
    BY <1>5, <2>1, FixedIdle DEF FixedOK
  <2> QED BY <1>4, <2>1, <2>2
<1>8. CASE FixedCollect
  <2>1. stage = "fixed" /\ Quiet /\ (Get \/ Join)
    BY <1>8 DEF FixedCollect, Quiet
  <2> QED BY <1>4, <1>5, <2>1, FixedGet, FixedJoin
<1>9. ASSUME NEW w \in Workers, FixedWork(w) PROVE FoundInv'
  <2>1. stage = "fixed" /\ Quiet /\ (Start(w) \/ Die(w) \/ Put(w, SubFixed(w)))
    BY <1>9 DEF FixedWork, Quiet
  <2> QED BY <1>4, <1>5, <2>1, FixedStartDie, FixedPut
<1>10. CASE StoreFixed \/ StoreFixedOld
  <2>1. /\ stage = "fixed" /\ stage' = "fixed" /\ parent = "store"
        /\ parent' \in {"read", "done"} /\ UNCHANGED <<child, queue, sub_data, input, x1>>
    BY <1>10, Zenon DEF StoreFixed, StoreFixedOld, seriesVars
  <2>2. FixedOK'
    BY <1>5, <2>1, FixedIdle DEF FixedOK
  <2>3. AllTraced'
    BY <1>5, <2>1, SameTraced
  <2>4. ResultTypes' /\ EveryPointOnce' /\ KeptApart'
    BY <1>10, StoreNew, StoreOld
  <2> QED BY <2>1, <2>2, <2>3, <2>4 DEF FoundInv, FixedInv
<1>11. CASE UNCHANGED allVars
  <2>1. /\ UNCHANGED <<input, x1, t_idx, t, stage, tidx, fixed, fidx, poincare, found>>
        /\ UNCHANGED <<parent, child, queue, sub_data>>
    BY <1>11 DEF allVars, vars, forkVars, seriesVars, fixedVars
  <2>2. ResultTypes' /\ EveryPointOnce' /\ KeptApart'
    BY <1>0, <2>1, ResultsStay DEF ResultTypes
  <2>3. CASE stage = "tracers"
    <3>1. Traced /\ tidx = 0
      BY <2>3 DEF FoundInv, FixedInv
    <3>2. FirstIdx' = FirstIdx /\ LastIdx' = LastIdx /\ (Working' <=> Working)
          /\ \A i : /\ FileOf(i)' = FileOf(i) /\ InRange(i)' = InRange(i)
                    /\ Entry(i)' = Entry(i) /\ Lines(i)' = Lines(i)
      BY <2>1, SameInput DEF Lines, Working
    <3>3. Traced'
      BY <2>1, <3>1, <3>2 DEF Traced
    <3> QED BY <2>1, <2>2, <2>3, <3>1, <3>3 DEF FoundInv, FixedInv
  <2>4. CASE stage = "fixed"
    <3>1. FixedOK'
      <4>1. nTimes' = nTimes /\ FixedMessage' = FixedMessage /\ (Working' <=> Working)
            /\ Messages' = Messages /\ (NoneLeft' <=> NoneLeft)
        BY <2>1, SameSearch DEF Working, Messages, NoneLeft
      <4> QED BY <1>5, <2>1, <2>4, <4>1 DEF FixedOK
    <3>2. AllTraced'
      BY <1>5, <2>1, <2>4, SameTraced
    <3> QED BY <2>1, <2>2, <2>4, <3>1, <3>2 DEF FoundInv, FixedInv
  <2> QED BY <1>0, <2>3, <2>4 DEF ResultTypes
<1> QED BY <1>2, <1>3, <1>6, <1>7, <1>8, <1>9, <1>10, <1>11 DEF FixedNext, FixedParent, FixedChild

LEMMA InitFound ==
  ASSUME InitFixed
  PROVE  FoundInv
<1>1. TracersInv /\ stage = "tracers" /\ tidx = 0 /\ t_idx = FirstIdx /\ parent = "read"
  BY InitInv DEF InitFixed, Init, InitFork
<1>2. input \in Inputs /\ t_idx \in Int
  BY <1>1 DEF TracersInv, TypeOK
<1>3. Traced
  BY <1>1, <1>2 DEF Traced
<1>4. ResultTypes
  BY <1>1, <1>2 DEF ResultTypes, InitFixed
<1>5. EveryPointOnce
  <2>1. \A k \in Steps : ~(k < tidx)
    BY <1>1, <1>2, InputTypes DEF Steps
  <2> QED BY <2>1 DEF EveryPointOnce
<1>6. KeptApart
  BY DEF KeptApart, InitFixed
<1> QED BY <1>1, <1>3, <1>4, <1>5, <1>6 DEF FoundInv, FixedInv, MappingInv

LEMMA FoundAlways ==
  ASSUME Fitting, CellsNamed
  PROVE  FixedSpec => []FoundInv
<1>1. InitFixed => FoundInv
  BY InitFound
<1>2. FoundInv /\ MappingInv' /\ [FixedNext]_allVars => FoundInv'
  BY NextFound
<1> QED BY <1>1, <1>2, MappingCorrect, PTL DEF FixedSpec

\* Whatever the number of processes and the order of their messages: every fixed point of a
\* snapshot is entered once, and the index of each cell and the total are those of a single
\* loop over the cells (fixed_points.py:305-349).
THEOREM PointsFoundOnce ==
  ASSUME Fitting, CellsNamed
  PROVE  FixedSpec => []EveryPointOnce
<1>1. FoundInv => EveryPointOnce
  BY DEF FoundInv
<1> QED BY <1>1, FoundAlways, PTL

\* No two of the points that are kept are close to one another, whatever the order in which
\* they came (fixed_points.py:349-365).
THEOREM PointsKeptApart ==
  ASSUME Fitting, CellsNamed
  PROVE  FixedSpec => []KeptApart
<1>1. FoundInv => KeptApart
  BY DEF FoundInv
<1> QED BY <1>1, FoundAlways, PTL
=============================================================================
