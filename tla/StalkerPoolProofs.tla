------------------------- MODULE StalkerPoolProofs -------------------------
(***************************************************************************)
(* For every number of files, dumps, particles, readers and every size of  *)
(* the chunks: the main process has every record and every count when it   *)
(* has met a None per reader on the two queues, and each group it writes   *)
(* is the whole trajectory of one particle.                                *)
(***************************************************************************)
EXTENDS StalkerPool, TLAPS, FiniteSetTheorems

IsIn(q, x) == \E k \in 1 .. Len(q) : q[k] = x
At(q, T) == {k \in 1 .. Len(q) : q[k] \in T}
Tags(q) == {<<q[m].of, q[m].t>> : m \in 1 .. Len(q)}
Distinct(q) == \A m, n \in 1 .. Len(q) : (q[m].of = q[n].of /\ q[m].t = q[n].t) => m = n

\* The records the files are to yield, and what may be on the two queues.
RecordOf(i, t) == [of |-> i, t |-> t, pars |-> On(i, t)]
Records == {RecordOf(x[1], x[2]) : x \in Recorded}
CountedIn(records, i) == {t \in Dumps : <<i, t>> \in records}
Counted(i) == CountedIn(Recorded, i)
Below(S, n) == {t \in S : t < n}
CountsOf(i) == [of |-> "counts", stalk |-> Cardinality(On(i, 1)),
                recorded |-> Cardinality(Counted(i))]

Holds(r) == reader[r].at \in {"read", "exited"}
Out == {r \in Readers : reader[r].at = "out"}
Held(i) == \E r \in Readers : Holds(r) /\ reader[r].file = i

ReaderStates == [at : {"idle", "read", "out", "exited"}, file : Procs \cup {0},
                 pos : Nat, procdata : Seq(Records), recorded : Nat]
ChunkAnswers == [of : {"chunk"}, data : Seq(Records)]
CountAnswers == [of : {"counts"}, stalk : Nat, recorded : Nat]

PoolTypes ==
  /\ run \in Runs /\ unfinished \in Int
  /\ tasksq \in Seq(Procs \cup {Pill})
  /\ reader \in [Readers -> ReaderStates]
  /\ resultsq \in Seq({None} \cup ChunkAnswers) /\ resultsq2 \in Seq({None} \cup CountAnswers)
  /\ main \in {"q1", "q2", "group", "done", "failed"}
  /\ ndone \in Nat /\ rawdata \in Seq(Records) /\ nstalk_tot \in Nat /\ ndump \in Nat

\* Each file is handed out once, and the pills are behind the files: a reader is out for
\* each pill that is not on the queue any more.
TasksRight ==
  /\ \A j, k \in 1 .. Len(tasksq) : (tasksq[j] = tasksq[k] /\ tasksq[j] # Pill) => j = k
  /\ run.cores > 0 /\ tasksq # << >> => tasksq[Len(tasksq)] = Pill
  /\ Cardinality(At(tasksq, {Pill})) + Cardinality(Out) = run.cores
  /\ \A r \in Readers : Holds(r) =>
       /\ reader[r].file \in Procs /\ ~IsIn(tasksq, reader[r].file)
       /\ reader[r].pos \in 1 .. NDumps + 1
       /\ reader[r].recorded = Cardinality(Below(CountedIn(Recorded, reader[r].file), reader[r].pos))
  /\ \A r, s \in Readers : (Holds(r) /\ Holds(s) /\ reader[r].file = reader[s].file) => r = s
  /\ \A r \in Readers : ~Holds(r) => reader[r].procdata = << >>
  /\ Readers = {} => unfinished = Cardinality(Procs) /\ tasksq = SetToSeq(Procs)

\* Each reader that is out has its None on both queues, and the last message of all is one.
AllOut == \A r \in Readers : reader[r].at = "out"
PillsRight ==
  /\ main = "q1" => /\ ndone + Cardinality(At(resultsq, {None})) = Cardinality(Out)
                    /\ Cardinality(At(resultsq2, {None})) = Cardinality(Out)
  /\ main = "q2" => ndone + Cardinality(At(resultsq2, {None})) = Cardinality(Out)
  /\ AllOut /\ resultsq # << >> => resultsq[Len(resultsq)] = None
  /\ AllOut /\ resultsq2 # << >> => resultsq2[Len(resultsq2)] = None
  /\ main # "q1" /\ run.cores > 0 => AllOut /\ tasksq = << >> /\ resultsq = << >>

TasksInv == PoolTypes /\ TasksRight /\ PillsRight

\* Every record is still to be read, or in one place: with a reader, in a chunk on the
\* queue, or with the main process.
Pending(x) ==
  \/ IsIn(tasksq, x[1])
  \/ \E r \in Readers : Holds(r) /\ reader[r].file = x[1] /\ reader[r].pos <= x[2]
DataAt(k) == IF resultsq[k] = None THEN << >> ELSE resultsq[k].data
Chunks == 1 .. Len(resultsq)

Raw == Tags(rawdata)
Bag(k) == Tags(DataAt(k))
Kept(r) == Tags(reader[r].procdata)
Collected(x) == x \in Raw \/ (\E k \in Chunks : x \in Bag(k)) \/ (\E r \in Readers : x \in Kept(r))

\* No record is in two places, or twice in one.
RecordsRight ==
  /\ Distinct(rawdata)
  /\ \A k \in Chunks : Distinct(DataAt(k))
  /\ \A r \in Readers : Distinct(reader[r].procdata)
  /\ \A k \in Chunks : Raw \cap Bag(k) = {}
  /\ \A r \in Readers : Raw \cap Kept(r) = {}
  /\ \A j, k \in Chunks : j # k => Bag(j) \cap Bag(k) = {}
  /\ \A r \in Readers, k \in Chunks : Bag(k) \cap Kept(r) = {}
  /\ \A r, s \in Readers : r # s => Kept(r) \cap Kept(s) = {}
  /\ \A x : Collected(x) <=> x \in Recorded /\ ~Pending(x)

\* Every file is still to be read, or its counts are on the queue, or in the totals:
\* names are the files the counts on the queue are of, C those in the totals.
Open(i) == IsIn(tasksq, i) \/ Held(i)
Seen(C) == UNION {On(i, 1) : i \in C}
Named(names, C) ==
  /\ names \in Seq(Procs \cup {Pill}) /\ Len(names) = Len(resultsq2)
  /\ \A k \in 1 .. Len(names) : resultsq2[k] = IF names[k] = Pill THEN None ELSE CountsOf(names[k])
  /\ \A j, k \in 1 .. Len(names) : (names[j] = names[k] /\ names[j] # Pill) => j = k
  /\ C \in SUBSET Procs
  /\ \A k \in 1 .. Len(names) : names[k] \in Procs => names[k] \notin C /\ ~Open(names[k])
  /\ \A i \in C : ~Open(i)
  /\ \A i \in Procs : i \in C \/ Open(i) \/ IsIn(names, i)
  /\ nstalk_tot = Cardinality(Seen(C))
  /\ \A i \in C : Cardinality(Counted(i)) <= ndump
CountsRight == main \in {"q1", "q2"} => \E names, C : Named(names, C)

-----------------------------------------------------------------------------
(* Counting in sequences *)

LEMMA AtFinite ==
  ASSUME NEW S, NEW q \in Seq(S), NEW T
  PROVE  IsFiniteSet(At(q, T)) /\ Cardinality(At(q, T)) \in Nat
<1>1. Len(q) \in Nat
  OBVIOUS
<1>2. IsFiniteSet(1 .. Len(q)) /\ At(q, T) \in SUBSET (1 .. Len(q))
  BY <1>1, FS_Interval DEF At
<1> QED BY <1>2, FS_Subset, FS_CardinalityType

LEMMA AtAppend ==
  ASSUME NEW S, NEW q \in Seq(S), NEW x \in S, NEW T
  PROVE  Cardinality(At(Append(q, x), T))
           = IF x \in T THEN Cardinality(At(q, T)) + 1 ELSE Cardinality(At(q, T))
<1>1. Len(q) \in Nat
  OBVIOUS
<1>2. At(Append(q, x), T) = IF x \in T THEN At(q, T) \cup {Len(q) + 1} ELSE At(q, T)
  <2> DEFINE p == Append(q, x)
  <2>1. Len(p) = Len(q) + 1 /\ p[Len(q) + 1] = x /\ \A k \in 1 .. Len(q) : p[k] = q[k]
    OBVIOUS
  <2> HIDE DEF p
  <2>2. 1 .. Len(q) + 1 = (1 .. Len(q)) \cup {Len(q) + 1}
    BY <1>1
  <2>3. At(p, T) = IF x \in T THEN At(q, T) \cup {Len(q) + 1} ELSE At(q, T)
    BY <1>1, <2>1, <2>2 DEF At
  <2> QED BY <2>3 DEF p
<1>3. Len(q) + 1 \notin At(q, T)
  BY <1>1 DEF At
<1> QED BY <1>2, <1>3, AtFinite, FS_AddElement

LEMMA AtTail ==
  ASSUME NEW S, NEW q \in Seq(S), q # << >>, NEW T
  PROVE  Cardinality(At(q, T))
           = IF Head(q) \in T THEN Cardinality(At(Tail(q), T)) + 1 ELSE Cardinality(At(Tail(q), T))
<1> DEFINE p == Tail(q)
<1>1. /\ p \in Seq(S) /\ Len(q) \in Nat /\ Len(q) >= 1 /\ Len(p) = Len(q) - 1
      /\ \A k \in 1 .. Len(p) : p[k] = q[k + 1]
      /\ Head(q) = q[1]
  OBVIOUS
<1> HIDE DEF p
<1> DEFINE rest == At(q, T) \ {1}
           f == [k \in At(p, T) |-> k + 1]
<1>2. f \in Bijection(At(p, T), rest)
  <2>1. \A k \in At(p, T) : k \in Nat /\ k + 1 \in rest
    BY <1>1 DEF At
  <2>2. \A j \in rest : j - 1 \in At(p, T) /\ j = (j - 1) + 1
    BY <1>1 DEF At
  <2>3. f \in [At(p, T) -> rest] /\ \A k \in At(p, T) : f[k] = k + 1
    BY <2>1
  <2> HIDE DEF f
  <2>4. \A j, k \in At(p, T) : f[j] = f[k] => j = k
    BY <2>1, <2>3
  <2>5. \A j \in rest : \E k \in At(p, T) : f[k] = j
    BY <2>2, <2>3
  <2> QED BY <2>3, <2>4, <2>5 DEF Bijection, Injection, Surjection, IsInjective
<1>3. IsFiniteSet(At(p, T)) /\ IsFiniteSet(At(q, T)) /\ Cardinality(At(q, T)) \in Nat
  BY <1>1, AtFinite
<1>4. Cardinality(rest) = Cardinality(At(p, T))
  BY <1>2, <1>3, FS_Bijection DEF ExistsBijection
<1>5. Cardinality(rest) = IF 1 \in At(q, T) THEN Cardinality(At(q, T)) - 1 ELSE Cardinality(At(q, T))
  BY <1>3, FS_RemoveElement
<1>6. 1 \in At(q, T) <=> Head(q) \in T
  BY <1>1 DEF At
<1> QED BY <1>3, <1>4, <1>5, <1>6 DEF p

-----------------------------------------------------------------------------
(* The records of a sequence *)

LEMMA NoTags == Tags(<< >>) = {} /\ Distinct(<< >>)
BY DEF Tags, Distinct

LEMMA TagsAppend ==
  ASSUME NEW S, NEW q \in Seq(S), NEW d \in S, Distinct(q), <<d.of, d.t>> \notin Tags(q)
  PROVE  /\ Tags(Append(q, d)) = Tags(q) \cup {<<d.of, d.t>>}
         /\ Distinct(Append(q, d))
<1> DEFINE p == Append(q, d)
<1>1. Len(q) \in Nat /\ Len(p) = Len(q) + 1 /\ p[Len(q) + 1] = d
  OBVIOUS
<1>2. \A k \in 1 .. Len(q) : p[k] = q[k]
  OBVIOUS
<1> HIDE DEF p
<1>3. 1 .. Len(p) = (1 .. Len(q)) \cup {Len(q) + 1}
  BY <1>1
<1>4. Tags(p) = Tags(q) \cup {<<d.of, d.t>>}
  BY <1>1, <1>2, <1>3 DEF Tags
<1>5. \A k \in 1 .. Len(q) : ~(q[k].of = d.of /\ q[k].t = d.t)
  BY DEF Tags
<1>6. Distinct(p)
  BY <1>1, <1>2, <1>3, <1>5 DEF Distinct
<1> QED BY <1>4, <1>6 DEF p

LEMMA TagsConcat ==
  ASSUME NEW S, NEW q \in Seq(S), NEW c \in Seq(S), Distinct(q), Distinct(c),
         Tags(q) \cap Tags(c) = {}
  PROVE  Tags(q \o c) = Tags(q) \cup Tags(c) /\ Distinct(q \o c)
<1> DEFINE p == q \o c
<1>1. Len(q) \in Nat /\ Len(c) \in Nat /\ Len(p) = Len(q) + Len(c)
  OBVIOUS
<1>2. \A k \in 1 .. Len(q) : p[k] = q[k]
  OBVIOUS
<1>3. \A k \in 1 .. Len(c) : p[Len(q) + k] = c[k]
  OBVIOUS
<1> HIDE DEF p
<1>4. \A k \in 1 .. Len(p) : k \in 1 .. Len(q) \/ (k - Len(q) \in 1 .. Len(c) /\ k = Len(q) + (k - Len(q)))
  BY <1>1
<1>5. \A k \in 1 .. Len(q) : k \in 1 .. Len(p)
  BY <1>1
<1>6. \A k \in 1 .. Len(c) : Len(q) + k \in 1 .. Len(p)
  BY <1>1
<1>7. Tags(p) = Tags(q) \cup Tags(c)
  <2>1. ASSUME NEW k \in 1 .. Len(p) PROVE <<p[k].of, p[k].t>> \in Tags(q) \cup Tags(c)
    <3>1. CASE k \in 1 .. Len(q)
      BY <1>2, <3>1 DEF Tags
    <3>2. CASE k - Len(q) \in 1 .. Len(c) /\ k = Len(q) + (k - Len(q))
      <4>1. p[k] = c[k - Len(q)]
        BY <1>3, <3>2
      <4> QED BY <3>2, <4>1 DEF Tags
    <3> QED BY <1>4, <3>1, <3>2
  <2>2. Tags(q) \subseteq Tags(p)
    BY <1>2, <1>5 DEF Tags
  <2>3. ASSUME NEW k \in 1 .. Len(c) PROVE <<c[k].of, c[k].t>> \in Tags(p)
    BY <1>3, <1>6 DEF Tags
  <2>4. Tags(c) \subseteq Tags(p)
    BY <2>3 DEF Tags
  <2>5. Tags(p) \subseteq Tags(q) \cup Tags(c)
    <3> HIDE DEF Tags
    <3> QED BY <2>1 DEF Tags
  <2> QED BY <2>2, <2>4, <2>5
<1>8. \A j \in 1 .. Len(q), k \in 1 .. Len(c) : ~(q[j].of = c[k].of /\ q[j].t = c[k].t)
  BY DEF Tags
<1>9. Distinct(p)
  <2> SUFFICES ASSUME NEW m \in 1 .. Len(p), NEW n \in 1 .. Len(p),
                      p[m].of = p[n].of, p[m].t = p[n].t
               PROVE  m = n
    BY DEF Distinct
  <2>1. CASE m \in 1 .. Len(q) /\ n \in 1 .. Len(q)
    BY <1>2, <2>1 DEF Distinct
  <2>2. CASE m \notin 1 .. Len(q) /\ n \notin 1 .. Len(q)
    <3>1. p[m] = c[m - Len(q)] /\ p[n] = c[n - Len(q)]
      BY <1>3, <1>4, <2>2
    <3>2. m - Len(q) = n - Len(q)
      BY <1>4, <2>2, <3>1 DEF Distinct
    <3> QED BY <1>1, <3>2
  <2>3. CASE m \in 1 .. Len(q) /\ n \notin 1 .. Len(q)
    <3>1. p[m] = q[m] /\ n - Len(q) \in 1 .. Len(c) /\ p[n] = c[n - Len(q)]
      BY <1>2, <1>3, <1>4, <2>3
    <3> QED BY <1>8, <2>3, <3>1
  <2>4. CASE m \notin 1 .. Len(q) /\ n \in 1 .. Len(q)
    <3>1. p[n] = q[n] /\ m - Len(q) \in 1 .. Len(c) /\ p[m] = c[m - Len(q)]
      BY <1>2, <1>3, <1>4, <2>4
    <3> QED BY <1>8, <2>4, <3>1
  <2> QED BY <2>1, <2>2, <2>3, <2>4
<1> QED BY <1>7, <1>9 DEF p

LEMMA TagCount ==
  ASSUME NEW S, NEW q \in Seq(S), Distinct(q)
  PROVE  Len(q) = Cardinality(Tags(q))
<1> DEFINE I == 1 .. Len(q)
           f == [k \in I |-> <<q[k].of, q[k].t>>]
<1>1. Len(q) \in Nat
  OBVIOUS
<1>2. f \in Bijection(I, Tags(q))
  BY DEF Tags, Distinct, Bijection, Injection, Surjection, IsInjective
<1>3. IsFiniteSet(I) /\ Cardinality(I) = Len(q)
  BY <1>1, FS_Interval, SMTT(20)
<1> QED BY <1>2, <1>3, FS_Bijection DEF ExistsBijection

-----------------------------------------------------------------------------
(* Files, tasks and pills *)

LEMMA FileList ==
  LET f == SetToSeq(Procs)
  IN /\ f \in Seq(Procs) /\ Len(f) = Cardinality(Procs) /\ Cardinality(Procs) \in Nat
     /\ \A j, k \in 1 .. Len(f) : f[j] = f[k] => j = k
     /\ \A i \in Procs : \E k \in 1 .. Len(f) : f[k] = i
<1> DEFINE n == Cardinality(Procs)
           D == 1 .. n
           f == SetToSeq(Procs)
<1>1. n \in Nat /\ ExistsBijection(D, Procs) /\ IsFiniteSet(Procs)
  BY PoolAssumption, FS_CardinalityType
<1>2. IsFiniteSet(D) /\ Cardinality(D) = n
  BY <1>1, FS_Interval
<1>3. \E g \in [D -> Procs] : IsInjective(g)
  <2>1. PICK g \in Bijection(D, Procs) : TRUE
    BY <1>1 DEF ExistsBijection
  <2> QED BY <2>1 DEF Bijection, Injection, IsInjective
<1>4. f \in [D -> Procs] /\ IsInjective(f)
  BY <1>3 DEF SetToSeq
<1>5. f \in Injection(D, Procs)
  BY <1>4 DEF Injection, IsInjective
<1>6. f \in Surjection(D, Procs)
  BY <1>1, <1>2, <1>5, FS_Injection
<1> HIDE DEF f
<1>7. f \in Seq(Procs) /\ Len(f) = n
  BY <1>1, <1>4
<1> QED BY <1>1, <1>4, <1>6, <1>7 DEF f, Surjection, IsInjective

LEMMA FirstNumbers ==
  ASSUME NEW n \in Nat
  PROVE  IsFiniteSet(1 .. n) /\ Cardinality(1 .. n) = n
BY FS_Interval

LEMMA RunTypes ==
  ASSUME run \in Runs
  PROVE  /\ run.cores \in Nat
         /\ IsFiniteSet(Readers) /\ Cardinality(Readers) = run.cores
         /\ (Readers = {} <=> run.cores = 0)
<1>1. run.cores \in Nat
  BY PoolAssumption
<1>2. IsFiniteSet(Readers) /\ Cardinality(Readers) = run.cores
  BY <1>1, FirstNumbers DEF Readers
<1>3. Readers = {} <=> run.cores = 0
  BY <1>1 DEF Readers
<1> QED BY <1>1, <1>2, <1>3

LEMMA CountFacts ==
  /\ IsFiniteSet(Dumps) /\ NDumps \in Nat
  /\ \A i : IsFiniteSet(On(i, 1)) /\ Cardinality(On(i, 1)) \in Nat /\ On(i, 1) \subseteq Pars
  /\ \A i : IsFiniteSet(Counted(i)) /\ Cardinality(Counted(i)) \in Nat
<1>1. NDumps \in Nat /\ IsFiniteSet(Pars)
  BY PoolAssumption
<1>2. IsFiniteSet(Dumps)
  BY <1>1, FS_Interval DEF Dumps
<1>3. ASSUME NEW i PROVE IsFiniteSet(On(i, 1)) /\ Cardinality(On(i, 1)) \in Nat /\ On(i, 1) \subseteq Pars
  <2>1. On(i, 1) \in SUBSET Pars
    BY DEF On, InFile
  <2> QED BY <1>1, <2>1, FS_Subset, FS_CardinalityType
<1>4. ASSUME NEW i PROVE IsFiniteSet(Counted(i)) /\ Cardinality(Counted(i)) \in Nat
  <2>1. Counted(i) \in SUBSET Dumps
    BY DEF Counted, CountedIn
  <2> QED BY <1>2, <2>1, FS_Subset, FS_CardinalityType
<1> QED BY <1>1, <1>2, <1>3, <1>4

\* What the program reads does not change.
LEMMA SameRun ==
  ASSUME UNCHANGED run
  PROVE  /\ Readers' = Readers /\ Recorded' = Recorded /\ Records' = Records
         /\ \A i, x : On(i, x)' = On(i, x)
         /\ \A i : Counted(i)' = Counted(i) /\ CountsOf(i)' = CountsOf(i)
BY DEF Readers, Recorded, Records, RecordOf, On, InFile, Counted, CountsOf

\* A task is taken off the queue.
LEMMA Taken ==
  ASSUME TasksInv, tasksq # << >>, NEW i, i = Head(tasksq), tasksq' = Tail(tasksq)
  PROVE  /\ i \in Procs \cup {Pill} /\ tasksq' \in Seq(Procs \cup {Pill})
         /\ \A j, k \in 1 .. Len(tasksq') : (tasksq'[j] = tasksq'[k] /\ tasksq'[j] # Pill) => j = k
         /\ run.cores > 0 /\ tasksq' # << >> => tasksq'[Len(tasksq')] = Pill
         /\ Cardinality(At(tasksq, {Pill})) =
              IF i = Pill THEN Cardinality(At(tasksq', {Pill})) + 1 ELSE Cardinality(At(tasksq', {Pill}))
         /\ Cardinality(At(tasksq', {Pill})) \in Nat
         /\ IsIn(tasksq, i) /\ (i # Pill => ~IsIn(tasksq', i))
         /\ \A j : j # i => (IsIn(tasksq', j) <=> IsIn(tasksq, j))
<1> DEFINE p == Tail(tasksq)
           S == Procs \cup {Pill}
<1>1. tasksq \in Seq(S)
  BY DEF TasksInv, PoolTypes
<1>2. /\ p \in Seq(S) /\ Len(tasksq) \in Nat /\ Len(tasksq) >= 1 /\ Len(p) = Len(tasksq) - 1
      /\ \A k \in 1 .. Len(p) : p[k] = tasksq[k + 1]
      /\ i = tasksq[1] /\ i \in S
  BY <1>1
<1>3. /\ \A j, k \in 1 .. Len(tasksq) : (tasksq[j] = tasksq[k] /\ tasksq[j] # Pill) => j = k
      /\ run.cores > 0 => tasksq[Len(tasksq)] = Pill
  BY DEF TasksInv, TasksRight
<1>4. /\ Cardinality(At(tasksq, {Pill})) =
           IF i = Pill THEN Cardinality(At(p, {Pill})) + 1 ELSE Cardinality(At(p, {Pill}))
      /\ Cardinality(At(p, {Pill})) \in Nat
  BY <1>1, <1>2, AtTail, AtFinite
<1>5. p # << >> => Len(p) \in 1 .. Len(p) /\ Len(p) + 1 = Len(tasksq)
  BY <1>2
<1> HIDE DEF p
<1>6. \A k \in 1 .. Len(p) : k + 1 \in 1 .. Len(tasksq) /\ k \in Nat
  BY <1>2
<1>7. \A j, k \in 1 .. Len(p) : (p[j] = p[k] /\ p[j] # Pill) => j = k
  <2> SUFFICES ASSUME NEW j \in 1 .. Len(p), NEW k \in 1 .. Len(p), p[j] = p[k], p[j] # Pill
               PROVE  j = k
    OBVIOUS
  <2>1. j + 1 = k + 1
    BY <1>2, <1>3, <1>6
  <2> QED BY <1>6, <2>1
<1>8. run.cores > 0 /\ p # << >> => p[Len(p)] = Pill
  BY <1>2, <1>3, <1>5
<1>9. \A k \in 1 .. Len(tasksq) : k = 1 \/ (k - 1 \in 1 .. Len(p) /\ p[k - 1] = tasksq[k])
  BY <1>2
<1>10. \A j : IsIn(tasksq, j) <=> (i = j \/ \E k \in 1 .. Len(p) : p[k] = j)
  BY <1>2, <1>6, <1>9 DEF IsIn
<1>11. tasksq' = p
  BY DEF p
<1>12. i # Pill => ~ \E k \in 1 .. Len(p) : p[k] = i
  <2> SUFFICES ASSUME i # Pill, NEW k \in 1 .. Len(p), p[k] = i PROVE FALSE
    OBVIOUS
  <2>1. tasksq[k + 1] = tasksq[1] /\ 1 \in 1 .. Len(tasksq)
    BY <1>2
  <2>2. k + 1 = 1
    BY <1>2, <1>3, <1>6, <2>1
  <2> QED BY <1>6, <2>2
<1>13. \A j : IsIn(tasksq', j) <=> \E k \in 1 .. Len(p) : p[k] = j
  BY <1>11 DEF IsIn
<1>14. /\ \A j, k \in 1 .. Len(tasksq') : (tasksq'[j] = tasksq'[k] /\ tasksq'[j] # Pill) => j = k
       /\ run.cores > 0 /\ tasksq' # << >> => tasksq'[Len(tasksq')] = Pill
       /\ tasksq' \in Seq(S)
  BY <1>2, <1>7, <1>8, <1>11
<1> QED BY <1>2, <1>4, <1>10, <1>11, <1>12, <1>13, <1>14

-----------------------------------------------------------------------------
(* Steps of the readers *)

LEMMA OneReader ==
  ASSUME TasksInv, UNCHANGED run, NEW r \in Readers, DOMAIN reader' = Readers,
         \A s \in Readers : s # r => reader'[s] = reader[s]
  PROVE  /\ Cardinality(Out) \in Nat
         /\ \A s \in Readers : s # r => (Holds(s)' <=> Holds(s))
         /\ (reader[r].at # "out" /\ reader'[r].at # "out") => Out' = Out
         /\ (reader[r].at # "out" /\ reader'[r].at = "out") => Cardinality(Out') = Cardinality(Out) + 1
<1>1. IsFiniteSet(Readers) /\ Readers' = Readers
  BY RunTypes, SameRun DEF TasksInv, PoolTypes
<1>2. Out \in SUBSET Readers
  BY DEF Out
<1>3. IsFiniteSet(Out) /\ Cardinality(Out) \in Nat
  BY <1>1, <1>2, FS_Subset, FS_CardinalityType
<1>4. reader[r].at # "out" /\ reader'[r].at # "out" => Out' = Out
  BY <1>1 DEF Out
<1>5. ASSUME reader[r].at # "out", reader'[r].at = "out" PROVE Cardinality(Out') = Cardinality(Out) + 1
  <2>1. Out' = Out \cup {r} /\ r \notin Out
    BY <1>1, <1>5 DEF Out
  <2> QED BY <1>3, <2>1, FS_AddElement
<1> QED BY <1>3, <1>4, <1>5 DEF Holds

\* A reader that is not out works before the main process turns to the second queue.
LEMMA ReadersFirst ==
  ASSUME TasksInv, NEW r \in Readers, reader[r].at # "out"
  PROVE  main = "q1" /\ run.cores > 0 /\ Readers # {}
<1>1. run.cores \in Nat
  BY RunTypes DEF TasksInv, PoolTypes
<1>2. run.cores > 0
  BY <1>1 DEF Readers
<1> QED BY <1>2 DEF TasksInv, PillsRight, AllOut

LEMMA TakeFileTasks ==
  ASSUME TasksInv, NEW r \in Readers, TakeFile(r)
  PROVE  /\ TasksInv'
         /\ reader[r].at = "idle" /\ reader'[r].at = "read" /\ reader'[r].file = Head(tasksq)
         /\ reader'[r].pos = 1 /\ reader'[r].procdata = << >>
         /\ Head(tasksq) \in Procs /\ IsIn(tasksq, Head(tasksq)) /\ ~IsIn(tasksq', Head(tasksq))
         /\ \A j : j # Head(tasksq) => (IsIn(tasksq', j) <=> IsIn(tasksq, j))
         /\ \A s \in Readers : s # r => reader'[s] = reader[s]
         /\ UNCHANGED <<run, unfinished, resultsq, resultsq2, main, ndone, rawdata, nstalk_tot, ndump>>
<1> DEFINE i == Head(tasksq)
<1>1. /\ reader[r].at = "idle" /\ tasksq # << >> /\ i # Pill
      /\ tasksq' = Tail(tasksq)
      /\ UNCHANGED <<run, unfinished, resultsq, resultsq2, main, ndone, rawdata, nstalk_tot, ndump>>
      /\ reader' = [reader EXCEPT ![r] = [Idle EXCEPT !.at = "read", !.file = i, !.pos = 1]]
  BY DEF TakeFile, totals
<1>2. i \in Procs
  BY <1>1, Taken
<1>3. reader \in [Readers -> ReaderStates] /\ run \in Runs
  BY DEF TasksInv, PoolTypes
<1>4. /\ \A s \in Readers : s # r => reader'[s] = reader[s]
      /\ reader'[r].at = "read" /\ reader'[r].file = i /\ reader'[r].pos = 1
      /\ reader'[r].procdata = << >> /\ reader'[r].recorded = 0
      /\ reader' \in [Readers -> ReaderStates] /\ DOMAIN reader' = Readers
  <2> DEFINE new == [Idle EXCEPT !.at = "read", !.file = i, !.pos = 1]
  <2>1. << >> \in Seq(Records)
    OBVIOUS
  <2>2. Idle \in ReaderStates /\ Idle.procdata = << >> /\ Idle.recorded = 0
    BY <2>1 DEF Idle, ReaderStates
  <2>3. new \in ReaderStates /\ new.at = "read" /\ new.file = i /\ new.pos = 1
        /\ new.procdata = << >> /\ new.recorded = 0
    BY <1>2, <2>2 DEF ReaderStates
  <2>5. reader' = [reader EXCEPT ![r] = new]
    BY <1>1
  <2> HIDE DEF new
  <2>4. /\ \A s \in Readers : s # r => reader'[s] = reader[s]
        /\ reader'[r] = new
        /\ reader' \in [Readers -> ReaderStates] /\ DOMAIN reader' = Readers
    BY <1>3, <2>3, <2>5
  <2> QED BY <2>3, <2>4
<1> HIDE DEF i
<1>5. /\ Readers' = Readers /\ Records' = Records /\ ReaderStates' = ReaderStates
      /\ ChunkAnswers' = ChunkAnswers
      /\ Recorded' = Recorded
  BY <1>1, SameRun DEF ReaderStates, ChunkAnswers
<1>6. /\ tasksq' \in Seq(Procs \cup {Pill})
      /\ \A j, k \in 1 .. Len(tasksq') : (tasksq'[j] = tasksq'[k] /\ tasksq'[j] # Pill) => j = k
      /\ run.cores > 0 /\ tasksq' # << >> => tasksq'[Len(tasksq')] = Pill
      /\ Cardinality(At(tasksq', {Pill})) = Cardinality(At(tasksq, {Pill}))
      /\ IsIn(tasksq, i) /\ ~IsIn(tasksq', i)
      /\ \A j : j # i => (IsIn(tasksq', j) <=> IsIn(tasksq, j))
  <2>1. i = Head(tasksq)
    BY DEF i
  <2>2. tasksq # << >> /\ i # Pill /\ tasksq' = Tail(tasksq)
    BY <1>1
  <2>3. /\ tasksq' \in Seq(Procs \cup {Pill})
        /\ \A j, k \in 1 .. Len(tasksq') : (tasksq'[j] = tasksq'[k] /\ tasksq'[j] # Pill) => j = k
        /\ run.cores > 0 /\ tasksq' # << >> => tasksq'[Len(tasksq')] = Pill
    BY <2>1, <2>2, Taken
  <2>4. Cardinality(At(tasksq', {Pill})) = Cardinality(At(tasksq, {Pill}))
    BY <2>1, <2>2, Taken
  <2>5. /\ IsIn(tasksq, i) /\ ~IsIn(tasksq', i)
        /\ \A j : j # i => (IsIn(tasksq', j) <=> IsIn(tasksq, j))
    BY <2>1, <2>2, Taken
  <2> QED BY <2>3, <2>4, <2>5
<1>7. /\ Out' = Out
      /\ \A s \in Readers : s # r => (Holds(s)' <=> Holds(s))
  BY <1>1, <1>4, OneReader
<1>8. main = "q1" /\ run.cores > 0 /\ Readers # {}
  BY <1>1, ReadersFirst
<1>9. PoolTypes'
  BY <1>1, <1>4, <1>5, <1>6 DEF TasksInv, PoolTypes
<1>10. TasksRight'
  <2>1. Cardinality(At(tasksq, {Pill})) + Cardinality(Out) = run.cores
    BY DEF TasksInv, TasksRight
  <2>2. ASSUME NEW s \in Readers, Holds(s)'
        PROVE  /\ reader'[s].file \in Procs /\ ~IsIn(tasksq', reader'[s].file)
               /\ reader'[s].pos \in 1 .. NDumps + 1
               /\ reader'[s].recorded = Cardinality(Below(CountedIn(Recorded, reader'[s].file), reader'[s].pos))
               /\ s # r => reader'[s].file # i
    <3>1. CASE s = r
      <4>1. Below(CountedIn(Recorded, i), 1) = {}
        BY DEF CountedIn, Dumps, Below
      <4>2. Cardinality(Below(CountedIn(Recorded, i), 1)) = 0 /\ 1 \in 1 .. NDumps + 1
        BY <4>1, FS_EmptySet, CountFacts
      <4> QED BY <1>2, <1>4, <1>6, <3>1, <4>2
    <3>2. CASE s # r
      <4>1. /\ reader[s].file \in Procs /\ ~IsIn(tasksq, reader[s].file)
            /\ reader[s].pos \in 1 .. NDumps + 1
            /\ reader[s].recorded = Cardinality(Below(CountedIn(Recorded, reader[s].file), reader[s].pos))
        BY <1>7, <2>2, <3>2 DEF TasksInv, TasksRight
      <4> QED BY <1>4, <1>6, <3>2, <4>1
    <3> QED BY <3>1, <3>2
  <2>3. ASSUME NEW s \in Readers, NEW u \in Readers, Holds(s)', Holds(u)', reader'[s].file = reader'[u].file
        PROVE  s = u
    <3>1. CASE s = r \/ u = r
      BY <1>4, <2>2, <2>3, <3>1
    <3>2. CASE s # r /\ u # r
      BY <1>4, <1>7, <2>3, <3>2 DEF TasksInv, TasksRight
    <3> QED BY <3>1, <3>2
  <2>4. ASSUME NEW s \in Readers, ~Holds(s)' PROVE reader'[s].procdata = << >>
    BY <1>4, <1>7, <2>4 DEF TasksInv, TasksRight
  <2> QED BY <1>1, <1>5, <1>6, <1>7, <1>8, <2>1, <2>2, <2>3, <2>4 DEF TasksRight
<1>11. PillsRight'
  <2>1. ~AllOut'
    BY <1>4, <1>5 DEF AllOut
  <2> QED BY <1>1, <1>7, <1>8, <2>1 DEF TasksInv, PillsRight
<1> QED BY <1>1, <1>2, <1>4, <1>6, <1>9, <1>10, <1>11 DEF TasksInv, i

LEMMA TakePillTasks ==
  ASSUME TasksInv, NEW r \in Readers, TakePill(r)
  PROVE  /\ TasksInv'
         /\ reader[r].at = "idle" /\ reader'[r].at = "out" /\ reader'[r].procdata = reader[r].procdata
         /\ \A j \in Procs : IsIn(tasksq', j) <=> IsIn(tasksq, j)
         /\ \A s \in Readers : s # r => reader'[s] = reader[s]
         /\ resultsq' = Append(resultsq, None) /\ resultsq2' = Append(resultsq2, None)
         /\ UNCHANGED <<run, main, ndone, rawdata, nstalk_tot, ndump>>
<1>1. /\ reader[r].at = "idle" /\ tasksq # << >> /\ Head(tasksq) = Pill
      /\ tasksq' = Tail(tasksq) /\ unfinished' = unfinished - 1
      /\ resultsq' = Append(resultsq, None) /\ resultsq2' = Append(resultsq2, None)
      /\ UNCHANGED <<run, main, ndone, rawdata, nstalk_tot, ndump>>
      /\ reader' = [reader EXCEPT ![r].at = "out"]
  BY DEF TakePill, totals
<1>3. reader \in [Readers -> ReaderStates] /\ run \in Runs
  BY DEF TasksInv, PoolTypes
<1>4. /\ \A s \in Readers : s # r => reader'[s] = reader[s]
      /\ reader'[r].at = "out" /\ reader'[r].procdata = reader[r].procdata
      /\ reader' \in [Readers -> ReaderStates] /\ DOMAIN reader' = Readers
  BY <1>1, <1>3 DEF ReaderStates
<1>5. /\ Readers' = Readers /\ Records' = Records /\ ReaderStates' = ReaderStates
      /\ ChunkAnswers' = ChunkAnswers
      /\ Recorded' = Recorded
  BY <1>1, SameRun DEF ReaderStates, ChunkAnswers
<1>6. /\ tasksq' \in Seq(Procs \cup {Pill})
      /\ \A j, k \in 1 .. Len(tasksq') : (tasksq'[j] = tasksq'[k] /\ tasksq'[j] # Pill) => j = k
      /\ run.cores > 0 /\ tasksq' # << >> => tasksq'[Len(tasksq')] = Pill
      /\ Cardinality(At(tasksq, {Pill})) = Cardinality(At(tasksq', {Pill})) + 1
      /\ Cardinality(At(tasksq', {Pill})) \in Nat
      /\ \A j \in Procs : IsIn(tasksq', j) <=> IsIn(tasksq, j)
  <2>1. Pill \notin Procs
    BY PoolAssumption DEF Pill
  <2> QED BY <1>1, <2>1, Taken
<1>7. /\ Cardinality(Out) \in Nat /\ Cardinality(Out') = Cardinality(Out) + 1
      /\ \A s \in Readers : s # r => (Holds(s)' <=> Holds(s))
      /\ ~Holds(r) /\ ~Holds(r)'
  BY <1>1, <1>4, OneReader DEF Holds
<1>8. main = "q1" /\ run.cores > 0 /\ Readers # {}
  BY <1>1, ReadersFirst
<1>9. /\ resultsq \in Seq({None} \cup ChunkAnswers) /\ resultsq2 \in Seq({None} \cup CountAnswers)
      /\ unfinished \in Int
  BY DEF TasksInv, PoolTypes
<1>10. PoolTypes'
  <2>1. run' \in Runs /\ unfinished' \in Int /\ tasksq' \in Seq(Procs \cup {Pill})
    BY <1>1, <1>6, <1>9 DEF TasksInv, PoolTypes
  <2>2. /\ main' \in {"q1", "q2", "group", "done", "failed"} /\ ndone' \in Nat
        /\ rawdata' \in Seq(Records') /\ nstalk_tot' \in Nat /\ ndump' \in Nat
    BY <1>1, <1>4, <1>5 DEF TasksInv, PoolTypes
  <2>3. reader' \in [Readers' -> ReaderStates']
    BY <1>1, <1>4, <1>5 DEF TasksInv, PoolTypes
  <2>4. resultsq' \in Seq({None} \cup ChunkAnswers') /\ resultsq2' \in Seq({None} \cup CountAnswers')
    BY <1>1, <1>4, <1>5, <1>9 DEF TasksInv, PoolTypes
  <2> QED BY <2>1, <2>2, <2>3, <2>4 DEF PoolTypes
<1>11. TasksRight'
  <2>1. Cardinality(At(tasksq', {Pill})) + Cardinality(Out') = run.cores
    BY <1>6, <1>7 DEF TasksInv, TasksRight
  <2>2. ASSUME NEW s \in Readers, Holds(s)'
        PROVE  /\ reader'[s].file \in Procs /\ ~IsIn(tasksq', reader'[s].file)
               /\ reader'[s].pos \in 1 .. NDumps + 1
               /\ reader'[s].recorded = Cardinality(Below(CountedIn(Recorded, reader'[s].file), reader'[s].pos))
    BY <1>4, <1>6, <1>7, <2>2 DEF TasksInv, TasksRight
  <2>3. ASSUME NEW s \in Readers, NEW u \in Readers, Holds(s)', Holds(u)', reader'[s].file = reader'[u].file
        PROVE  s = u
    BY <1>4, <1>7, <2>3 DEF TasksInv, TasksRight
  <2>4. ASSUME NEW s \in Readers, ~Holds(s)' PROVE reader'[s].procdata = << >>
    BY <1>4, <1>7, <2>4 DEF TasksInv, TasksRight
  <2> QED BY <1>1, <1>5, <1>6, <1>8, <2>1, <2>2, <2>3, <2>4 DEF TasksRight
<1>12. PillsRight'
  <2>1. /\ Cardinality(At(resultsq', {None})) = Cardinality(At(resultsq, {None})) + 1
        /\ Cardinality(At(resultsq2', {None})) = Cardinality(At(resultsq2, {None})) + 1
        /\ Cardinality(At(resultsq, {None})) \in Nat /\ Cardinality(At(resultsq2, {None})) \in Nat
    <3> DEFINE S == {None} \cup ChunkAnswers
               S2 == {None} \cup CountAnswers
    <3>1. None \in S /\ None \in S2 /\ None \in {None}
      OBVIOUS
    <3>2. resultsq \in Seq(S) /\ resultsq2 \in Seq(S2)
      BY <1>9
    <3> HIDE DEF S, S2
    <3>3. /\ Cardinality(At(resultsq', {None})) = Cardinality(At(resultsq, {None})) + 1
          /\ Cardinality(At(resultsq2', {None})) = Cardinality(At(resultsq2, {None})) + 1
      BY <1>1, <3>1, <3>2, AtAppend
    <3> QED BY <3>2, <3>3, AtFinite
  <2>2. /\ ndone + Cardinality(At(resultsq, {None})) = Cardinality(Out)
        /\ Cardinality(At(resultsq2, {None})) = Cardinality(Out) /\ ndone \in Nat
    BY <1>8 DEF TasksInv, PillsRight, PoolTypes
  <2>3. resultsq'[Len(resultsq')] = None /\ resultsq2'[Len(resultsq2')] = None
    BY <1>1, <1>9
  <2> QED BY <1>1, <1>7, <1>8, <2>1, <2>2, <2>3 DEF PillsRight
<1> QED BY <1>1, <1>4, <1>6, <1>10, <1>11, <1>12 DEF TasksInv

\* What a step of the loop over the dumps takes, and when procdata is full.
Takes(r) == <<reader[r].file, reader[r].pos>> \in Recorded
Data(r) == IF Takes(r) THEN Append(reader[r].procdata, RecordOf(reader[r].file, reader[r].pos))
           ELSE reader[r].procdata
Full(r) == Takes(r) /\ Len(Data(r)) >= Chunk

LEMMA ReadFacts ==
  ASSUME TasksInv, NEW r \in Readers, ReadDump(r)
  PROVE  /\ reader[r].at = "read" /\ reader[r].file \in Procs /\ reader[r].pos \in 1 .. NDumps
         /\ Takes(r) => RecordOf(reader[r].file, reader[r].pos) \in Records
         /\ reader[r].procdata \in Seq(Records) /\ Data(r) \in Seq(Records)
         /\ resultsq' = IF Full(r) THEN Append(resultsq, [of |-> "chunk", data |-> Data(r)])
                        ELSE resultsq
         /\ \A s \in Readers : s # r => reader'[s] = reader[s]
         /\ reader'[r].at = "read" /\ reader'[r].file = reader[r].file
         /\ reader'[r].pos = reader[r].pos + 1
         /\ reader'[r].procdata = IF Full(r) THEN << >> ELSE Data(r)
         /\ reader'[r].recorded = IF Takes(r) THEN reader[r].recorded + 1 ELSE reader[r].recorded
         /\ reader' \in [Readers -> ReaderStates] /\ DOMAIN reader' = Readers
         /\ UNCHANGED <<run, tasksq, unfinished, resultsq2, main, ndone, rawdata, nstalk_tot, ndump>>
<1> DEFINE i == reader[r].file
           p == reader[r].pos
           takes == InFile(i, p) # {} /\ p >= MinDump
           data == IF takes THEN Append(reader[r].procdata, [of |-> i, t |-> p, pars |-> On(i, p)])
                   ELSE reader[r].procdata
           full == takes /\ Len(data) >= Chunk
           new == [reader[r] EXCEPT !.pos = p + 1, !.procdata = IF full THEN << >> ELSE data,
                                    !.recorded = IF takes THEN @ + 1 ELSE @]
<1>1. /\ reader[r].at = "read" /\ p <= NDumps
      /\ resultsq' = IF full THEN Append(resultsq, [of |-> "chunk", data |-> data]) ELSE resultsq
      /\ reader' = [reader EXCEPT ![r].pos = @ + 1, ![r].procdata = IF full THEN << >> ELSE data,
                                  ![r].recorded = IF takes THEN @ + 1 ELSE @]
      /\ UNCHANGED <<run, tasksq, unfinished, resultsq2, main, ndone, rawdata, nstalk_tot, ndump>>
  BY Zenon DEF ReadDump, totals
<1>2. reader \in [Readers -> ReaderStates] /\ NDumps \in Nat
  BY CountFacts DEF TasksInv, PoolTypes
<1>3. reader[r] \in ReaderStates /\ reader[r].procdata \in Seq(Records) /\ reader[r].recorded \in Nat
  BY <1>2 DEF ReaderStates
<1>4. i \in Procs /\ p \in 1 .. NDumps /\ p \in Nat
  <2>1. i \in Procs /\ p \in 1 .. NDumps + 1
    <3>1. Holds(r)
      BY <1>1 DEF Holds
    <3> QED BY <3>1 DEF TasksInv, TasksRight
  <2>2. p <= NDumps /\ NDumps \in Nat
    BY <1>1, <1>2
  <2> HIDE DEF p
  <2> QED BY <2>1, <2>2
<1>5. (takes <=> Takes(r)) /\ (data = Data(r)) /\ (full <=> Full(r))
  <2>1. takes <=> Takes(r)
    <3>1. <<i, p>> \in Procs \X Dumps
      BY <1>4 DEF Dumps
    <3> QED BY <3>1 DEF Takes, Recorded
  <2>2. data = Data(r)
    BY <2>1 DEF Data, RecordOf
  <2> QED BY <2>1, <2>2 DEF Full
<1>6. Takes(r) => RecordOf(i, p) \in Records
  <2> SUFFICES ASSUME Takes(r) PROVE RecordOf(i, p) \in Records
    OBVIOUS
  <2>1. <<i, p>> \in Recorded /\ <<i, p>>[1] = i /\ <<i, p>>[2] = p
    BY DEF Takes
  <2> QED BY <2>1 DEF Records
<1>7. Data(r) \in Seq(Records)
  BY <1>3, <1>6 DEF Data
<1> HIDE DEF takes, data, full
<1>8. new \in ReaderStates
  <2>1. p + 1 \in Nat /\ (IF full THEN << >> ELSE data) \in Seq(Records)
    BY <1>4, <1>5, <1>7
  <2>2. (IF takes THEN reader[r].recorded + 1 ELSE reader[r].recorded) \in Nat
    BY <1>3
  <2> QED BY <1>3, <2>1, <2>2 DEF ReaderStates
<1>9. reader' = [reader EXCEPT ![r] = new]
  BY <1>1, <1>2
<1>10. /\ new.at = reader[r].at /\ new.file = reader[r].file /\ new.pos = p + 1
       /\ new.procdata = IF full THEN << >> ELSE data
       /\ new.recorded = IF takes THEN reader[r].recorded + 1 ELSE reader[r].recorded
  BY <1>3 DEF ReaderStates
<1> HIDE DEF new
<1>11. /\ \A s \in Readers : s # r => reader'[s] = reader[s]
       /\ reader'[r] = new
       /\ reader' \in [Readers -> ReaderStates] /\ DOMAIN reader' = Readers
  BY <1>2, <1>8, <1>9
<1>12. /\ resultsq' = IF Full(r) THEN Append(resultsq, [of |-> "chunk", data |-> Data(r)]) ELSE resultsq
       /\ reader'[r].procdata = IF Full(r) THEN << >> ELSE Data(r)
       /\ reader'[r].recorded = IF Takes(r) THEN reader[r].recorded + 1 ELSE reader[r].recorded
  BY <1>1, <1>5, <1>10, <1>11
<1> QED BY <1>1, <1>3, <1>4, <1>6, <1>7, <1>10, <1>11, <1>12

LEMMA OneMore ==
  ASSUME NEW i, NEW p \in 1 .. NDumps
  PROVE  Cardinality(Below(CountedIn(Recorded, i), p + 1)) =
           IF <<i, p>> \in Recorded THEN Cardinality(Below(CountedIn(Recorded, i), p)) + 1
           ELSE Cardinality(Below(CountedIn(Recorded, i), p))
<1> DEFINE S == CountedIn(Recorded, i)
<1>1. S \in SUBSET Dumps /\ (p \in S <=> <<i, p>> \in Recorded) /\ NDumps \in Nat /\ IsFiniteSet(Dumps)
  BY CountFacts DEF CountedIn, Dumps
<1> HIDE DEF S
<1>2. Below(S, p + 1) = IF p \in S THEN Below(S, p) \cup {p} ELSE Below(S, p)
  <2>1. \A t \in S : t \in Int /\ (t < p + 1 <=> (t < p \/ t = p))
    BY <1>1 DEF Dumps
  <2>2. p < p + 1
    BY <1>1
  <2> QED BY <2>1, <2>2 DEF Below
<1>3. p \notin Below(S, p)
  BY <1>1 DEF Below
<1>4. Below(S, p) \in SUBSET Dumps
  BY <1>1 DEF Below
<1>5. IsFiniteSet(Below(S, p)) /\ Cardinality(Below(S, p)) \in Nat
  BY <1>1, <1>4, FS_Subset, FS_CardinalityType
<1>6. Cardinality(Below(S, p + 1)) = IF p \in S THEN Cardinality(Below(S, p)) + 1 ELSE Cardinality(Below(S, p))
  BY <1>2, <1>3, <1>5, FS_AddElement
<1> QED BY <1>1, <1>6 DEF S

LEMMA ReadDumpTasks ==
  ASSUME TasksInv, NEW r \in Readers, ReadDump(r)
  PROVE  TasksInv'
<1>1. /\ reader[r].at = "read" /\ reader[r].file \in Procs /\ reader[r].pos \in 1 .. NDumps
      /\ Data(r) \in Seq(Records)
      /\ resultsq' = IF Full(r) THEN Append(resultsq, [of |-> "chunk", data |-> Data(r)])
                     ELSE resultsq
      /\ \A s \in Readers : s # r => reader'[s] = reader[s]
      /\ reader'[r].at = "read" /\ reader'[r].file = reader[r].file
      /\ reader'[r].pos = reader[r].pos + 1
      /\ reader'[r].recorded = IF Takes(r) THEN reader[r].recorded + 1 ELSE reader[r].recorded
      /\ reader' \in [Readers -> ReaderStates] /\ DOMAIN reader' = Readers
      /\ UNCHANGED <<run, tasksq, unfinished, resultsq2, main, ndone, rawdata, nstalk_tot, ndump>>
  BY ReadFacts
<1>5. /\ Readers' = Readers /\ Records' = Records /\ ReaderStates' = ReaderStates
      /\ ChunkAnswers' = ChunkAnswers
      /\ Recorded' = Recorded
  BY <1>1, SameRun DEF ReaderStates, ChunkAnswers
<1>7. /\ Out' = Out
      /\ \A s \in Readers : s # r => (Holds(s)' <=> Holds(s))
      /\ Holds(r) /\ Holds(r)'
  BY <1>1, OneReader DEF Holds
<1>8. main = "q1" /\ run.cores > 0 /\ Readers # {}
  BY <1>1, ReadersFirst
<1>9. /\ resultsq \in Seq({None} \cup ChunkAnswers)
      /\ [of |-> "chunk", data |-> Data(r)] \in ChunkAnswers
      /\ [of |-> "chunk", data |-> Data(r)] \notin {None}
  BY <1>1 DEF TasksInv, PoolTypes, ChunkAnswers, None
<1>10. PoolTypes'
  <2>1. resultsq' \in Seq({None} \cup ChunkAnswers)
    BY <1>1, <1>9
  <2> QED BY <1>1, <1>5, <2>1 DEF TasksInv, PoolTypes
<1>11. TasksRight'
  <2>2. ASSUME NEW s \in Readers, Holds(s)'
        PROVE  /\ reader'[s].file \in Procs /\ ~IsIn(tasksq', reader'[s].file)
               /\ reader'[s].pos \in 1 .. NDumps + 1
               /\ reader'[s].recorded = Cardinality(Below(CountedIn(Recorded, reader'[s].file), reader'[s].pos))
    <3>1. CASE s = r
      <4>1. /\ ~IsIn(tasksq, reader[r].file)
            /\ reader[r].recorded = Cardinality(Below(CountedIn(Recorded, reader[r].file), reader[r].pos))
        BY <1>7 DEF TasksInv, TasksRight
      <4>2. reader'[s].pos \in 1 .. NDumps + 1
        BY <1>1, <3>1, CountFacts
      <4>3. reader'[r].recorded = Cardinality(Below(CountedIn(Recorded, reader[r].file), reader[r].pos + 1))
        BY <1>1, <4>1, OneMore DEF Takes
      <4> QED BY <1>1, <3>1, <4>1, <4>2, <4>3
    <3>2. CASE s # r
      BY <1>1, <1>7, <2>2, <3>2 DEF TasksInv, TasksRight
    <3> QED BY <3>1, <3>2
  <2>3. ASSUME NEW s \in Readers, NEW u \in Readers, Holds(s)', Holds(u)', reader'[s].file = reader'[u].file
        PROVE  s = u
    BY <1>1, <1>7, <2>3 DEF TasksInv, TasksRight
  <2>4. ASSUME NEW s \in Readers, ~Holds(s)' PROVE reader'[s].procdata = << >>
    BY <1>1, <1>7, <2>4 DEF TasksInv, TasksRight
  <2> QED BY <1>1, <1>5, <1>7, <1>8, <2>2, <2>3, <2>4 DEF TasksInv, TasksRight
<1>12. PillsRight'
  <2>1. ~AllOut'
    BY <1>1, <1>5 DEF AllOut
  <2>2. Cardinality(At(resultsq', {None})) = Cardinality(At(resultsq, {None}))
    <3> DEFINE S == {None} \cup ChunkAnswers
    <3>1. resultsq \in Seq(S) /\ [of |-> "chunk", data |-> Data(r)] \in S
      BY <1>9
    <3> HIDE DEF S
    <3> QED BY <1>1, <1>9, <3>1, AtAppend
  <2> QED BY <1>1, <1>7, <1>8, <2>1, <2>2 DEF TasksInv, PillsRight
<1> QED BY <1>10, <1>11, <1>12 DEF TasksInv

LEMMA EndFacts ==
  ASSUME TasksInv, NEW r \in Readers, EndFile(r)
  PROVE  /\ reader[r].at = "read" /\ reader[r].file \in Procs /\ reader[r].pos = NDumps + 1
         /\ reader[r].procdata \in Seq(Records)
         /\ resultsq' = IF reader[r].procdata = << >> THEN resultsq
                        ELSE Append(resultsq, [of |-> "chunk", data |-> reader[r].procdata])
         /\ resultsq2' = Append(resultsq2, CountsOf(reader[r].file))
         /\ CountsOf(reader[r].file) \in CountAnswers
         /\ unfinished' = unfinished - 1
         /\ \A s \in Readers : s # r => reader'[s] = reader[s]
         /\ reader'[r] = Idle /\ Idle \in ReaderStates /\ Idle.procdata = << >> /\ Idle.at = "idle"
         /\ reader' \in [Readers -> ReaderStates] /\ DOMAIN reader' = Readers
         /\ UNCHANGED <<run, tasksq, main, ndone, rawdata, nstalk_tot, ndump>>
<1>1. /\ reader[r].at = "read" /\ reader[r].pos > NDumps
      /\ resultsq' = IF reader[r].procdata = << >> THEN resultsq
                     ELSE Append(resultsq, [of |-> "chunk", data |-> reader[r].procdata])
      /\ resultsq2' = Append(resultsq2, [of |-> "counts", stalk |-> Cardinality(On(reader[r].file, 1)),
                                         recorded |-> reader[r].recorded])
      /\ unfinished' = unfinished - 1
      /\ reader' = [reader EXCEPT ![r] = Idle]
      /\ UNCHANGED <<run, tasksq, main, ndone, rawdata, nstalk_tot, ndump>>
  BY DEF EndFile, totals
<1>2. reader \in [Readers -> ReaderStates] /\ NDumps \in Nat
  BY CountFacts DEF TasksInv, PoolTypes
<1>3. /\ reader[r].file \in Procs /\ reader[r].pos \in 1 .. NDumps + 1
      /\ reader[r].recorded = Cardinality(Below(CountedIn(Recorded, reader[r].file), reader[r].pos))
  BY <1>1 DEF TasksInv, TasksRight, Holds
<1>4. reader[r].pos = NDumps + 1
  BY <1>1, <1>2, <1>3
<1>5. Below(CountedIn(Recorded, reader[r].file), NDumps + 1) = Counted(reader[r].file)
  BY <1>2 DEF Below, CountedIn, Counted, Dumps
<1>6. resultsq2' = Append(resultsq2, CountsOf(reader[r].file))
  BY <1>1, <1>3, <1>4, <1>5 DEF CountsOf
<1>7. CountsOf(reader[r].file) \in CountAnswers
  BY CountFacts DEF CountsOf, CountAnswers
<1>8. Idle \in ReaderStates /\ Idle.procdata = << >> /\ Idle.at = "idle"
  <2>1. << >> \in Seq(Records)
    OBVIOUS
  <2> QED BY <2>1 DEF Idle, ReaderStates
<1>9. reader[r].procdata \in Seq(Records)
  BY <1>2 DEF ReaderStates
<1>10. /\ \A s \in Readers : s # r => reader'[s] = reader[s]
       /\ reader'[r] = Idle /\ reader' \in [Readers -> ReaderStates] /\ DOMAIN reader' = Readers
  BY <1>1, <1>2, <1>8
<1> QED BY <1>1, <1>3, <1>4, <1>6, <1>7, <1>8, <1>9, <1>10

LEMMA EndFileTasks ==
  ASSUME TasksInv, NEW r \in Readers, EndFile(r)
  PROVE  TasksInv'
<1>1. /\ reader[r].at = "read" /\ reader[r].procdata \in Seq(Records)
      /\ resultsq' = IF reader[r].procdata = << >> THEN resultsq
                     ELSE Append(resultsq, [of |-> "chunk", data |-> reader[r].procdata])
      /\ resultsq2' = Append(resultsq2, CountsOf(reader[r].file))
      /\ CountsOf(reader[r].file) \in CountAnswers
      /\ unfinished' = unfinished - 1
      /\ \A s \in Readers : s # r => reader'[s] = reader[s]
      /\ reader'[r] = Idle /\ Idle.procdata = << >> /\ Idle.at = "idle"
      /\ reader' \in [Readers -> ReaderStates] /\ DOMAIN reader' = Readers
      /\ UNCHANGED <<run, tasksq, main, ndone, rawdata, nstalk_tot, ndump>>
  BY EndFacts
<1>5. /\ Readers' = Readers /\ Records' = Records /\ ReaderStates' = ReaderStates
      /\ ChunkAnswers' = ChunkAnswers
      /\ Recorded' = Recorded
  BY <1>1, SameRun DEF ReaderStates, ChunkAnswers
<1>7. /\ Out' = Out
      /\ \A s \in Readers : s # r => (Holds(s)' <=> Holds(s))
      /\ ~Holds(r)'
  BY <1>1, OneReader DEF Holds
<1>8. main = "q1" /\ run.cores > 0 /\ Readers # {}
  BY <1>1, ReadersFirst
<1>9. /\ resultsq \in Seq({None} \cup ChunkAnswers) /\ resultsq2 \in Seq({None} \cup CountAnswers)
      /\ [of |-> "chunk", data |-> reader[r].procdata] \in ChunkAnswers
      /\ [of |-> "chunk", data |-> reader[r].procdata] \notin {None}
      /\ CountsOf(reader[r].file) \notin {None} /\ unfinished \in Int
  BY <1>1 DEF TasksInv, PoolTypes, ChunkAnswers, CountAnswers, None
<1>10. PoolTypes'
  <2>1. resultsq' \in Seq({None} \cup ChunkAnswers) /\ resultsq2' \in Seq({None} \cup CountAnswers)
    BY <1>1, <1>9
  <2> QED BY <1>1, <1>5, <1>9, <2>1 DEF TasksInv, PoolTypes
<1>11. TasksRight'
  <2>2. ASSUME NEW s \in Readers, Holds(s)'
        PROVE  /\ reader'[s].file \in Procs /\ ~IsIn(tasksq', reader'[s].file)
               /\ reader'[s].pos \in 1 .. NDumps + 1
               /\ reader'[s].recorded = Cardinality(Below(CountedIn(Recorded, reader'[s].file), reader'[s].pos))
    BY <1>1, <1>7, <2>2 DEF TasksInv, TasksRight
  <2>3. ASSUME NEW s \in Readers, NEW u \in Readers, Holds(s)', Holds(u)', reader'[s].file = reader'[u].file
        PROVE  s = u
    BY <1>1, <1>7, <2>3 DEF TasksInv, TasksRight
  <2>4. ASSUME NEW s \in Readers, ~Holds(s)' PROVE reader'[s].procdata = << >>
    BY <1>1, <1>7, <2>4 DEF TasksInv, TasksRight
  <2> QED BY <1>1, <1>5, <1>7, <1>8, <2>2, <2>3, <2>4 DEF TasksInv, TasksRight
<1>12. PillsRight'
  <2>1. ~AllOut'
    BY <1>1, <1>5 DEF AllOut
  <2>2. Cardinality(At(resultsq', {None})) = Cardinality(At(resultsq, {None}))
    <3> DEFINE S == {None} \cup ChunkAnswers
    <3>1. resultsq \in Seq(S) /\ [of |-> "chunk", data |-> reader[r].procdata] \in S
      BY <1>9
    <3> HIDE DEF S
    <3> QED BY <1>1, <1>9, <3>1, AtAppend
  <2>3. Cardinality(At(resultsq2', {None})) = Cardinality(At(resultsq2, {None}))
    <3> DEFINE S == {None} \cup CountAnswers
    <3>1. resultsq2 \in Seq(S) /\ CountsOf(reader[r].file) \in S
      BY <1>1, <1>9
    <3> HIDE DEF S
    <3> QED BY <1>1, <1>9, <3>1, AtAppend
  <2> QED BY <1>1, <1>7, <1>8, <2>1, <2>2, <2>3 DEF TasksInv, PillsRight
<1> QED BY <1>10, <1>11, <1>12 DEF TasksInv

LEMMA ExitTasks ==
  ASSUME TasksInv, NEW r \in Readers, Exit(r)
  PROVE  /\ TasksInv'
         /\ reader[r].at = "read" /\ reader'[r].file = reader[r].file /\ reader'[r].pos = reader[r].pos
         /\ reader'[r].procdata = reader[r].procdata /\ Holds(r) /\ Holds(r)'
         /\ \A s \in Readers : s # r => reader'[s] = reader[s]
         /\ UNCHANGED <<run, tasksq, unfinished, resultsq, resultsq2, main, ndone, rawdata,
                        nstalk_tot, ndump>>
<1>1. /\ reader[r].at = "read" /\ reader' = [reader EXCEPT ![r].at = "exited"]
      /\ UNCHANGED <<run, tasksq, unfinished, resultsq, resultsq2, main, ndone, rawdata,
                     nstalk_tot, ndump>>
  BY DEF Exit, queues, totals
<1>3. reader \in [Readers -> ReaderStates] /\ run \in Runs
  BY DEF TasksInv, PoolTypes
<1>4. /\ \A s \in Readers : s # r => reader'[s] = reader[s]
      /\ reader'[r].at = "exited" /\ reader'[r].procdata = reader[r].procdata
      /\ reader'[r].file = reader[r].file /\ reader'[r].pos = reader[r].pos
      /\ reader'[r].recorded = reader[r].recorded
      /\ reader' \in [Readers -> ReaderStates] /\ DOMAIN reader' = Readers
  BY <1>1, <1>3 DEF ReaderStates
<1>5. /\ Readers' = Readers /\ Records' = Records /\ ReaderStates' = ReaderStates
      /\ ChunkAnswers' = ChunkAnswers
      /\ Recorded' = Recorded
  BY <1>1, SameRun DEF ReaderStates, ChunkAnswers
<1>7. /\ Out' = Out
      /\ \A s \in Readers : s # r => (Holds(s)' <=> Holds(s))
      /\ Holds(r) /\ Holds(r)'
  BY <1>1, <1>4, OneReader DEF Holds
<1>8. main = "q1" /\ run.cores > 0 /\ Readers # {}
  BY <1>1, ReadersFirst
<1>10. PoolTypes'
  BY <1>1, <1>4, <1>5 DEF TasksInv, PoolTypes
<1>11. TasksRight'
  <2>2. ASSUME NEW s \in Readers, Holds(s)'
        PROVE  /\ reader'[s].file \in Procs /\ ~IsIn(tasksq', reader'[s].file)
               /\ reader'[s].pos \in 1 .. NDumps + 1
               /\ reader'[s].recorded = Cardinality(Below(CountedIn(Recorded, reader'[s].file), reader'[s].pos))
    <3>1. Holds(s) /\ reader'[s].file = reader[s].file /\ reader'[s].pos = reader[s].pos
          /\ reader'[s].recorded = reader[s].recorded
      BY <1>4, <1>7, <2>2
    <3> QED BY <1>1, <3>1 DEF TasksInv, TasksRight
  <2>3. ASSUME NEW s \in Readers, NEW u \in Readers, Holds(s)', Holds(u)', reader'[s].file = reader'[u].file
        PROVE  s = u
    <3>1. Holds(s) /\ Holds(u) /\ reader[s].file = reader[u].file
      BY <1>4, <1>7, <2>3
    <3> QED BY <3>1 DEF TasksInv, TasksRight
  <2>4. ASSUME NEW s \in Readers, ~Holds(s)' PROVE reader'[s].procdata = << >>
    BY <1>4, <1>7, <2>4 DEF TasksInv, TasksRight
  <2> QED BY <1>1, <1>5, <1>7, <1>8, <2>2, <2>3, <2>4 DEF TasksInv, TasksRight
<1>12. PillsRight'
  <2>1. ~AllOut'
    BY <1>4, <1>5 DEF AllOut
  <2> QED BY <1>1, <1>7, <1>8, <2>1 DEF TasksInv, PillsRight
<1> QED BY <1>1, <1>4, <1>7, <1>10, <1>11, <1>12 DEF TasksInv

-----------------------------------------------------------------------------
(* Steps of the main process *)

LEMMA ReadersRest ==
  ASSUME TasksInv, UNCHANGED <<run, tasksq, unfinished, reader>>
  PROVE  /\ TasksRight' /\ Out' = Out /\ (AllOut' <=> AllOut)
         /\ Readers' = Readers /\ Recorded' = Recorded /\ Records' = Records
         /\ ReaderStates' = ReaderStates /\ ChunkAnswers' = ChunkAnswers
<1>1. /\ Readers' = Readers /\ Records' = Records /\ Recorded' = Recorded
      /\ ReaderStates' = ReaderStates /\ ChunkAnswers' = ChunkAnswers
  BY SameRun DEF ReaderStates, ChunkAnswers
<1>2. Out' = Out /\ (AllOut' <=> AllOut) /\ \A r \in Readers : Holds(r)' <=> Holds(r)
  BY <1>1 DEF Out, AllOut, Holds
<1>3. TasksRight'
  BY <1>1, <1>2 DEF TasksInv, TasksRight
<1> QED BY <1>1, <1>2, <1>3

LEMMA LastOfTail ==
  ASSUME NEW S, NEW q \in Seq(S), q # << >>
  PROVE  /\ Tail(q) \in Seq(S) /\ Head(q) \in S
         /\ Tail(q) # << >> => Tail(q)[Len(Tail(q))] = q[Len(q)]
<1>1. /\ Tail(q) \in Seq(S) /\ Len(q) \in Nat /\ Len(q) >= 1 /\ Len(Tail(q)) = Len(q) - 1
      /\ \A k \in 1 .. Len(Tail(q)) : Tail(q)[k] = q[k + 1]
      /\ Head(q) \in S
  OBVIOUS
<1>2. Tail(q) # << >> => Len(Tail(q)) \in 1 .. Len(Tail(q)) /\ Len(Tail(q)) + 1 = Len(q)
  BY <1>1
<1> QED BY <1>1, <1>2

\* When all readers have been counted out on a queue, it is empty, and so are the tasks.
LEMMA AllCounted ==
  ASSUME TasksInv, Cardinality(Out) = run.cores + Cardinality(At(resultsq, {None})),
         run.cores > 0
  PROVE  AllOut /\ tasksq = << >> /\ resultsq = << >>
<1>1. IsFiniteSet(Readers) /\ Cardinality(Readers) = run.cores /\ run.cores \in Nat
  BY RunTypes DEF TasksInv, PoolTypes
<1>2. Out \in SUBSET Readers
  BY DEF Out
<1>3. Cardinality(Out) <= run.cores /\ (Cardinality(Out) = run.cores => Out = Readers)
  BY <1>1, <1>2, FS_Subset
<1>4. /\ resultsq \in Seq({None} \cup ChunkAnswers) /\ tasksq \in Seq(Procs \cup {Pill})
  BY DEF TasksInv, PoolTypes
<1>5. /\ IsFiniteSet(At(resultsq, {None})) /\ Cardinality(At(resultsq, {None})) \in Nat
      /\ IsFiniteSet(At(tasksq, {Pill})) /\ Cardinality(At(tasksq, {Pill})) \in Nat
  BY <1>4, AtFinite
<1>6. Cardinality(At(resultsq, {None})) = 0 /\ Cardinality(Out) = run.cores
  BY <1>1, <1>3, <1>5
<1>7. AllOut
  BY <1>3, <1>6 DEF AllOut, Out
<1>8. Cardinality(At(tasksq, {Pill})) = 0
  <2>1. Cardinality(At(tasksq, {Pill})) + Cardinality(Out) = run.cores
    BY DEF TasksInv, TasksRight
  <2> QED BY <1>1, <1>5, <1>6, <2>1
<1>9. At(resultsq, {None}) = {} /\ At(tasksq, {Pill}) = {}
  BY <1>5, <1>6, <1>8, FS_EmptySet
<1>10. resultsq = << >>
  <2> SUFFICES ASSUME resultsq # << >> PROVE FALSE
    OBVIOUS
  <2>1. resultsq[Len(resultsq)] = None
    BY <1>7 DEF TasksInv, PillsRight
  <2>2. Len(resultsq) \in 1 .. Len(resultsq)
    BY <1>4
  <2> QED BY <1>9, <2>1, <2>2 DEF At
<1>11. tasksq = << >>
  <2> SUFFICES ASSUME tasksq # << >> PROVE FALSE
    OBVIOUS
  <2>1. tasksq[Len(tasksq)] = Pill
    BY DEF TasksInv, TasksRight
  <2>2. Len(tasksq) \in 1 .. Len(tasksq)
    BY <1>4
  <2> QED BY <1>9, <2>1, <2>2 DEF At
<1> QED BY <1>7, <1>10, <1>11

LEMMA GetResultTasks ==
  ASSUME TasksInv, GetResult
  PROVE  TasksInv'
<1>1. /\ main = "q1" /\ resultsq # << >> /\ resultsq' = Tail(resultsq)
      /\ Head(resultsq) = None => ndone' = ndone + 1 /\ UNCHANGED rawdata
      /\ Head(resultsq) # None => rawdata' = rawdata \o Head(resultsq).data /\ UNCHANGED ndone
      /\ UNCHANGED <<run, tasksq, unfinished, resultsq2, reader, main, nstalk_tot, ndump>>
  BY DEF GetResult
<1>2. /\ resultsq \in Seq({None} \cup ChunkAnswers) /\ ndone \in Nat /\ rawdata \in Seq(Records)
  BY DEF TasksInv, PoolTypes
<1>3. /\ resultsq' \in Seq({None} \cup ChunkAnswers) /\ Head(resultsq) \in {None} \cup ChunkAnswers
      /\ resultsq' # << >> => resultsq'[Len(resultsq')] = resultsq[Len(resultsq)]
  BY <1>1, <1>2, LastOfTail
<1>4. /\ Cardinality(At(resultsq, {None})) =
           IF Head(resultsq) = None THEN Cardinality(At(resultsq', {None})) + 1
           ELSE Cardinality(At(resultsq', {None}))
      /\ Cardinality(At(resultsq', {None})) \in Nat
  BY <1>1, <1>2, <1>3, AtTail, AtFinite
<1>5. ndone' \in Nat /\ rawdata' \in Seq(Records)
  <2>1. Head(resultsq) # None => Head(resultsq).data \in Seq(Records)
    BY <1>3 DEF ChunkAnswers
  <2>2. CASE Head(resultsq) = None
    BY <1>1, <1>2, <2>2
  <2>3. CASE Head(resultsq) # None
    <3> DEFINE S == Records
               c == Head(resultsq).data
    <3>1. rawdata \in Seq(S) /\ c \in Seq(S)
      BY <1>2, <2>1, <2>3
    <3> HIDE DEF S, c
    <3>2. rawdata \o c \in Seq(S)
      BY <3>1
    <3> QED BY <1>1, <1>2, <2>3, <3>2 DEF S, c
  <2> QED BY <2>2, <2>3
<1>6. /\ TasksRight' /\ Out' = Out /\ (AllOut' <=> AllOut)
      /\ Readers' = Readers /\ Recorded' = Recorded /\ Records' = Records
      /\ ReaderStates' = ReaderStates /\ ChunkAnswers' = ChunkAnswers
  BY <1>1, ReadersRest
<1>7. PoolTypes'
  BY <1>1, <1>3, <1>5, <1>6 DEF TasksInv, PoolTypes
<1>8. PillsRight'
  <2>1. /\ ndone + Cardinality(At(resultsq, {None})) = Cardinality(Out)
        /\ Cardinality(At(resultsq2, {None})) = Cardinality(Out)
        /\ AllOut => resultsq[Len(resultsq)] = None
        /\ AllOut /\ resultsq2 # << >> => resultsq2[Len(resultsq2)] = None
    BY <1>1 DEF TasksInv, PillsRight
  <2>2. ndone' + Cardinality(At(resultsq', {None})) = ndone + Cardinality(At(resultsq, {None}))
    BY <1>1, <1>2, <1>4
  <2> QED BY <1>1, <1>3, <1>6, <2>1, <2>2 DEF PillsRight
<1> QED BY <1>6, <1>7, <1>8 DEF TasksInv

LEMMA NextQueueTasks ==
  ASSUME TasksInv, NextQueue
  PROVE  TasksInv' /\ (run.cores > 0 => AllOut /\ tasksq = << >> /\ resultsq = << >>)
<1>1. /\ main = "q1" /\ ndone = run.cores /\ main' = "q2" /\ ndone' = 0
      /\ UNCHANGED <<run, tasksq, unfinished, resultsq, resultsq2, reader, rawdata, nstalk_tot, ndump>>
  BY DEF NextQueue, queues
<1>2. /\ ndone + Cardinality(At(resultsq, {None})) = Cardinality(Out)
      /\ Cardinality(At(resultsq2, {None})) = Cardinality(Out)
  BY <1>1 DEF TasksInv, PillsRight
<1>3. run.cores > 0 => AllOut /\ tasksq = << >> /\ resultsq = << >>
  BY <1>1, <1>2, AllCounted
<1>4. /\ TasksRight' /\ Out' = Out /\ (AllOut' <=> AllOut)
      /\ Readers' = Readers /\ Recorded' = Recorded /\ Records' = Records
      /\ ReaderStates' = ReaderStates /\ ChunkAnswers' = ChunkAnswers
  BY <1>1, ReadersRest
<1>5. PoolTypes'
  BY <1>1, <1>4 DEF TasksInv, PoolTypes
<1>6. PillsRight'
  <2>1. Cardinality(At(resultsq2, {None})) \in Nat
    BY AtFinite DEF TasksInv, PoolTypes
  <2> QED BY <1>1, <1>2, <1>3, <1>4, <2>1 DEF TasksInv, PillsRight
<1> QED BY <1>3, <1>4, <1>5, <1>6 DEF TasksInv

LEMMA GetCountsTasks ==
  ASSUME TasksInv, GetCounts
  PROVE  TasksInv'
<1>1. /\ main = "q2" /\ resultsq2 # << >> /\ resultsq2' = Tail(resultsq2)
      /\ Head(resultsq2) = None => ndone' = ndone + 1 /\ UNCHANGED <<nstalk_tot, ndump>>
      /\ Head(resultsq2) # None =>
           /\ nstalk_tot' = nstalk_tot + Head(resultsq2).stalk
           /\ ndump' = IF Head(resultsq2).recorded > ndump THEN Head(resultsq2).recorded ELSE ndump
           /\ UNCHANGED ndone
      /\ UNCHANGED <<run, tasksq, unfinished, resultsq, reader, main, rawdata>>
  BY DEF GetCounts
<1>2. /\ resultsq2 \in Seq({None} \cup CountAnswers) /\ ndone \in Nat /\ nstalk_tot \in Nat /\ ndump \in Nat
  BY DEF TasksInv, PoolTypes
<1>3. /\ resultsq2' \in Seq({None} \cup CountAnswers) /\ Head(resultsq2) \in {None} \cup CountAnswers
      /\ resultsq2' # << >> => resultsq2'[Len(resultsq2')] = resultsq2[Len(resultsq2)]
  BY <1>1, <1>2, LastOfTail
<1>4. /\ Cardinality(At(resultsq2, {None})) =
           IF Head(resultsq2) = None THEN Cardinality(At(resultsq2', {None})) + 1
           ELSE Cardinality(At(resultsq2', {None}))
      /\ Cardinality(At(resultsq2', {None})) \in Nat
  BY <1>1, <1>2, <1>3, AtTail, AtFinite
<1>5. ndone' \in Nat /\ nstalk_tot' \in Nat /\ ndump' \in Nat
  <2>1. Head(resultsq2) # None => Head(resultsq2).stalk \in Nat /\ Head(resultsq2).recorded \in Nat
    BY <1>3 DEF CountAnswers
  <2> QED BY <1>1, <1>2, <2>1
<1>6. /\ TasksRight' /\ Out' = Out /\ (AllOut' <=> AllOut)
      /\ Readers' = Readers /\ Recorded' = Recorded /\ Records' = Records
      /\ ReaderStates' = ReaderStates /\ ChunkAnswers' = ChunkAnswers
  BY <1>1, ReadersRest
<1>7. PoolTypes'
  BY <1>1, <1>3, <1>5, <1>6 DEF TasksInv, PoolTypes
<1>8. PillsRight'
  <2>1. /\ ndone + Cardinality(At(resultsq2, {None})) = Cardinality(Out)
        /\ AllOut /\ resultsq # << >> => resultsq[Len(resultsq)] = None
        /\ AllOut => resultsq2[Len(resultsq2)] = None
        /\ run.cores > 0 => AllOut /\ tasksq = << >> /\ resultsq = << >>
    BY <1>1 DEF TasksInv, PillsRight
  <2>2. ndone' + Cardinality(At(resultsq2', {None})) = ndone + Cardinality(At(resultsq2, {None}))
    BY <1>1, <1>2, <1>4
  <2> QED BY <1>1, <1>3, <1>6, <2>1, <2>2 DEF PillsRight
<1> QED BY <1>6, <1>7, <1>8 DEF TasksInv

\* The other steps touch none of this.
LEMMA OtherTasks ==
  ASSUME TasksInv,
         UNCHANGED <<run, tasksq, unfinished, resultsq, resultsq2, reader, ndone, rawdata, nstalk_tot, ndump>>,
         main' = main \/ (main # "q1" /\ main' \in {"group", "done", "failed"})
  PROVE  TasksInv'
<1>1. /\ TasksRight' /\ Out' = Out /\ (AllOut' <=> AllOut)
      /\ Readers' = Readers /\ Recorded' = Recorded /\ Records' = Records
      /\ ReaderStates' = ReaderStates /\ ChunkAnswers' = ChunkAnswers
  BY ReadersRest
<1>2. PoolTypes'
  BY <1>1 DEF TasksInv, PoolTypes
<1>3. PillsRight'
  BY <1>1 DEF TasksInv, PillsRight
<1> QED BY <1>1, <1>2, <1>3 DEF TasksInv

LEMMA Others ==
  ASSUME JoinTasks \/ WriteGroup \/ NoRow \/ Close \/ UNCHANGED vars
  PROVE  /\ UNCHANGED <<run, tasksq, unfinished, resultsq, resultsq2, reader, ndone, rawdata, nstalk_tot, ndump>>
         /\ main' = main \/ (main # "q1" /\ main' \in {"group", "done", "failed"})
BY DEF JoinTasks, WriteGroup, NoRow, Close, vars, queues, totals

LEMMA InitTasks ==
  ASSUME Init
  PROVE  TasksInv
<1> DEFINE f == SetToSeq(Procs)
           pills == [r \in 1 .. run.cores |-> Pill]
<1>1. /\ run \in Runs /\ tasksq = f \o pills
      /\ unfinished = Cardinality(Procs) + run.cores
      /\ reader = [r \in 1 .. run.cores |-> Idle]
      /\ resultsq = << >> /\ resultsq2 = << >>
      /\ main = "q1" /\ ndone = 0 /\ rawdata = << >> /\ nstalk_tot = 0 /\ ndump = 0
  BY DEF Init
<1>2. /\ f \in Seq(Procs) /\ Len(f) = Cardinality(Procs) /\ Cardinality(Procs) \in Nat
      /\ \A j, k \in 1 .. Len(f) : f[j] = f[k] => j = k
  BY FileList
<1>3. run.cores \in Nat /\ (Readers = {} <=> run.cores = 0)
  BY <1>1, RunTypes
<1>4. pills \in Seq({Pill}) /\ Len(pills) = run.cores /\ \A k \in 1 .. run.cores : pills[k] = Pill
  BY <1>3
<1> HIDE DEF f, pills
<1>5. /\ tasksq \in Seq(Procs \cup {Pill}) /\ Len(tasksq) = Len(f) + run.cores
      /\ \A k \in 1 .. Len(f) : tasksq[k] = f[k] /\ f[k] \in Procs
  <2> DEFINE S == Procs \cup {Pill}
  <2>1. f \in Seq(S) /\ pills \in Seq(S) /\ \A k \in 1 .. Len(f) : f[k] \in Procs
    BY <1>2, <1>4
  <2> HIDE DEF S
  <2>2. /\ f \o pills \in Seq(S) /\ Len(f \o pills) = Len(f) + Len(pills)
        /\ \A k \in 1 .. Len(f) : (f \o pills)[k] = f[k]
    BY <2>1
  <2> QED BY <1>1, <1>4, <2>1, <2>2 DEF S
<1>6. \A k \in Len(f) + 1 .. Len(f) + run.cores : tasksq[k] = Pill
  <2> TAKE k \in Len(f) + 1 .. Len(f) + run.cores
  <2>1. k - Len(f) \in 1 .. run.cores /\ k = Len(f) + (k - Len(f))
    BY <1>2, <1>3
  <2>2. \A j \in 1 .. run.cores : (f \o pills)[Len(f) + j] = pills[j]
    BY <1>2, <1>3, <1>4
  <2> QED BY <1>1, <1>4, <2>1, <2>2
<1>7. Pill \notin Procs
  BY PoolAssumption DEF Pill
<1>8. \A k \in 1 .. Len(tasksq) : k \in 1 .. Len(f) \/ k \in Len(f) + 1 .. Len(f) + run.cores
  BY <1>2, <1>3, <1>5
<1>9. Idle \in ReaderStates /\ Idle.procdata = << >> /\ Idle.at = "idle"
  <2>1. << >> \in Seq(Records)
    OBVIOUS
  <2> QED BY <2>1 DEF Idle, ReaderStates
<1>10. reader \in [Readers -> ReaderStates] /\ \A r \in Readers : reader[r] = Idle
  BY <1>1, <1>9 DEF Readers
<1>11. Out = {} /\ (AllOut => Readers = {}) /\ \A r \in Readers : ~Holds(r) /\ reader[r].procdata = << >>
  BY <1>9, <1>10 DEF Out, AllOut, Holds
<1>12. PoolTypes
  <2>1. << >> \in Seq(Records) /\ << >> \in Seq({None} \cup ChunkAnswers) /\ << >> \in Seq({None} \cup CountAnswers)
    OBVIOUS
  <2> QED BY <1>1, <1>2, <1>3, <1>5, <1>10, <2>1 DEF PoolTypes
<1>13. \A j, k \in 1 .. Len(tasksq) : (tasksq[j] = tasksq[k] /\ tasksq[j] # Pill) => j = k
  BY <1>2, <1>5, <1>6, <1>7, <1>8
<1>14. run.cores > 0 /\ tasksq # << >> => tasksq[Len(tasksq)] = Pill
  BY <1>2, <1>3, <1>5, <1>6
<1>15. Cardinality(At(tasksq, {Pill})) = run.cores
  <2>1. At(tasksq, {Pill}) = Len(f) + 1 .. Len(f) + run.cores
    <3>1. \A k \in Len(f) + 1 .. Len(f) + run.cores : k \in 1 .. Len(tasksq)
      BY <1>2, <1>3, <1>5
    <3>2. \A k \in 1 .. Len(f) : tasksq[k] # Pill
      BY <1>5, <1>7
    <3> QED BY <1>6, <1>8, <3>1, <3>2 DEF At
  <2>2. Cardinality(Len(f) + 1 .. Len(f) + run.cores) = run.cores
    <3> DEFINE a == Len(f) + 1
               b == Len(f) + run.cores
    <3>1. a \in Int /\ b \in Int /\ b - a + 1 = run.cores /\ (a > b => run.cores = 0)
      BY <1>2, <1>3
    <3> HIDE DEF a, b
    <3>2. Cardinality(a .. b) = run.cores
      BY <3>1, FS_Interval
    <3> QED BY <3>2 DEF a, b
  <2> QED BY <2>1, <2>2
<1>16. Readers = {} => tasksq = f
  <2> SUFFICES ASSUME run.cores = 0 PROVE tasksq = f
    BY <1>3
  <2>1. f \o pills = f
    BY <1>2, <1>4
  <2> QED BY <1>1, <2>1
<1>17. TasksRight
  <2>1. Cardinality(At(tasksq, {Pill})) + Cardinality(Out) = run.cores
    BY <1>3, <1>11, <1>15, FS_EmptySet
  <2>2. Readers = {} => unfinished = Cardinality(Procs) /\ tasksq = SetToSeq(Procs)
    BY <1>1, <1>2, <1>3, <1>16 DEF f
  <2> QED BY <1>11, <1>13, <1>14, <2>1, <2>2 DEF TasksRight
<1>18. PillsRight
  <2>1. At(<< >>, {None}) = {}
    BY DEF At
  <2>2. Cardinality(At(resultsq, {None})) = 0 /\ Cardinality(At(resultsq2, {None})) = 0 /\ Cardinality(Out) = 0
    BY <1>1, <1>11, <2>1, FS_EmptySet
  <2> QED BY <1>1, <2>2 DEF PillsRight
<1> QED BY <1>12, <1>17, <1>18 DEF TasksInv

LEMMA NextTasks ==
  ASSUME TasksInv, [Next]_vars
  PROVE  TasksInv'
BY TakeFileTasks, TakePillTasks, ReadDumpTasks, EndFileTasks, ExitTasks, GetResultTasks,
   NextQueueTasks, GetCountsTasks, Others, OtherTasks DEF Next, MainStep, ReaderStep

-----------------------------------------------------------------------------
(* Where the records are *)

\* A reader has gathered the records in N, which it had still to read.
LEMMA DataGrows ==
  ASSUME RecordsRight, UNCHANGED <<run, resultsq, rawdata>>, NEW r \in Readers, NEW N,
         \A x \in N : x \in Recorded /\ Pending(x),
         \A x \in Recorded : Pending(x)' <=> (Pending(x) /\ x \notin N),
         Kept(r)' = Kept(r) \cup N, Distinct(reader[r].procdata)',
         \A s \in Readers : s # r => reader'[s].procdata = reader[s].procdata
  PROVE  RecordsRight'
<1>1. /\ Readers' = Readers /\ Recorded' = Recorded /\ Chunks' = Chunks
      /\ Raw' = Raw /\ \A k : DataAt(k)' = DataAt(k) /\ Bag(k)' = Bag(k)
  BY SameRun DEF Chunks, Raw, Bag, DataAt
<1>2. \A s \in Readers : s # r => Kept(s)' = Kept(s) /\ (Distinct(reader[s].procdata)' <=> Distinct(reader[s].procdata))
  BY DEF Kept
<1>3. \A x \in N : x \notin Raw /\ (\A k \in Chunks : x \notin Bag(k)) /\ \A s \in Readers : x \notin Kept(s)
  BY DEF RecordsRight, Collected
<1>4. \A x : Collected(x)' <=> (Collected(x) \/ x \in N)
  BY <1>1, <1>2 DEF Collected
<1>5. \A x : Collected(x)' <=> (x \in Recorded' /\ ~Pending(x)')
  BY <1>1, <1>4 DEF RecordsRight
<1>6. \A s \in Readers' : Distinct(reader[s].procdata)'
  BY <1>1, <1>2 DEF RecordsRight
<1>7. /\ \A s \in Readers' : Raw' \cap Kept(s)' = {}
      /\ \A s \in Readers', k \in Chunks' : Bag(k)' \cap Kept(s)' = {}
  <2>1. ASSUME NEW s \in Readers PROVE Kept(s)' \subseteq Kept(s) \cup N
    BY <1>2
  <2>2. \A s \in Readers : Raw \cap Kept(s) = {}
    BY DEF RecordsRight
  <2>3. \A s \in Readers, k \in Chunks : Bag(k) \cap Kept(s) = {}
    BY DEF RecordsRight
  <2> QED BY <1>1, <1>3, <2>1, <2>2, <2>3
<1>8. \A s, u \in Readers' : s # u => Kept(s)' \cap Kept(u)' = {}
  <2> SUFFICES ASSUME NEW s \in Readers, NEW u \in Readers, s # u PROVE Kept(s)' \cap Kept(u)' = {}
    BY <1>1
  <2>1. Kept(s) \cap Kept(u) = {}
    BY DEF RecordsRight
  <2> QED BY <1>2, <1>3, <2>1
<1> QED BY <1>1, <1>5, <1>6, <1>7, <1>8 DEF RecordsRight

\* A reader has put what it had gathered, and the records in N, on the queue.
LEMMA DataPut ==
  ASSUME TasksInv, RecordsRight, UNCHANGED <<run, rawdata>>, NEW r \in Readers, NEW N,
         NEW m \in {None} \cup ChunkAnswers, resultsq' = Append(resultsq, m),
         NEW D, D = IF m = None THEN << >> ELSE m.data,
         Distinct(D), Tags(D) = Kept(r) \cup N,
         \A x \in N : x \in Recorded /\ Pending(x),
         \A x \in Recorded : Pending(x)' <=> (Pending(x) /\ x \notin N),
         reader'[r].procdata = << >>,
         \A s \in Readers : s # r => reader'[s].procdata = reader[s].procdata
  PROVE  RecordsRight'
<1>0. PICK n : n = Len(resultsq) + 1
  OBVIOUS
<1>1. Readers' = Readers /\ Recorded' = Recorded /\ Raw' = Raw
  BY SameRun DEF Raw
<1>2. /\ \A s \in Readers : s # r => Kept(s)' = Kept(s) /\ (Distinct(reader[s].procdata)' <=> Distinct(reader[s].procdata))
      /\ Kept(r)' = {} /\ Distinct(reader[r].procdata)'
  BY NoTags DEF Kept
<1>3. /\ Chunks' = Chunks \cup {n} /\ n \notin Chunks
      /\ \A k \in Chunks : DataAt(k)' = DataAt(k) /\ Bag(k)' = Bag(k)
      /\ DataAt(n)' = D /\ Bag(n)' = Kept(r) \cup N
  <2>1. resultsq \in Seq({None} \cup ChunkAnswers)
    BY DEF TasksInv, PoolTypes
  <2>2. /\ Len(resultsq) \in Nat /\ Len(resultsq') = n /\ resultsq'[n] = m
        /\ \A k \in 1 .. Len(resultsq) : resultsq'[k] = resultsq[k]
    BY <1>0, <2>1
  <2>3. Chunks' = Chunks \cup {n} /\ n \notin Chunks
    BY <1>0, <2>2 DEF Chunks
  <2>4. \A k \in Chunks : DataAt(k)' = DataAt(k)
    BY <2>2 DEF DataAt, Chunks
  <2>5. DataAt(n)' = D
    BY <2>2 DEF DataAt
  <2> QED BY <2>3, <2>4, <2>5 DEF Bag
<1>4. \A x \in N : x \notin Raw /\ (\A k \in Chunks : x \notin Bag(k)) /\ \A s \in Readers : x \notin Kept(s)
  BY DEF RecordsRight, Collected
<1>5. \A x : Collected(x)' <=> (Collected(x) \/ x \in N)
  BY <1>1, <1>2, <1>3 DEF Collected
<1>6. \A x : Collected(x)' <=> (x \in Recorded' /\ ~Pending(x)')
  BY <1>1, <1>5 DEF RecordsRight
<1>7. /\ \A s \in Readers' : Distinct(reader[s].procdata)'
      /\ \A k \in Chunks' : Distinct(DataAt(k)')
  BY <1>1, <1>2, <1>3 DEF RecordsRight
<1>8. \A s \in Readers : Kept(s)' \subseteq Kept(s) /\ (s # r => Kept(s) \cap Kept(r) = {})
  BY <1>2 DEF RecordsRight
<1>9. /\ \A s \in Readers' : Raw' \cap Kept(s)' = {}
      /\ \A s, u \in Readers' : s # u => Kept(s)' \cap Kept(u)' = {}
  BY <1>1, <1>8 DEF RecordsRight
<1>10. \A k \in Chunks' : Raw' \cap Bag(k)' = {}
  <2>1. Raw \cap Kept(r) = {} /\ \A k \in Chunks : Raw \cap Bag(k) = {}
    BY DEF RecordsRight
  <2> QED BY <1>1, <1>3, <1>4, <2>1
<1>11. \A s \in Readers', k \in Chunks' : Bag(k)' \cap Kept(s)' = {}
  <2> SUFFICES ASSUME NEW s \in Readers, NEW k \in Chunks' PROVE Bag(k)' \cap Kept(s)' = {}
    BY <1>1
  <2>1. CASE k = n
    BY <1>2, <1>3, <1>4, <1>8, <2>1
  <2>2. CASE k \in Chunks
    BY <1>3, <1>8, <2>2 DEF RecordsRight
  <2> QED BY <1>3, <2>1, <2>2
<1>12. \A j, k \in Chunks' : j # k => Bag(j)' \cap Bag(k)' = {}
  <2>1. \A k \in Chunks : Bag(k)' \cap Bag(n)' = {}
    <3>1. \A k \in Chunks : Bag(k) \cap Kept(r) = {}
      BY DEF RecordsRight
    <3> QED BY <1>3, <1>4, <3>1
  <2>2. \A j, k \in Chunks : j # k => Bag(j)' \cap Bag(k)' = {}
    BY <1>3 DEF RecordsRight
  <2> QED BY <1>3, <2>1, <2>2
<1> QED BY <1>1, <1>6, <1>7, <1>9, <1>10, <1>11, <1>12 DEF RecordsRight

\* The main process has got the first answer on the queue.
LEMMA DataGot ==
  ASSUME TasksInv, RecordsRight, GetResult
  PROVE  RecordsRight'
<1>1. /\ resultsq # << >> /\ resultsq' = Tail(resultsq)
      /\ Head(resultsq) = None => UNCHANGED rawdata
      /\ Head(resultsq) # None => rawdata' = rawdata \o Head(resultsq).data
      /\ UNCHANGED <<run, tasksq, reader>>
  BY DEF GetResult
<1>2. resultsq \in Seq({None} \cup ChunkAnswers) /\ rawdata \in Seq(Records)
  BY DEF TasksInv, PoolTypes
<1>3. /\ Head(resultsq) = resultsq[1] /\ 1 \in Chunks /\ Head(resultsq) \in {None} \cup ChunkAnswers
      /\ \A k \in Chunks' : k + 1 \in Chunks /\ k + 1 # 1 /\ resultsq'[k] = resultsq[k + 1] /\ k \in Int
      /\ \A k \in Chunks : k = 1 \/ (k - 1 \in Chunks' /\ k = (k - 1) + 1)
  BY <1>1, <1>2 DEF Chunks
<1>4. /\ Readers' = Readers /\ Recorded' = Recorded
      /\ \A r : Kept(r)' = Kept(r) /\ (Distinct(reader[r].procdata)' <=> Distinct(reader[r].procdata))
      /\ \A x : Pending(x)' <=> Pending(x)
  BY <1>1, SameRun DEF Kept, Pending, Holds
<1>5. \A k \in Chunks' : DataAt(k)' = DataAt(k + 1) /\ Bag(k)' = Bag(k + 1)
  BY <1>3 DEF DataAt, Bag
<1>6. Raw' = Raw \cup Bag(1) /\ Distinct(rawdata')
  <2>1. Distinct(rawdata) /\ Raw \cap Bag(1) = {} /\ Distinct(DataAt(1))
    BY <1>3 DEF RecordsRight
  <2>2. CASE Head(resultsq) = None
    BY <1>1, <1>3, <2>1, <2>2, NoTags DEF Raw, Bag, DataAt
  <2>3. CASE Head(resultsq) # None
    <3>1. DataAt(1) \in Seq(Records) /\ rawdata' = rawdata \o DataAt(1)
      BY <1>1, <1>3, <2>3 DEF DataAt, ChunkAnswers
    <3>2. Tags(rawdata) \cap Tags(DataAt(1)) = {}
      BY <2>1 DEF Raw, Bag
    <3>3. Tags(rawdata \o DataAt(1)) = Tags(rawdata) \cup Tags(DataAt(1)) /\ Distinct(rawdata \o DataAt(1))
      BY <1>2, <2>1, <3>1, <3>2, TagsConcat
    <3> QED BY <3>1, <3>3 DEF Raw, Bag
  <2> QED BY <2>2, <2>3
<1>7. \A x : Collected(x)' <=> Collected(x)
  <2>1. \A x : (\E k \in Chunks : x \in Bag(k)) <=> (x \in Bag(1) \/ \E k \in Chunks' : x \in Bag(k)')
    BY <1>3, <1>5
  <2> QED BY <1>4, <1>6, <2>1 DEF Collected
<1>8. \A x : Collected(x)' <=> (x \in Recorded' /\ ~Pending(x)')
  BY <1>4, <1>7 DEF RecordsRight
<1>9. /\ \A s \in Readers' : Distinct(reader[s].procdata)'
      /\ \A k \in Chunks' : Distinct(DataAt(k)')
      /\ \A s, u \in Readers' : s # u => Kept(s)' \cap Kept(u)' = {}
  BY <1>3, <1>4, <1>5 DEF RecordsRight
<1>10. \A k \in Chunks' : Raw' \cap Bag(k)' = {}
  <2> SUFFICES ASSUME NEW k \in Chunks' PROVE (Raw \cup Bag(1)) \cap Bag(k + 1) = {}
    BY <1>5, <1>6
  <2>1. Raw \cap Bag(k + 1) = {} /\ Bag(1) \cap Bag(k + 1) = {}
    BY <1>3 DEF RecordsRight
  <2> QED BY <2>1
<1>11. \A s \in Readers' : Raw' \cap Kept(s)' = {}
  <2>1. \A s \in Readers : Raw \cap Kept(s) = {} /\ Bag(1) \cap Kept(s) = {}
    BY <1>3 DEF RecordsRight
  <2> QED BY <1>4, <1>6, <2>1
<1>12. \A s \in Readers', k \in Chunks' : Bag(k)' \cap Kept(s)' = {}
  BY <1>3, <1>4, <1>5 DEF RecordsRight
<1>13. \A j, k \in Chunks' : j # k => Bag(j)' \cap Bag(k)' = {}
  <2> SUFFICES ASSUME NEW j \in Chunks', NEW k \in Chunks', j # k PROVE Bag(j + 1) \cap Bag(k + 1) = {}
    BY <1>5
  <2>1. j + 1 # k + 1 /\ j + 1 \in Chunks /\ k + 1 \in Chunks
    BY <1>3
  <2> QED BY <2>1 DEF RecordsRight
<1> QED BY <1>6, <1>8, <1>9, <1>10, <1>11, <1>12, <1>13 DEF RecordsRight

LEMMA RecordedTypes ==
  \A x \in Recorded : x[1] \in Procs /\ x[2] \in 1 .. NDumps /\ x = <<x[1], x[2]>>
BY DEF Recorded, Dumps

LEMMA TakeFileRecords ==
  ASSUME TasksInv, RecordsRight, NEW r \in Readers, TakeFile(r)
  PROVE  RecordsRight'
<1>1. PICK i : i = Head(tasksq)
  OBVIOUS
<1>2. /\ reader[r].at = "idle" /\ reader'[r].at = "read" /\ reader'[r].file = i
      /\ reader'[r].pos = 1 /\ reader'[r].procdata = << >>
      /\ IsIn(tasksq, i) /\ ~IsIn(tasksq', i)
      /\ \A j : j # i => (IsIn(tasksq', j) <=> IsIn(tasksq, j))
      /\ \A s \in Readers : s # r => reader'[s] = reader[s]
      /\ UNCHANGED <<run, resultsq, rawdata>>
  BY <1>1, TakeFileTasks
<1>3. Readers' = Readers /\ reader[r].procdata = << >> /\ ~Holds(r) /\ Holds(r)'
      /\ \A s \in Readers : s # r => (Holds(s)' <=> Holds(s))
  BY <1>2, SameRun DEF TasksInv, TasksRight, Holds
<1>4. ASSUME NEW x \in Recorded PROVE Pending(x)' <=> Pending(x)
  <2>1. 1 <= x[2]
    BY RecordedTypes
  <2>2. (\E s \in Readers : Holds(s)' /\ reader'[s].file = x[1] /\ reader'[s].pos <= x[2])
         <=> (x[1] = i \/ \E s \in Readers : Holds(s) /\ reader[s].file = x[1] /\ reader[s].pos <= x[2])
    BY <1>2, <1>3, <2>1
  <2> QED BY <1>2, <1>3, <2>2 DEF Pending
<1>5. PICK N : N = {}
  OBVIOUS
<1>6. Kept(r)' = Kept(r) \cup N /\ Distinct(reader[r].procdata)'
  BY <1>2, <1>3, <1>5, NoTags DEF Kept
<1>7. /\ \A x \in N : x \in Recorded /\ Pending(x)
      /\ \A x \in Recorded : Pending(x)' <=> (Pending(x) /\ x \notin N)
      /\ UNCHANGED <<run, resultsq, rawdata>>
      /\ \A s \in Readers : s # r => reader'[s].procdata = reader[s].procdata
  BY <1>2, <1>4, <1>5
<1> QED BY <1>6, <1>7, DataGrows

LEMMA TakePillRecords ==
  ASSUME TasksInv, RecordsRight, NEW r \in Readers, TakePill(r)
  PROVE  RecordsRight'
<1>2. /\ reader[r].at = "idle" /\ reader'[r].at = "out" /\ reader'[r].procdata = reader[r].procdata
      /\ \A j \in Procs : IsIn(tasksq', j) <=> IsIn(tasksq, j)
      /\ \A s \in Readers : s # r => reader'[s] = reader[s]
      /\ resultsq' = Append(resultsq, None)
      /\ UNCHANGED <<run, rawdata>>
  BY TakePillTasks
<1>3. Readers' = Readers /\ reader[r].procdata = << >> /\ ~Holds(r) /\ ~Holds(r)'
      /\ \A s \in Readers : s # r => (Holds(s)' <=> Holds(s))
  BY <1>2, SameRun DEF TasksInv, TasksRight, Holds
<1>4. ASSUME NEW x \in Recorded PROVE Pending(x)' <=> Pending(x)
  <2>1. x[1] \in Procs
    BY RecordedTypes
  <2>2. (\E s \in Readers : Holds(s)' /\ reader'[s].file = x[1] /\ reader'[s].pos <= x[2])
         <=> \E s \in Readers : Holds(s) /\ reader[s].file = x[1] /\ reader[s].pos <= x[2]
    BY <1>2, <1>3
  <2> QED BY <1>2, <1>3, <2>1, <2>2 DEF Pending
<1>5. PICK N, D, m : N = {} /\ D = << >> /\ m = None
  OBVIOUS
<1>6. /\ Tags(D) = Kept(r) \cup N /\ Distinct(D)
      /\ m \in {None} \cup ChunkAnswers /\ D = IF m = None THEN << >> ELSE m.data
      /\ reader'[r].procdata = << >>
  BY <1>2, <1>3, <1>5, NoTags DEF Kept
<1>7. /\ \A x \in N : x \in Recorded /\ Pending(x)
      /\ \A x \in Recorded : Pending(x)' <=> (Pending(x) /\ x \notin N)
      /\ UNCHANGED <<run, rawdata>> /\ resultsq' = Append(resultsq, m)
      /\ \A s \in Readers : s # r => reader'[s].procdata = reader[s].procdata
  BY <1>2, <1>4, <1>5
<1> QED BY <1>6, <1>7, DataPut

LEMMA ReadDumpRecords ==
  ASSUME TasksInv, RecordsRight, NEW r \in Readers, ReadDump(r)
  PROVE  RecordsRight'
<1>1. /\ reader[r].at = "read" /\ reader[r].file \in Procs /\ reader[r].pos \in 1 .. NDumps
      /\ Takes(r) => RecordOf(reader[r].file, reader[r].pos) \in Records
      /\ reader[r].procdata \in Seq(Records) /\ Data(r) \in Seq(Records)
      /\ resultsq' = IF Full(r) THEN Append(resultsq, [of |-> "chunk", data |-> Data(r)])
                     ELSE resultsq
      /\ \A s \in Readers : s # r => reader'[s] = reader[s]
      /\ reader'[r].at = "read" /\ reader'[r].file = reader[r].file
      /\ reader'[r].pos = reader[r].pos + 1
      /\ reader'[r].procdata = IF Full(r) THEN << >> ELSE Data(r)
      /\ UNCHANGED <<run, tasksq, rawdata>>
  BY ReadFacts
<1>2. PICK N : N = IF Takes(r) THEN {<<reader[r].file, reader[r].pos>>} ELSE {}
  OBVIOUS
<1>3. Readers' = Readers /\ Holds(r) /\ Holds(r)' /\ ~IsIn(tasksq, reader[r].file)
      /\ \A s \in Readers : s # r => /\ Holds(s)' <=> Holds(s)
                                     /\ Holds(s) => reader[s].file # reader[r].file
  <2>1. Readers' = Readers /\ Holds(r) /\ Holds(r)'
        /\ \A s \in Readers : s # r => (Holds(s)' <=> Holds(s))
    BY <1>1, SameRun DEF Holds
  <2> QED BY <2>1 DEF TasksInv, TasksRight
<1>4. \A x \in N : x \in Recorded /\ Pending(x)
  <2> SUFFICES ASSUME Takes(r) PROVE <<reader[r].file, reader[r].pos>> \in Recorded /\ Pending(<<reader[r].file, reader[r].pos>>)
    BY <1>2
  <2>1. reader[r].pos <= reader[r].pos
    BY <1>1
  <2> QED BY <1>3, <2>1 DEF Takes, Pending
<1>5. ASSUME NEW x \in Recorded PROVE Pending(x)' <=> (Pending(x) /\ x \notin N)
  <2>1. x[1] \in Procs /\ x[2] \in 1 .. NDumps /\ x = <<x[1], x[2]>>
    BY RecordedTypes
  <2>2. CASE x[1] # reader[r].file
    <3>1. x \notin N
      BY <1>2, <2>1, <2>2
    <3>2. (\E s \in Readers : Holds(s)' /\ reader'[s].file = x[1] /\ reader'[s].pos <= x[2])
           <=> \E s \in Readers : Holds(s) /\ reader[s].file = x[1] /\ reader[s].pos <= x[2]
      BY <1>1, <1>3, <2>2
    <3> QED BY <1>1, <1>3, <3>1, <3>2 DEF Pending
  <2>3. CASE x[1] = reader[r].file
    <3>1. Pending(x) <=> reader[r].pos <= x[2]
      BY <1>3, <2>3 DEF Pending
    <3>2. Pending(x)' <=> reader[r].pos + 1 <= x[2]
      <4>1. \A s \in Readers : (Holds(s)' /\ reader'[s].file = x[1]) <=> s = r
        BY <1>1, <1>3, <2>3
      <4>2. ~IsIn(tasksq', x[1])
        BY <1>1, <1>3, <2>3
      <4> QED BY <1>1, <1>3, <4>1, <4>2 DEF Pending
    <3>3. x \in N <=> x[2] = reader[r].pos
      <4>1. x[2] = reader[r].pos => Takes(r)
        BY <2>1, <2>3 DEF Takes
      <4> QED BY <1>2, <2>1, <2>3, <4>1
    <3>4. reader[r].pos \in Int /\ x[2] \in Int
      BY <1>1, <2>1
    <3> QED BY <3>1, <3>2, <3>3, <3>4
  <2> QED BY <2>2, <2>3
<1>6. Tags(Data(r)) = Kept(r) \cup N /\ Distinct(Data(r))
  <2>1. Distinct(reader[r].procdata)
    BY DEF RecordsRight
  <2>2. CASE Takes(r)
    <3> DEFINE d == RecordOf(reader[r].file, reader[r].pos)
    <3>1. d.of = reader[r].file /\ d.t = reader[r].pos
      BY DEF RecordOf
    <3>2. <<d.of, d.t>> \in N
      BY <1>2, <2>2, <3>1
    <3>3. <<d.of, d.t>> \notin Tags(reader[r].procdata)
      BY <1>4, <3>2 DEF RecordsRight, Collected, Kept
    <3>4. d \in Records /\ Data(r) = Append(reader[r].procdata, d)
      BY <1>1, <2>2 DEF Data
    <3> HIDE DEF d
    <3>5. Tags(Data(r)) = Tags(reader[r].procdata) \cup {<<d.of, d.t>>} /\ Distinct(Data(r))
      BY <1>1, <2>1, <3>3, <3>4, TagsAppend
    <3> QED BY <1>2, <2>2, <3>1, <3>5 DEF Kept
  <2>3. CASE ~Takes(r)
    BY <1>2, <2>1, <2>3 DEF Data, Kept
  <2> QED BY <2>2, <2>3
<1>7. CASE Full(r)
  <2>1. PICK D, m : D = Data(r) /\ m = [of |-> "chunk", data |-> Data(r)]
    OBVIOUS
  <2>2. m \in {None} \cup ChunkAnswers /\ m # None /\ m.data = D
    BY <1>1, <2>1 DEF ChunkAnswers, None
  <2>3. /\ resultsq' = Append(resultsq, m) /\ reader'[r].procdata = << >>
        /\ D = IF m = None THEN << >> ELSE m.data
        /\ Distinct(D) /\ Tags(D) = Kept(r) \cup N
    BY <1>1, <1>6, <1>7, <2>1, <2>2
  <2>4. UNCHANGED <<run, rawdata>> /\ \A s \in Readers : s # r => reader'[s].procdata = reader[s].procdata
    BY <1>1
  <2> QED BY <1>4, <1>5, <2>2, <2>3, <2>4, DataPut
<1>8. CASE ~Full(r)
  <2>1. /\ UNCHANGED <<run, resultsq, rawdata>> /\ reader'[r].procdata = Data(r)
        /\ \A s \in Readers : s # r => reader'[s].procdata = reader[s].procdata
    BY <1>1, <1>8
  <2>2. Kept(r)' = Kept(r) \cup N /\ Distinct(reader[r].procdata)'
    BY <1>6, <2>1 DEF Kept
  <2> QED BY <1>4, <1>5, <2>1, <2>2, DataGrows
<1> QED BY <1>7, <1>8

LEMMA EndFileRecords ==
  ASSUME TasksInv, RecordsRight, NEW r \in Readers, EndFile(r)
  PROVE  RecordsRight'
<1>1. /\ reader[r].at = "read" /\ reader[r].file \in Procs /\ reader[r].pos = NDumps + 1
      /\ reader[r].procdata \in Seq(Records)
      /\ resultsq' = IF reader[r].procdata = << >> THEN resultsq
                     ELSE Append(resultsq, [of |-> "chunk", data |-> reader[r].procdata])
      /\ \A s \in Readers : s # r => reader'[s] = reader[s]
      /\ reader'[r].procdata = << >> /\ reader'[r].at = "idle"
      /\ UNCHANGED <<run, tasksq, rawdata>>
  BY EndFacts
<1>2. PICK N : N = {}
  OBVIOUS
<1>3. Readers' = Readers /\ ~Holds(r)'
      /\ \A s \in Readers : s # r => (Holds(s)' <=> Holds(s))
  BY <1>1, SameRun DEF Holds
<1>4. ASSUME NEW x \in Recorded PROVE Pending(x)' <=> (Pending(x) /\ x \notin N)
  <2>1. ~(reader[r].pos <= x[2])
    BY <1>1, RecordedTypes, CountFacts
  <2>2. (\E s \in Readers : Holds(s)' /\ reader'[s].file = x[1] /\ reader'[s].pos <= x[2])
         <=> \E s \in Readers : Holds(s) /\ reader[s].file = x[1] /\ reader[s].pos <= x[2]
    BY <1>1, <1>3, <2>1
  <2> QED BY <1>1, <1>2, <1>3, <2>2 DEF Pending
<1>5. \A x \in N : x \in Recorded /\ Pending(x)
  BY <1>2
<1>6. Distinct(reader[r].procdata)
  BY DEF RecordsRight
<1>7. CASE reader[r].procdata = << >>
  <2>1. Kept(r)' = Kept(r) \cup N /\ Distinct(reader[r].procdata)'
    BY <1>1, <1>2, <1>7, NoTags DEF Kept
  <2>2. /\ UNCHANGED <<run, resultsq, rawdata>>
        /\ \A s \in Readers : s # r => reader'[s].procdata = reader[s].procdata
    BY <1>1, <1>7
  <2> QED BY <1>4, <1>5, <2>1, <2>2, DataGrows
<1>8. CASE reader[r].procdata # << >>
  <2>1. PICK D, m : D = reader[r].procdata /\ m = [of |-> "chunk", data |-> reader[r].procdata]
    OBVIOUS
  <2>2. m \in {None} \cup ChunkAnswers /\ m # None /\ m.data = D
    BY <1>1, <2>1 DEF ChunkAnswers, None
  <2>3. /\ resultsq' = Append(resultsq, m) /\ reader'[r].procdata = << >>
        /\ D = IF m = None THEN << >> ELSE m.data
        /\ Distinct(D) /\ Tags(D) = Kept(r) \cup N
    BY <1>1, <1>2, <1>6, <1>8, <2>1, <2>2 DEF Kept
  <2>4. UNCHANGED <<run, rawdata>> /\ \A s \in Readers : s # r => reader'[s].procdata = reader[s].procdata
    BY <1>1
  <2> QED BY <1>4, <1>5, <2>2, <2>3, <2>4, DataPut
<1> QED BY <1>7, <1>8

\* A step in which no record moves.
LEMMA RecordsRest ==
  ASSUME TasksInv, RecordsRight, UNCHANGED <<run, tasksq, resultsq, rawdata>>,
         \A r \in Readers : /\ Holds(r)' <=> Holds(r)
                            /\ reader'[r].file = reader[r].file /\ reader'[r].pos = reader[r].pos
                            /\ reader'[r].procdata = reader[r].procdata
  PROVE  RecordsRight'
<1>1. /\ Readers' = Readers /\ Recorded' = Recorded /\ Chunks' = Chunks
      /\ Raw' = Raw /\ \A k : DataAt(k)' = DataAt(k) /\ Bag(k)' = Bag(k)
  BY SameRun DEF Chunks, Raw, Bag, DataAt
<1>2. \A r \in Readers : Kept(r)' = Kept(r) /\ (Distinct(reader[r].procdata)' <=> Distinct(reader[r].procdata))
  BY DEF Kept
<1>3. \A x : Pending(x)' <=> Pending(x)
  BY <1>1 DEF Pending
<1>4. \A x : Collected(x)' <=> Collected(x)
  BY <1>1, <1>2 DEF Collected
<1> QED BY <1>1, <1>2, <1>3, <1>4 DEF RecordsRight

LEMMA InitRecords ==
  ASSUME Init
  PROVE  RecordsRight /\ \A i \in Procs : IsIn(tasksq, i)
<1> DEFINE f == SetToSeq(Procs)
           pills == [r \in 1 .. run.cores |-> Pill]
           S == Procs \cup {Pill}
<1>1. TasksInv
  BY InitTasks
<1>2. /\ run \in Runs /\ tasksq = f \o pills /\ resultsq = << >> /\ rawdata = << >>
      /\ reader = [r \in 1 .. run.cores |-> Idle]
  BY DEF Init
<1>3. f \in Seq(Procs) /\ \A i \in Procs : \E k \in 1 .. Len(f) : f[k] = i
  BY FileList
<1>4. pills \in Seq({Pill}) /\ Len(pills) \in Nat
  BY <1>2, RunTypes
<1> HIDE DEF f, pills
<1>5. f \in Seq(S) /\ pills \in Seq(S) /\ Len(f) \in Nat
  BY <1>3, <1>4
<1> HIDE DEF S
<1>6. Len(tasksq) = Len(f) + Len(pills) /\ \A k \in 1 .. Len(f) : tasksq[k] = f[k]
  BY <1>2, <1>5
<1>7. \A k \in 1 .. Len(f) : k \in 1 .. Len(tasksq)
  BY <1>4, <1>5, <1>6
<1>8. \A i \in Procs : IsIn(tasksq, i)
  BY <1>3, <1>6, <1>7 DEF IsIn
<1>9. \A r \in Readers : reader[r].procdata = << >>
  BY <1>2 DEF Readers, Idle
<1>10. Raw = {} /\ Chunks = {} /\ \A r \in Readers : Kept(r) = {}
  <2>1. Chunks = {}
    BY <1>2 DEF Chunks
  <2>2. Raw = {}
    BY <1>2, NoTags DEF Raw
  <2>3. \A r \in Readers : Kept(r) = {}
    BY <1>9, NoTags DEF Kept
  <2> QED BY <2>1, <2>2, <2>3
<1>11. \A x : ~Collected(x)
  BY <1>10 DEF Collected
<1>12. \A x \in Recorded : Pending(x)
  BY <1>8, RecordedTypes DEF Pending
<1> QED BY <1>2, <1>8, <1>9, <1>10, <1>11, <1>12, NoTags DEF RecordsRight

LEMMA NextRecords ==
  ASSUME TasksInv, RecordsRight, [Next]_vars
  PROVE  RecordsRight'
<1>1. ASSUME NEW r \in Readers, ReaderStep(r) PROVE RecordsRight'
  <2>1. CASE Exit(r)
    <3>1. /\ UNCHANGED <<run, tasksq, resultsq, rawdata>>
          /\ reader'[r].file = reader[r].file /\ reader'[r].pos = reader[r].pos
          /\ reader'[r].procdata = reader[r].procdata /\ Holds(r) /\ Holds(r)'
          /\ \A s \in Readers : s # r => reader'[s] = reader[s]
      BY <2>1, ExitTasks
    <3>2. \A s \in Readers : /\ Holds(s)' <=> Holds(s)
                            /\ reader'[s].file = reader[s].file /\ reader'[s].pos = reader[s].pos
                            /\ reader'[s].procdata = reader[s].procdata
      BY <3>1 DEF Holds
    <3> QED BY <3>1, <3>2, RecordsRest
  <2> QED BY <1>1, <2>1, TakeFileRecords, TakePillRecords, ReadDumpRecords, EndFileRecords DEF ReaderStep
<1>2. ASSUME UNCHANGED <<run, tasksq, reader, resultsq, rawdata>> PROVE RecordsRight'
  <2>1. \A r \in Readers : Holds(r)' <=> Holds(r)
    BY <1>2 DEF Holds
  <2> QED BY <1>2, <2>1, RecordsRest
<1>3. CASE NextQueue \/ GetCounts
  BY <1>2, <1>3 DEF NextQueue, GetCounts, queues
<1>4. CASE JoinTasks \/ WriteGroup \/ NoRow \/ Close \/ UNCHANGED vars
  BY <1>2, <1>4, Others
<1> QED BY <1>1, <1>3, <1>4, DataGot DEF Next, MainStep

\* With all readers counted out nothing is left to be read, gathered or got.
LEMMA RecordsIn ==
  ASSUME TasksInv, RecordsRight
  PROVE  AllRecordsIn
<1> SUFFICES ASSUME run.cores > 0, main # "q1"
             PROVE  Len(rawdata) = Cardinality(Recorded) /\ Raw = Recorded
  BY DEF AllRecordsIn, Raw, Tags
<1>1. AllOut /\ tasksq = << >> /\ resultsq = << >>
  BY DEF TasksInv, PillsRight
<1>2. Chunks = {} /\ (\A r \in Readers : ~Holds(r)) /\ \A i : ~IsIn(tasksq, i)
  BY <1>1 DEF Chunks, AllOut, Holds, IsIn
<1>3. \A r \in Readers : Kept(r) = {}
  BY <1>2, NoTags DEF TasksInv, TasksRight, Kept
<1>4. \A x : ~Pending(x) /\ (Collected(x) <=> x \in Raw)
  BY <1>2, <1>3 DEF Pending, Collected
<1>5. Raw = Recorded
  BY <1>4 DEF RecordsRight
<1>6. Len(rawdata) = Cardinality(Raw)
  BY TagCount DEF TasksInv, PoolTypes, RecordsRight, Raw
<1> QED BY <1>5, <1>6

LEMMA RecordsCorrect == Spec => [](TasksInv /\ RecordsRight)
<1>1. Init => TasksInv /\ RecordsRight
  BY InitTasks, InitRecords
<1>2. TasksInv /\ RecordsRight /\ [Next]_vars => (TasksInv /\ RecordsRight)'
  BY NextTasks, NextRecords
<1> QED BY <1>1, <1>2, PTL DEF Spec

\* When the main process has counted all readers out on the first queue, it has every
\* record of every file, once, whatever the number of readers, the size of the chunks and
\* the order in which they come (readstalker_parallel.py:179-190).
THEOREM EveryRecordArrives == Spec => []AllRecordsIn
BY RecordsCorrect, RecordsIn, PTL

-----------------------------------------------------------------------------
(* The counts *)

LEMMA NoPillFile == Pill \notin Procs
BY PoolAssumption DEF Pill

LEMMA SeenFacts ==
  ASSUME NEW C \in SUBSET Procs
  PROVE  /\ IsFiniteSet(Seen(C)) /\ Cardinality(Seen(C)) \in Nat
         /\ \A h \in Procs : h \notin C =>
              /\ Seen(C \cup {h}) = Seen(C) \cup On(h, 1)
              /\ Cardinality(Seen(C \cup {h})) = Cardinality(Seen(C)) + Cardinality(On(h, 1))
<1>1. Seen(C) \in SUBSET Pars /\ IsFiniteSet(Pars)
  BY CountFacts, PoolAssumption DEF Seen
<1>2. IsFiniteSet(Seen(C)) /\ Cardinality(Seen(C)) \in Nat
  BY <1>1, FS_Subset, FS_CardinalityType
<1>3. ASSUME NEW h \in Procs, h \notin C
      PROVE  /\ Seen(C \cup {h}) = Seen(C) \cup On(h, 1)
             /\ Cardinality(Seen(C \cup {h})) = Cardinality(Seen(C)) + Cardinality(On(h, 1))
  <2>1. Seen(C \cup {h}) = Seen(C) \cup On(h, 1)
    BY DEF Seen
  <2>2. Seen(C) \cap On(h, 1) = {}
    BY <1>3 DEF Seen, On, InFile
  <2>3. Cardinality(Seen(C) \cup On(h, 1)) = Cardinality(Seen(C)) + Cardinality(On(h, 1)) - Cardinality({})
    BY <1>2, <2>2, CountFacts, FS_Union
  <2>4. Cardinality(Seen(C) \cup On(h, 1)) = Cardinality(Seen(C)) + Cardinality(On(h, 1))
    BY <1>2, <2>3, CountFacts, FS_EmptySet
  <2> QED BY <2>1, <2>4
<1> QED BY <1>2, <1>3

\* A step in which no counts are put or got, and no file is done.
LEMMA CountsRest ==
  ASSUME CountsRight, UNCHANGED <<run, resultsq2, nstalk_tot, ndump>>,
         main' \in {"q1", "q2"} => main \in {"q1", "q2"},
         \A i \in Procs : Open(i)' <=> Open(i)
  PROVE  CountsRight'
<1> SUFFICES ASSUME NEW names, NEW C, Named(names, C) PROVE Named(names, C)'
  BY DEF CountsRight
<1>1. Seen(C)' = Seen(C) /\ \A i : Counted(i)' = Counted(i) /\ CountsOf(i)' = CountsOf(i)
  BY SameRun DEF Seen
<1>2. C \in SUBSET Procs
  BY DEF Named
<1>3. \A i \in C : Open(i)' <=> Open(i)
  BY <1>2
<1> QED BY <1>1, <1>2, <1>3 DEF Named

LEMMA TakeFileCounts ==
  ASSUME TasksInv, CountsRight, NEW r \in Readers, TakeFile(r)
  PROVE  CountsRight'
<1>1. PICK i : i = Head(tasksq)
  OBVIOUS
<1>2. /\ reader[r].at = "idle" /\ reader'[r].at = "read" /\ reader'[r].file = i
      /\ IsIn(tasksq, i) /\ ~IsIn(tasksq', i)
      /\ \A j : j # i => (IsIn(tasksq', j) <=> IsIn(tasksq, j))
      /\ \A s \in Readers : s # r => reader'[s] = reader[s]
      /\ UNCHANGED <<run, resultsq2, main, nstalk_tot, ndump>>
  BY <1>1, TakeFileTasks
<1>3. Readers' = Readers /\ ~Holds(r) /\ Holds(r)'
      /\ \A s \in Readers : s # r => (Holds(s)' <=> Holds(s))
  BY <1>2, SameRun DEF Holds
<1>4. \A j : Held(j)' <=> (Held(j) \/ j = i)
  BY <1>2, <1>3 DEF Held
<1>5. \A j : Open(j)' <=> Open(j)
  BY <1>2, <1>4 DEF Open
<1> QED BY <1>2, <1>5, CountsRest

LEMMA ReadDumpCounts ==
  ASSUME TasksInv, CountsRight, NEW r \in Readers, ReadDump(r) \/ Exit(r)
  PROVE  CountsRight'
<1>1. /\ reader[r].at = "read" /\ reader'[r].at \in {"read", "exited"} /\ reader'[r].file = reader[r].file
      /\ \A s \in Readers : s # r => reader'[s] = reader[s]
      /\ UNCHANGED <<run, tasksq, resultsq2, main, nstalk_tot, ndump>>
  BY ReadFacts, ExitTasks DEF TasksInv, PoolTypes, Holds, ReaderStates
<1>2. Readers' = Readers /\ \A s \in Readers : (Holds(s)' <=> Holds(s)) /\ reader'[s].file = reader[s].file
  BY <1>1, SameRun DEF Holds
<1>3. \A j : Open(j)' <=> Open(j)
  BY <1>1, <1>2 DEF Open, Held
<1> QED BY <1>1, <1>3, CountsRest

LEMMA QuietCounts ==
  ASSUME TasksInv, CountsRight, UNCHANGED <<run, tasksq, reader, resultsq2, nstalk_tot, ndump>>,
         main' \in {"q1", "q2"} => main \in {"q1", "q2"}
  PROVE  CountsRight'
<1>1. \A j : Open(j)' <=> Open(j)
  BY SameRun DEF Open, Held, Holds
<1> QED BY <1>1, CountsRest

\* An answer is put on the second queue: None, or the counts of a file.
LEMMA CountsPut ==
  ASSUME TasksInv, NEW names, NEW C, Named(names, C), UNCHANGED <<run, nstalk_tot, ndump>>,
         NEW h \in Procs \cup {Pill},
         resultsq2' = Append(resultsq2, IF h = Pill THEN None ELSE CountsOf(h)),
         h \in Procs => Open(h),
         \A i \in Procs : Open(i)' <=> (Open(i) /\ i # h)
  PROVE  Named(Append(names, h), C)'
<1>1. PICK more, n : more = Append(names, h) /\ n = Len(names) + 1
  OBVIOUS
<1>2. names \in Seq(Procs \cup {Pill}) /\ Len(names) = Len(resultsq2)
      /\ resultsq2 \in Seq({None} \cup CountAnswers)
  BY DEF Named, TasksInv, PoolTypes
<1>3. /\ more \in Seq(Procs \cup {Pill}) /\ Len(more) = n /\ more[n] = h
      /\ \A k \in 1 .. Len(names) : more[k] = names[k] /\ k # n
      /\ 1 .. Len(more) = (1 .. Len(names)) \cup {n}
      /\ Len(resultsq2') = n
  BY <1>1, <1>2
<1>4. /\ \A k \in 1 .. Len(names) : resultsq2'[k] = resultsq2[k]
      /\ resultsq2'[n] = IF h = Pill THEN None ELSE CountsOf(h)
  BY <1>1, <1>2
<1>5. Seen(C)' = Seen(C) /\ \A i : Counted(i)' = Counted(i) /\ CountsOf(i)' = CountsOf(i)
  BY SameRun DEF Seen
<1>6. /\ \A k \in 1 .. Len(names) : resultsq2[k] = IF names[k] = Pill THEN None ELSE CountsOf(names[k])
      /\ \A j, k \in 1 .. Len(names) : (names[j] = names[k] /\ names[j] # Pill) => j = k
      /\ C \in SUBSET Procs
      /\ \A k \in 1 .. Len(names) : names[k] \in Procs => names[k] \notin C /\ ~Open(names[k])
      /\ \A i \in C : ~Open(i)
      /\ \A i \in Procs : i \in C \/ Open(i) \/ IsIn(names, i)
  BY DEF Named
<1>7. \A k \in 1 .. Len(more) : resultsq2'[k] = IF more[k] = Pill THEN None ELSE CountsOf(more[k])
  BY <1>3, <1>4, <1>6
<1>8. \A k \in 1 .. Len(names) : names[k] \in Procs \cup {Pill}
  BY <1>2
<1>9. \A k \in 1 .. Len(names) : names[k] # h \/ h = Pill
  BY <1>6, <1>8
<1>10. \A j, k \in 1 .. Len(more) : (more[j] = more[k] /\ more[j] # Pill) => j = k
  BY <1>3, <1>6, <1>9
<1>11. \A k \in 1 .. Len(more) : more[k] \in Procs => more[k] \notin C /\ ~Open(more[k])'
  <2> SUFFICES ASSUME NEW k \in 1 .. Len(more), NEW i \in Procs, more[k] = i
               PROVE  i \notin C /\ ~Open(i)'
    OBVIOUS
  <2>1. CASE k = n
    BY <1>3, <1>6, <2>1
  <2>2. CASE k \in 1 .. Len(names)
    BY <1>3, <1>6, <2>2
  <2> QED BY <1>3, <2>1, <2>2
<1>12. \A i : IsIn(more, i) <=> (IsIn(names, i) \/ i = h)
  BY <1>3 DEF IsIn
<1>13. (\A i \in C : ~Open(i)') /\ \A i \in Procs : i \in C \/ Open(i)' \/ IsIn(more, i)
  BY <1>6, <1>12
<1>14. nstalk_tot = Cardinality(Seen(C)) /\ \A i \in C : Cardinality(Counted(i)) <= ndump
  BY DEF Named
<1>15. Named(more, C)'
  BY <1>3, <1>5, <1>6, <1>7, <1>10, <1>11, <1>13, <1>14 DEF Named
<1> QED BY <1>1, <1>15

LEMMA TakePillCounts ==
  ASSUME TasksInv, CountsRight, NEW r \in Readers, TakePill(r)
  PROVE  CountsRight'
<1>1. /\ reader[r].at = "idle" /\ reader'[r].at = "out"
      /\ \A j \in Procs : IsIn(tasksq', j) <=> IsIn(tasksq, j)
      /\ \A s \in Readers : s # r => reader'[s] = reader[s]
      /\ resultsq2' = Append(resultsq2, None)
      /\ UNCHANGED <<run, main, nstalk_tot, ndump>>
  BY TakePillTasks
<1>2. Readers' = Readers /\ ~Holds(r) /\ ~Holds(r)'
      /\ \A s \in Readers : s # r => (Holds(s)' <=> Holds(s))
  BY <1>1, SameRun DEF Holds
<1>3. \A j \in Procs : Open(j)' <=> Open(j)
  BY <1>1, <1>2 DEF Open, Held
<1>4. main = "q1"
  BY <1>1, ReadersFirst
<1>5. PICK names, C : Named(names, C)
  BY <1>4 DEF CountsRight
<1>6. PICK h : h = Pill
  OBVIOUS
<1>7. /\ h \in Procs \cup {Pill} /\ (h \in Procs => Open(h))
      /\ \A i \in Procs : Open(i)' <=> (Open(i) /\ i # h)
      /\ resultsq2' = Append(resultsq2, IF h = Pill THEN None ELSE CountsOf(h))
  BY <1>1, <1>3, <1>6, NoPillFile
<1>8. Named(Append(names, h), C)'
  BY <1>1, <1>5, <1>7, CountsPut
<1> QED BY <1>8 DEF CountsRight

LEMMA EndFileCounts ==
  ASSUME TasksInv, CountsRight, NEW r \in Readers, EndFile(r)
  PROVE  CountsRight'
<1>1. PICK h : h = reader[r].file
  OBVIOUS
<1>2. /\ reader[r].at = "read" /\ h \in Procs /\ reader'[r].at = "idle"
      /\ resultsq2' = Append(resultsq2, CountsOf(h))
      /\ \A s \in Readers : s # r => reader'[s] = reader[s]
      /\ UNCHANGED <<run, tasksq, main, nstalk_tot, ndump>>
  BY <1>1, EndFacts
<1>3. Readers' = Readers /\ Holds(r) /\ ~Holds(r)'
      /\ \A s \in Readers : s # r => (Holds(s)' <=> Holds(s))
  BY <1>2, SameRun DEF Holds
<1>4. ~IsIn(tasksq, h) /\ \A s \in Readers : s # r /\ Holds(s) => reader[s].file # h
  BY <1>1, <1>3 DEF TasksInv, TasksRight
<1>5. \A j : Held(j)' <=> (Held(j) /\ j # h)
  BY <1>1, <1>2, <1>3, <1>4 DEF Held
<1>6. Open(h) /\ \A j : Open(j)' <=> (Open(j) /\ j # h)
  BY <1>1, <1>2, <1>3, <1>4, <1>5 DEF Open, Held
<1>7. main = "q1"
  BY <1>2, ReadersFirst
<1>8. PICK names, C : Named(names, C)
  BY <1>7 DEF CountsRight
<1>9. resultsq2' = Append(resultsq2, IF h = Pill THEN None ELSE CountsOf(h))
  BY <1>2, NoPillFile
<1>10. Named(Append(names, h), C)'
  BY <1>2, <1>6, <1>8, <1>9, CountsPut
<1> QED BY <1>10 DEF CountsRight

\* An answer is taken off the second queue.
LEMMA GetCountsCounts ==
  ASSUME TasksInv, CountsRight, GetCounts
  PROVE  CountsRight'
<1>1. /\ main = "q2" /\ resultsq2 # << >> /\ resultsq2' = Tail(resultsq2)
      /\ Head(resultsq2) = None => UNCHANGED <<nstalk_tot, ndump>>
      /\ Head(resultsq2) # None =>
           /\ nstalk_tot' = nstalk_tot + Head(resultsq2).stalk
           /\ ndump' = IF Head(resultsq2).recorded > ndump THEN Head(resultsq2).recorded ELSE ndump
      /\ UNCHANGED <<run, tasksq, reader, main>>
  BY DEF GetCounts
<1>2. PICK names, C : Named(names, C)
  BY <1>1 DEF CountsRight
<1>3. /\ names \in Seq(Procs \cup {Pill}) /\ Len(names) = Len(resultsq2)
      /\ resultsq2 \in Seq({None} \cup CountAnswers) /\ ndump \in Nat
  BY <1>2 DEF Named, TasksInv, PoolTypes
<1>4. PICK rest, h : rest = Tail(names) /\ h = names[1]
  OBVIOUS
<1>5. /\ rest \in Seq(Procs \cup {Pill}) /\ Len(rest) = Len(resultsq2') /\ h \in Procs \cup {Pill}
      /\ Len(names) \in Nat /\ Len(names) >= 1 /\ Len(rest) = Len(names) - 1
      /\ \A k \in 1 .. Len(rest) : rest[k] = names[k + 1] /\ resultsq2'[k] = resultsq2[k + 1]
      /\ Head(resultsq2) = resultsq2[1]
  BY <1>1, <1>3, <1>4
<1>6. /\ \A k \in 1 .. Len(names) : resultsq2[k] = IF names[k] = Pill THEN None ELSE CountsOf(names[k])
      /\ \A j, k \in 1 .. Len(names) : (names[j] = names[k] /\ names[j] # Pill) => j = k
      /\ C \in SUBSET Procs
      /\ \A k \in 1 .. Len(names) : names[k] \in Procs => names[k] \notin C /\ ~Open(names[k])
      /\ \A i \in C : ~Open(i)
      /\ \A i \in Procs : i \in C \/ Open(i) \/ IsIn(names, i)
      /\ nstalk_tot = Cardinality(Seen(C))
      /\ \A i \in C : Cardinality(Counted(i)) <= ndump
  BY <1>2 DEF Named
<1>7. \A i : Open(i)' <=> Open(i)
  BY <1>1, SameRun DEF Open, Held, Holds
<1>8. PICK all : all = IF h = Pill THEN C ELSE C \cup {h}
  OBVIOUS
<1>9. /\ \A k \in 1 .. Len(rest) : k + 1 \in 1 .. Len(names) /\ k \in Int /\ k + 1 # 1
      /\ 1 \in 1 .. Len(names)
      /\ \A k \in 1 .. Len(names) : k = 1 \/ (k - 1 \in 1 .. Len(rest) /\ k = (k - 1) + 1)
  BY <1>5
<1>10. h \in Procs => h \notin C /\ ~Open(h) /\ \A k \in 1 .. Len(rest) : rest[k] # h
  <2> SUFFICES ASSUME h \in Procs PROVE h \notin C /\ ~Open(h) /\ \A k \in 1 .. Len(rest) : rest[k] # h
    OBVIOUS
  <2>1. h # Pill
    BY NoPillFile
  <2>2. \A k \in 1 .. Len(rest) : names[k + 1] # names[1]
    BY <1>4, <1>6, <1>9, <2>1
  <2> QED BY <1>4, <1>5, <1>6, <1>9, <2>2
<1>11. \A k \in 1 .. Len(rest) : resultsq2'[k] = IF rest[k] = Pill THEN None ELSE CountsOf(rest[k])
  BY <1>5, <1>6, <1>9
<1>12. \A j, k \in 1 .. Len(rest) : (rest[j] = rest[k] /\ rest[j] # Pill) => j = k
  <2> SUFFICES ASSUME NEW j \in 1 .. Len(rest), NEW k \in 1 .. Len(rest), rest[j] = rest[k], rest[j] # Pill
               PROVE  j = k
    OBVIOUS
  <2>1. j + 1 = k + 1
    BY <1>5, <1>6, <1>9
  <2> QED BY <1>9, <2>1
<1>13. all \in SUBSET Procs
  BY <1>5, <1>6, <1>8
<1>14. \A k \in 1 .. Len(rest) : rest[k] \in Procs => rest[k] \notin all /\ ~Open(rest[k])
  <2> SUFFICES ASSUME NEW k \in 1 .. Len(rest), rest[k] \in Procs
               PROVE  rest[k] \notin all /\ ~Open(rest[k])
    OBVIOUS
  <2>1. rest[k] \notin C /\ ~Open(rest[k])
    BY <1>5, <1>6, <1>9
  <2>2. h # Pill => rest[k] # h
    BY <1>5, <1>10
  <2> QED BY <1>8, <2>1, <2>2
<1>15. \A i \in all : ~Open(i)
  BY <1>5, <1>6, <1>8, <1>10
<1>16. \A i \in Procs : i \in all \/ Open(i) \/ IsIn(rest, i)
  <2>1. \A i : IsIn(names, i) => (i = h \/ IsIn(rest, i))
    BY <1>4, <1>5, <1>9 DEF IsIn
  <2> QED BY <1>6, <1>8, <2>1, NoPillFile
<1>17. /\ nstalk_tot' = Cardinality(Seen(all)) /\ \A i \in all : Cardinality(Counted(i)) <= ndump'
  <2>1. CASE h = Pill
    BY <1>1, <1>4, <1>5, <1>6, <1>8, <1>9, <2>1
  <2>2. CASE h # Pill
    <3>1. h \in Procs /\ h \notin C /\ all = C \cup {h}
      BY <1>5, <1>8, <1>10, <2>2
    <3>2. Head(resultsq2) = CountsOf(h)
      BY <1>4, <1>5, <1>6, <1>9, <2>2
    <3>3. /\ CountsOf(h) # None /\ CountsOf(h).stalk = Cardinality(On(h, 1))
          /\ CountsOf(h).recorded = Cardinality(Counted(h))
      BY DEF CountsOf, None
    <3>4. /\ nstalk_tot' = nstalk_tot + Cardinality(On(h, 1))
          /\ ndump' = IF Cardinality(Counted(h)) > ndump THEN Cardinality(Counted(h)) ELSE ndump
      BY <1>1, <3>2, <3>3
    <3>5. Cardinality(Seen(all)) = Cardinality(Seen(C)) + Cardinality(On(h, 1))
      BY <1>6, <3>1, SeenFacts
    <3>6. \A i \in all : Cardinality(Counted(i)) \in Nat /\ (i = h \/ Cardinality(Counted(i)) <= ndump)
      BY <1>6, <3>1, CountFacts
    <3>7. Cardinality(Counted(h)) \in Nat
      BY CountFacts
    <3> QED BY <1>3, <1>6, <3>4, <3>5, <3>6, <3>7
  <2> QED BY <2>1, <2>2
<1>18. Seen(all)' = Seen(all) /\ \A i : Counted(i)' = Counted(i) /\ CountsOf(i)' = CountsOf(i)
  BY <1>1, SameRun DEF Seen
<1>19. Named(rest, all)'
  BY <1>5, <1>7, <1>11, <1>12, <1>13, <1>14, <1>15, <1>16, <1>17, <1>18 DEF Named
<1> QED BY <1>19 DEF CountsRight

\* When all readers have been counted out on the second queue, it is empty.
LEMMA AllCountsGot ==
  ASSUME TasksInv, main = "q2", ndone = run.cores, run.cores > 0
  PROVE  AllOut /\ tasksq = << >> /\ resultsq2 = << >>
<1>1. AllOut /\ tasksq = << >> /\ ndone + Cardinality(At(resultsq2, {None})) = Cardinality(Out)
  BY DEF TasksInv, PillsRight
<1>2. Cardinality(Out) = run.cores /\ run.cores \in Nat
  <2>1. Out = Readers
    BY <1>1 DEF AllOut, Out
  <2> QED BY <2>1, RunTypes DEF TasksInv, PoolTypes
<1>3. resultsq2 \in Seq({None} \cup CountAnswers)
  BY DEF TasksInv, PoolTypes
<1>4. IsFiniteSet(At(resultsq2, {None})) /\ Cardinality(At(resultsq2, {None})) \in Nat
  BY <1>3, AtFinite
<1>5. Cardinality(At(resultsq2, {None})) = 0
  BY <1>1, <1>2, <1>4
<1>6. At(resultsq2, {None}) = {}
  BY <1>4, <1>5, FS_EmptySet
<1>7. resultsq2 = << >>
  <2> SUFFICES ASSUME resultsq2 # << >> PROVE FALSE
    OBVIOUS
  <2>1. resultsq2[Len(resultsq2)] = None
    BY <1>1 DEF TasksInv, PillsRight
  <2>2. Len(resultsq2) \in 1 .. Len(resultsq2)
    BY <1>3
  <2> QED BY <1>6, <2>1, <2>2 DEF At
<1> QED BY <1>1, <1>7

\* Then, or if there are no files, the totals are of all files.
LEMMA JoinTotals ==
  ASSUME TasksInv, CountsRight, JoinTasks
  PROVE  TotalsIn'
<1>1. /\ main = "q2" /\ ndone = run.cores /\ unfinished = 0
      /\ UNCHANGED <<run, nstalk_tot, ndump>>
  BY DEF JoinTasks, totals
<1>2. PICK names, C : Named(names, C)
  BY <1>1 DEF CountsRight
<1>3. /\ C \in SUBSET Procs /\ nstalk_tot = Cardinality(Seen(C))
      /\ \A i \in C : Cardinality(Counted(i)) <= ndump
      /\ \A i \in Procs : i \in C \/ Open(i) \/ IsIn(names, i)
      /\ names \in Seq(Procs \cup {Pill}) /\ Len(names) = Len(resultsq2)
  BY <1>2 DEF Named
<1>4. C = Procs
  <2>1. CASE run.cores > 0
    <3>1. AllOut /\ tasksq = << >> /\ resultsq2 = << >>
      BY <1>1, <2>1, AllCountsGot
    <3>2. names = << >>
      BY <1>3, <3>1
    <3>3. \A i : ~Open(i) /\ ~IsIn(names, i)
      BY <3>1, <3>2 DEF Open, Held, Holds, AllOut, IsIn
    <3> QED BY <1>3, <3>3
  <2>2. CASE ~(run.cores > 0)
    <3>1. run.cores \in Nat /\ Readers = {}
      BY <2>2, RunTypes DEF TasksInv, PoolTypes
    <3>2. Cardinality(Procs) = 0
      BY <1>1, <3>1 DEF TasksInv, TasksRight
    <3>3. Procs = {}
      BY <3>2, PoolAssumption, FS_EmptySet
    <3> QED BY <1>3, <3>3
  <2> QED BY <2>1, <2>2
<1>5. /\ nstalk_tot = Cardinality(UNION {On(i, 1) : i \in Procs})
      /\ \A i \in Procs : Cardinality({t \in Dumps : <<i, t>> \in Recorded}) <= ndump
  BY <1>3, <1>4 DEF Seen, Counted, CountedIn
<1>6. UNION {On(i, 1)' : i \in Procs} = UNION {On(i, 1) : i \in Procs} /\ Recorded' = Recorded
  BY <1>1, SameRun
<1> QED BY <1>1, <1>5, <1>6 DEF TotalsIn

LEMMA TotalsRest ==
  ASSUME TotalsIn, UNCHANGED <<run, nstalk_tot, ndump>>, main' \in {"group", "done"} => main \in {"group", "done"}
  PROVE  TotalsIn'
<1>1. UNION {On(i, 1)' : i \in Procs} = UNION {On(i, 1) : i \in Procs} /\ Recorded' = Recorded
  BY SameRun
<1> QED BY <1>1 DEF TotalsIn

LEMMA InitCounts ==
  ASSUME Init
  PROVE  CountsRight /\ TotalsIn
<1>1. resultsq2 = << >> /\ nstalk_tot = 0 /\ main = "q1"
  BY DEF Init
<1>2. PICK names, C : names = << >> /\ C = {}
  OBVIOUS
<1>3. \A i \in Procs : Open(i)
  BY InitRecords DEF Open
<1>4. Cardinality(Seen(C)) = 0
  BY <1>2, FS_EmptySet DEF Seen
<1>5. names \in Seq(Procs \cup {Pill}) /\ Len(names) = 0 /\ C \in SUBSET Procs
  BY <1>2
<1>6. Named(names, C)
  BY <1>1, <1>2, <1>3, <1>4, <1>5 DEF Named
<1> QED BY <1>1, <1>6 DEF CountsRight, TotalsIn

LEMMA NextCounts ==
  ASSUME TasksInv, CountsRight, TotalsIn, TasksInv', [Next]_vars
  PROVE  CountsRight' /\ TotalsIn'
<1>1. ASSUME NEW r \in Readers, ReaderStep(r) PROVE CountsRight' /\ TotalsIn'
  <2>1. CountsRight'
    BY <1>1, TakeFileCounts, TakePillCounts, ReadDumpCounts, EndFileCounts DEF ReaderStep
  <2>2. main' = main /\ UNCHANGED <<run, nstalk_tot, ndump>>
    BY <1>1 DEF ReaderStep, TakeFile, TakePill, ReadDump, EndFile, Exit, totals
  <2> QED BY <2>1, <2>2, TotalsRest
<1>2. CASE GetResult \/ NextQueue \/ NoRow \/ WriteGroup \/ Close \/ UNCHANGED vars
  <2>1. /\ UNCHANGED <<run, tasksq, reader, resultsq2, nstalk_tot, ndump>>
        /\ main' \in {"q1", "q2"} => main \in {"q1", "q2"}
        /\ main' \in {"group", "done"} => main \in {"group", "done"}
    BY <1>2 DEF GetResult, NextQueue, NoRow, WriteGroup, Close, vars, queues, totals
  <2> QED BY <2>1, QuietCounts, TotalsRest
<1>3. CASE GetCounts
  <2>1. CountsRight'
    BY <1>3, GetCountsCounts
  <2>2. main' = "q2"
    BY <1>3 DEF GetCounts
  <2> QED BY <2>1, <2>2 DEF TotalsIn
<1>4. CASE JoinTasks
  <2>1. main' \notin {"q1", "q2"}
    BY <1>4 DEF JoinTasks
  <2> QED BY <1>4, <2>1, JoinTotals DEF CountsRight
<1> QED BY <1>1, <1>2, <1>3, <1>4 DEF Next, MainStep

LEMMA CountsCorrect == Spec => [](CountsRight /\ TotalsIn)
<1>1. Init => CountsRight /\ TotalsIn
  BY InitCounts
<1>2. CountsRight /\ TotalsIn /\ TasksInv /\ TasksInv' /\ [Next]_vars => (CountsRight /\ TotalsIn)'
  BY NextCounts
<1>3. TasksInv /\ RecordsRight => TasksInv
  OBVIOUS
<1> QED BY <1>1, <1>2, <1>3, RecordsCorrect, PTL DEF Spec

\* The totals are those of all files when both queues have been counted out: no counts
\* are behind the None of their reader (readstalker_parallel.py:192-203).
THEOREM TotalsAreComplete == Spec => []TotalsIn
BY CountsCorrect, PTL

-----------------------------------------------------------------------------
(* Sorting *)

Earlier(S, row) == {r \in S : Before(r, row)}
Rising(p) == \A j, k \in 1 .. Len(p) : j < k => Before(p[j], p[k])
Entries(p) == {p[k] : k \in 1 .. Len(p)}

LEMMA Ordered ==
  ASSUME NEW S \in SUBSET (Int \X Int)
  PROVE  /\ \A a, b \in S : a # b => Before(a, b) \/ Before(b, a)
         /\ \A a, b, c \in S : Before(a, b) /\ Before(b, c) => Before(a, c)
         /\ \A a, b \in S : Before(a, b) => ~Before(b, a)
         /\ \A a \in S : ~Before(a, a)
<1>1. \A a \in S : a[1] \in Int /\ a[2] \in Int /\ a = <<a[1], a[2]>>
  OBVIOUS
<1>2. \A a, b \in S : a # b => Before(a, b) \/ Before(b, a)
  BY <1>1 DEF Before
<1>3. \A a, b, c \in S : Before(a, b) /\ Before(b, c) => Before(a, c)
  BY <1>1 DEF Before
<1>4. \A a, b \in S : Before(a, b) => ~Before(b, a)
  BY <1>1 DEF Before
<1> QED BY <1>2, <1>3, <1>4

\* The number of rows before a row tells its place.
LEMMA Ranks ==
  ASSUME NEW S \in SUBSET (Int \X Int), IsFiniteSet(S)
  PROVE  /\ \A a \in S : Cardinality(Earlier(S, a)) \in 0 .. Cardinality(S) - 1
         /\ \A a, b \in S : Before(a, b) => Cardinality(Earlier(S, a)) < Cardinality(Earlier(S, b))
<1>1. ASSUME NEW a \in S PROVE IsFiniteSet(Earlier(S, a)) /\ Cardinality(Earlier(S, a)) \in Nat
  <2>1. Earlier(S, a) \in SUBSET S
    BY DEF Earlier
  <2> QED BY <2>1, FS_Subset, FS_CardinalityType
<1>2. ASSUME NEW T \in SUBSET S, NEW a \in S, Earlier(S, a) \subseteq T, NEW b \in T, ~Before(b, a)
      PROVE  Cardinality(Earlier(S, a)) < Cardinality(T)
  <2>1. Earlier(S, a) \in SUBSET T /\ Earlier(S, a) # T
    BY <1>2 DEF Earlier
  <2>2. IsFiniteSet(T) /\ Cardinality(T) \in Nat
    BY FS_Subset, FS_CardinalityType
  <2>3. Cardinality(Earlier(S, a)) <= Cardinality(T) /\ (Cardinality(Earlier(S, a)) = Cardinality(T) => Earlier(S, a) = T)
    BY <2>1, <2>2, FS_Subset
  <2> QED BY <1>1, <2>1, <2>2, <2>3
<1>3. ASSUME NEW a \in S PROVE Cardinality(Earlier(S, a)) \in 0 .. Cardinality(S) - 1
  <2>1. S \in SUBSET S /\ Earlier(S, a) \subseteq S /\ ~Before(a, a)
    BY Ordered DEF Earlier
  <2>2. Cardinality(Earlier(S, a)) < Cardinality(S)
    BY <1>2, <2>1
  <2>3. Cardinality(S) \in Nat
    BY FS_CardinalityType
  <2> QED BY <1>1, <2>2, <2>3
<1>4. ASSUME NEW a \in S, NEW b \in S, Before(a, b)
      PROVE  Cardinality(Earlier(S, a)) < Cardinality(Earlier(S, b))
  <2>1. Earlier(S, b) \in SUBSET S /\ Earlier(S, a) \subseteq Earlier(S, b) /\ a \in Earlier(S, b) /\ ~Before(a, a)
    BY <1>4, Ordered DEF Earlier
  <2> QED BY <1>2, <2>1
<1> QED BY <1>3, <1>4

\* Each place is that of one row.
LEMMA OnePerRank ==
  ASSUME NEW S \in SUBSET (Int \X Int), IsFiniteSet(S)
  PROVE  /\ \A k \in 0 .. Cardinality(S) - 1 : \E a \in S : Cardinality(Earlier(S, a)) = k
         /\ \A a, b \in S : Cardinality(Earlier(S, a)) = Cardinality(Earlier(S, b)) => a = b
<1> DEFINE n == Cardinality(S)
           T == 0 .. n - 1
           f == [a \in S |-> Cardinality(Earlier(S, a))]
<1>1. n \in Nat
  BY FS_CardinalityType
<1>2. IsFiniteSet(T) /\ Cardinality(T) = n
  <2> DEFINE m == n - 1
  <2>1. m \in Int /\ (IF 0 > m THEN 0 ELSE m - 0 + 1) = n
    BY <1>1
  <2> HIDE DEF m
  <2>2. IsFiniteSet(0 .. m) /\ Cardinality(0 .. m) = n
    BY <2>1, FS_Interval
  <2> QED BY <2>2 DEF m
<1>3. \A a, b \in S : Cardinality(Earlier(S, a)) = Cardinality(Earlier(S, b)) => a = b
  <2> SUFFICES ASSUME NEW a \in S, NEW b \in S, a # b
               PROVE  Cardinality(Earlier(S, a)) # Cardinality(Earlier(S, b))
    OBVIOUS
  <2>1. Before(a, b) \/ Before(b, a)
    BY Ordered
  <2>2. \A c \in S : Cardinality(Earlier(S, c)) \in Int
    BY Ranks, <1>1
  <2> QED BY <2>1, <2>2, Ranks
<1>4. f \in [S -> T] /\ \A a \in S : f[a] = Cardinality(Earlier(S, a))
  BY Ranks
<1> HIDE DEF f
<1>5. f \in Injection(S, T)
  BY <1>3, <1>4 DEF Injection, IsInjective
<1>6. f \in Surjection(S, T)
  BY <1>2, <1>5, FS_Injection
<1> QED BY <1>3, <1>4, <1>6 DEF Surjection

\* InOrder is the rows of a set, each once and in order ...
LEMMA InOrderRises ==
  ASSUME NEW S \in SUBSET (Int \X Int), IsFiniteSet(S)
  PROVE  /\ InOrder(S) \in Seq(S) /\ Len(InOrder(S)) = Cardinality(S)
         /\ Entries(InOrder(S)) = S /\ Rising(InOrder(S))
         /\ \A k \in 1 .. Cardinality(S) : Cardinality(Earlier(S, InOrder(S)[k])) = k - 1
<1> DEFINE n == Cardinality(S)
           q == InOrder(S)
<1>1. n \in Nat
  BY FS_CardinalityType
<1>2. q = [k \in 1 .. n |-> CHOOSE row \in S : Cardinality(Earlier(S, row)) = k - 1]
  BY DEF InOrder, Earlier
<1>3. ASSUME NEW k \in 1 .. n PROVE q[k] \in S /\ Cardinality(Earlier(S, q[k])) = k - 1
  <2>1. k - 1 \in 0 .. n - 1
    BY <1>1
  <2>2. \E a \in S : Cardinality(Earlier(S, a)) = k - 1
    BY <2>1, OnePerRank
  <2> QED BY <1>2, <2>2
<1>4. DOMAIN q = 1 .. n
  BY <1>2
<1> HIDE DEF q
<1>5. q \in [1 .. n -> S]
  BY <1>2, <1>3
<1>6. q \in Seq(S) /\ Len(q) = n
  BY <1>1, <1>5
<1>7. Entries(q) = S
  <2>1. ASSUME NEW a \in S PROVE \E k \in 1 .. n : q[k] = a
    <3>1. PICK k : k = Cardinality(Earlier(S, a)) + 1
      OBVIOUS
    <3>2. k \in 1 .. n /\ Cardinality(Earlier(S, a)) = k - 1
      BY <1>1, <3>1, Ranks
    <3>3. q[k] = a
      BY <1>3, <3>2, OnePerRank
    <3> QED BY <3>2, <3>3
  <2> QED BY <1>3, <1>6, <2>1 DEF Entries
<1>8. Rising(q)
  <2> SUFFICES ASSUME NEW j \in 1 .. n, NEW k \in 1 .. n, j < k PROVE Before(q[j], q[k])
    BY <1>6 DEF Rising
  <2>1. q[j] \in S /\ q[k] \in S /\ Cardinality(Earlier(S, q[j])) = j - 1 /\ Cardinality(Earlier(S, q[k])) = k - 1
    BY <1>3
  <2>2. q[j] # q[k]
    BY <1>1, <2>1
  <2>3. ~Before(q[k], q[j])
    <3> SUFFICES ASSUME Before(q[k], q[j]) PROVE FALSE
      OBVIOUS
    <3>1. k - 1 < j - 1
      BY <2>1, Ranks
    <3> QED BY <1>1, <3>1
  <2> QED BY <2>1, <2>2, <2>3, Ordered
<1> QED BY <1>3, <1>6, <1>7, <1>8 DEF q

\* ... and the only such sequence.
LEMMA OneOrder ==
  ASSUME NEW S \in SUBSET (Int \X Int), IsFiniteSet(S),
         NEW p \in Seq(S), Rising(p), Entries(p) = S
  PROVE  p = InOrder(S)
<1> DEFINE I == 1 .. Len(p)
<1>1. Len(p) \in Nat /\ p \in [I -> S] /\ DOMAIN p = I
  OBVIOUS
<1>2. \A j, k \in I : (Before(p[j], p[k]) <=> j < k)
  <2> SUFFICES ASSUME NEW j \in I, NEW k \in I PROVE Before(p[j], p[k]) <=> j < k
    OBVIOUS
  <2>1. j < k \/ j = k \/ k < j
    BY <1>1
  <2>2. p[j] \in S /\ p[k] \in S
    BY <1>1
  <2>3. ~(j < k /\ k < j) /\ ~(j < j)
    BY <1>1
  <2> QED BY <2>1, <2>2, <2>3, Ordered DEF Rising
<1>3. ASSUME NEW k \in I PROVE Cardinality(Earlier(S, p[k])) = k - 1
  <2> DEFINE J == 1 .. k - 1
             f == [j \in J |-> p[j]]
  <2>a. k \in Int /\ k >= 1 /\ k <= Len(p)
    BY <1>1
  <2>b. \A j : j \in J <=> (j \in I /\ j < k)
    BY <1>1, <2>a, SMTT(20)
  <2>1. k \in Int /\ k >= 1 /\ \A j : j \in J <=> (j \in I /\ j < k)
    BY <2>a, <2>b
  <2>2. IsFiniteSet(J) /\ Cardinality(J) = k - 1
    <3>1. PICK m \in Nat : m = k - 1
      BY <2>1
    <3>2. IsFiniteSet(1 .. m) /\ Cardinality(1 .. m) = m
      BY FirstNumbers
    <3> QED BY <3>1, <3>2
  <2> HIDE DEF J
  <2>3. f \in [J -> Earlier(S, p[k])] /\ \A j \in J : f[j] = p[j]
    BY <1>1, <1>2, <2>1 DEF Earlier
  <2> HIDE DEF f
  <2>4. \A i, j \in J : f[i] = f[j] => i = j
    <3> SUFFICES ASSUME NEW i \in J, NEW j \in J, p[i] = p[j] PROVE i = j
      BY <2>3
    <3>1. i \in I /\ j \in I /\ i \in Int /\ j \in Int
      BY <1>1, <2>1
    <3>2. ~(i < j) /\ ~(j < i)
      <4>1. p[i] \in S /\ ~Before(p[i], p[i])
        BY <1>1, <3>1, Ordered
      <4> QED BY <1>2, <3>1, <4>1
    <3> QED BY <3>1, <3>2
  <2>5. \A a \in Earlier(S, p[k]) : \E j \in J : f[j] = a
    <3> SUFFICES ASSUME NEW a \in S, Before(a, p[k]) PROVE \E j \in J : f[j] = a
      BY DEF Earlier
    <3>1. PICK j \in I : p[j] = a
      BY DEF Entries
    <3> QED BY <1>2, <2>1, <2>3, <3>1
  <2>6. f \in Bijection(J, Earlier(S, p[k]))
    BY <2>3, <2>4, <2>5 DEF Bijection, Injection, Surjection, IsInjective
  <2> QED BY <2>2, <2>6, FS_Bijection DEF ExistsBijection
<1>4. Len(p) = Cardinality(S)
  <2> DEFINE f == [j \in I |-> p[j]]
  <2>1. f \in [I -> S] /\ \A j \in I : f[j] = p[j]
    BY <1>1
  <2> HIDE DEF f
  <2>2. \A i, j \in I : f[i] = f[j] => i = j
    <3> SUFFICES ASSUME NEW i \in I, NEW j \in I, p[i] = p[j] PROVE i = j
      BY <2>1
    <3>1. i - 1 = j - 1 /\ i \in Int /\ j \in Int
      BY <1>1, <1>3
    <3> QED BY <3>1
  <2>3. f \in Bijection(I, S)
    BY <2>1, <2>2 DEF Bijection, Injection, Surjection, IsInjective, Entries
  <2>4. IsFiniteSet(I) /\ Cardinality(I) = Len(p)
    BY <1>1, FirstNumbers
  <2> QED BY <2>3, <2>4, FS_Bijection DEF ExistsBijection
<1>5. /\ InOrder(S) \in Seq(S) /\ Len(InOrder(S)) = Len(p)
      /\ \A k \in 1 .. Len(p) : Cardinality(Earlier(S, InOrder(S)[k])) = k - 1
  BY <1>4, InOrderRises
<1> DEFINE q == InOrder(S)
<1>6. /\ q \in Seq(S) /\ Len(q) = Len(p)
      /\ \A k \in I : Cardinality(Earlier(S, q[k])) = k - 1
  BY <1>5
<1> HIDE DEF q
<1>7. ASSUME NEW k \in I PROVE p[k] = q[k]
  <2>1. q[k] \in S /\ p[k] \in S
    BY <1>1, <1>6
  <2>2. Cardinality(Earlier(S, p[k])) = Cardinality(Earlier(S, q[k]))
    BY <1>3, <1>6
  <2> QED BY <2>1, <2>2, OnePerRank
<1>8. q \in [I -> S]
  BY <1>6
<1>9. p = q
  <2> HIDE DEF I
  <2> QED BY <1>1, <1>7, <1>8
<1> QED BY <1>9 DEF q

-----------------------------------------------------------------------------
(* The groups *)

\* The sorted rows are those of all particles and dumps to be recorded, whoever wrote
\* them; TrackIn is those of one particle.
AllRows(where) ==
  {x \in Pars \X Dumps : x[2] >= MinDump /\ x[1] < MaxIpar /\ where[x[2]][x[1]] # Nowhere}
TrackIn(where, par) ==
  {<<par, t>> : t \in {t \in MinDump .. NDumps : par < MaxIpar /\ where[t][par] # Nowhere}}

\* No particle has rows on both sides of a place.
Between(q, i) == \A j, k \in 1 .. Len(q) : j < i /\ i <= k => q[j][1] # q[k][1]

\* The groups written are the tracks of different particles, those whose rows are behind.
GroupsOf(where, gs, i, q) ==
  /\ gs \in Seq(Seq(Pars \X Dumps)) /\ i \in 1 .. Len(q) + 1 /\ Between(q, i)
  /\ \A k \in 1 .. Len(gs) :
       /\ gs[k] = InOrder(TrackIn(where, gs[k][1][1]))
       /\ \E j \in 1 .. Len(q) : j < i /\ gs[k][1][1] = q[j][1]
  /\ \A j, k \in 1 .. Len(gs) : gs[j][1][1] = gs[k][1][1] => j = k
  /\ \A j \in 1 .. Len(q) : j < i => \E k \in 1 .. Len(gs) : gs[k][1][1] = q[j][1]
GroupsRight ==
  /\ run.cores = 0 => rawdata = << >>
  /\ main \in {"q1", "q2"} => groups = << >> /\ istart = 1
  /\ main \in {"group", "done"} =>
       rawdata # << >> /\ GroupsOf(run.where, groups, istart, InOrder(AllRows(run.where)))
  /\ main = "done" => Len(groups) = nstalk_tot

\* The rows of one particle are together, and Trajectory takes them all.
IsTrack(p, T, par) == p = InOrder(T) /\ p[1][1] = par
AllOf(q, i, n, par) == \A j \in 1 .. Len(q) : i <= j /\ j < n => q[j][1] = par

LEMMA OneParticle ==
  ASSUME NEW S \in SUBSET (Int \X Int), IsFiniteSet(S), NEW q, q = InOrder(S),
         NEW i \in 1 .. Len(q), Between(q, i), NEW T, T = {row \in S : row[1] = q[i][1]}
  PROVE  /\ IsTrack(Trajectory(q, i), T, q[i][1])
         /\ i + Len(Trajectory(q, i)) \in i + 1 .. Len(q) + 1
         /\ Between(q, i + Len(Trajectory(q, i)))
         /\ AllOf(q, i, i + Len(Trajectory(q, i)), q[i][1])
<1> DEFINE par == q[i][1]
           J == {j \in i .. Len(q) : q[j][1] = par}
           n == Cardinality(J)
           p == Trajectory(q, i)
<1>1. /\ q \in Seq(S) /\ Entries(q) = S /\ Rising(q)
      /\ Len(q) \in Nat /\ i \in Int /\ 1 <= i /\ i <= Len(q)
      /\ \A j \in 1 .. Len(q) : q[j] \in S /\ q[j][1] \in Int
  <2>1. q \in Seq(S) /\ Entries(q) = S /\ Rising(q)
    BY InOrderRises
  <2> QED BY <2>1
<1>2. \A j, k \in 1 .. Len(q) : j < k => q[j][1] <= q[k][1]
  <2> SUFFICES ASSUME NEW j \in 1 .. Len(q), NEW k \in 1 .. Len(q), j < k PROVE q[j][1] <= q[k][1]
    OBVIOUS
  <2>1. Before(q[j], q[k])
    BY <1>1 DEF Rising
  <2>2. q[j][1] \in Int /\ q[k][1] \in Int
    BY <1>1
  <2> QED BY <2>1, <2>2 DEF Before
<1>3. IsFiniteSet(J) /\ n \in Nat
  <2>1. IsFiniteSet(i .. Len(q)) /\ J \in SUBSET (i .. Len(q))
    BY <1>1, FS_Interval
  <2> QED BY <2>1, FS_Subset, FS_CardinalityType
<1>4. \A j \in J : i .. j \subseteq J
  <2> SUFFICES ASSUME NEW j \in J, NEW k \in i .. j PROVE k \in J
    OBVIOUS
  <2>1. j \in 1 .. Len(q) /\ k \in 1 .. Len(q) /\ q[j][1] = par /\ k \in i .. Len(q)
    BY <1>1
  <2>2. par <= q[k][1] /\ q[k][1] <= par
    <3>1. i = k \/ i < k
      BY <1>1
    <3>2. k = j \/ k < j
      BY <1>1
    <3>3. i \in 1 .. Len(q) /\ q[k][1] \in Int /\ q[j][1] = par
      BY <1>1, <2>1
    <3> HIDE DEF J
    <3>4. par <= q[k][1]
      <4>1. CASE i = k
        BY <3>3, <4>1
      <4>2. CASE i < k
        BY <1>2, <2>1, <3>3, <4>2
      <4> QED BY <3>1, <4>1, <4>2
    <3>5. q[k][1] <= par
      <4>1. q[k][1] <= q[j][1]
        <5>1. CASE k = j
          BY <3>3, <5>1
        <5>2. CASE k < j
          BY <1>2, <2>1, <5>2
        <5> QED BY <3>2, <5>1, <5>2
      <4> QED BY <3>3, <4>1
    <3> QED BY <3>4, <3>5
  <2>3. q[k][1] = par
    BY <1>1, <2>1, <2>2, SMTT(20)
  <2> QED BY <2>1, <2>3
<1>5. J \subseteq i .. i + n - 1
  <2> SUFFICES ASSUME NEW j \in J PROVE j \in i .. i + n - 1
    OBVIOUS
  <2>1. j \in Int /\ i <= j
    OBVIOUS
  <2>2. IsFiniteSet(i .. j) /\ Cardinality(i .. j) = j - i + 1
    BY <1>1, <2>1, FS_Interval, SMTT(20)
  <2>3. i .. j \in SUBSET J
    BY <1>4
  <2>4. Cardinality(i .. j) <= n
    BY <1>3, <2>3, FS_Subset
  <2> HIDE DEF J, n
  <2> QED BY <1>1, <1>3, <2>1, <2>2, <2>4
<1>6. i \in J /\ n >= 1
  <2>1. i \in J
    BY <1>1
  <2>2. n # 0
    BY <1>3, <2>1, FS_EmptySet
  <2> HIDE DEF n, J
  <2> QED BY <1>3, <2>1, <2>2
<1>7. J = i .. i + n - 1
  <2> DEFINE m == i + n - 1
  <2>1. m \in Int /\ m - i + 1 = n /\ ~(i > m)
    <3> HIDE DEF n, J
    <3> QED BY <1>1, <1>3, <1>6
  <2> HIDE DEF n, J, m
  <2>2. IsFiniteSet(i .. m) /\ Cardinality(i .. m) = m - i + 1
    BY <1>1, <2>1, FS_Interval
  <2>3. J \in SUBSET (i .. m)
    BY <1>5 DEF m
  <2>4. J = i .. m
    BY <2>1, <2>2, <2>3, FS_Subset DEF n
  <2> QED BY <2>4 DEF m
<1>8. i + n - 1 <= Len(q)
  <2>1. i + n - 1 \in i .. i + n - 1
    <3> HIDE DEF n, J
    <3> QED BY <1>1, <1>3, <1>6
  <2>2. i + n - 1 \in J
    BY <1>7, <2>1
  <2> HIDE DEF n
  <2> QED BY <2>2
<1>9. p = SubSeq(q, i, i + n - 1)
  BY DEF Trajectory
<1> HIDE DEF n
<1>10. Len(p) = n /\ \A k \in 1 .. n : p[k] = q[i + k - 1]
  <2> HIDE DEF p, J
  <2>1. DOMAIN p = 1 .. n /\ \A k \in 1 .. n : p[k] = q[i + k - 1]
    BY <1>1, <1>3, <1>6, <1>8, <1>9
  <2>2. Len(p) = n
    BY <1>1, <1>3, <1>6, <1>8, <1>9
  <2> QED BY <2>1, <2>2
<1>11. \A k \in 1 .. n : i + k - 1 \in J
  <2> HIDE DEF J
  <2> QED BY <1>1, <1>3, <1>7
<1> HIDE DEF p
<1>12. T \in SUBSET S /\ T \in SUBSET (Int \X Int) /\ IsFiniteSet(T)
  BY FS_Subset
<1>13. \A k \in 1 .. n : p[k] \in T /\ p[k][1] = par
  <2> SUFFICES ASSUME NEW k \in 1 .. n PROVE p[k] \in T /\ p[k][1] = par
    OBVIOUS
  <2>1. i + k - 1 \in J /\ p[k] = q[i + k - 1]
    BY <1>10, <1>11
  <2>2. i + k - 1 \in 1 .. Len(q) /\ q[i + k - 1][1] = par
    BY <1>1, <2>1
  <2> QED BY <1>1, <2>1, <2>2
<1>14. p \in Seq(T)
  <2>1. p \in [1 .. n -> T]
    <3>1. p \in Seq(S)
      <4> HIDE DEF J
      <4> QED BY <1>1, <1>3, <1>6, <1>8, <1>9
    <3> HIDE DEF J, par
    <3> QED BY <1>10, <1>13, <3>1
  <2> HIDE DEF J, par
  <2> QED BY <1>3, <2>1
<1>15. Entries(p) = T
  <2>1. ASSUME NEW row \in T PROVE \E k \in 1 .. n : p[k] = row
    <3>1. PICK j \in 1 .. Len(q) : q[j] = row
      BY <1>1, <1>12 DEF Entries
    <3>2. q[j][1] = par
      BY <3>1
    <3>3. ~(j < i)
      BY <1>1, <3>2 DEF Between
    <3>4. j \in J
      BY <1>1, <3>2, <3>3
    <3>5. PICK k : k = j - i + 1
      OBVIOUS
    <3>6. k \in 1 .. n /\ i + k - 1 = j
      <4> HIDE DEF J
      <4> QED BY <1>1, <1>3, <1>7, <3>4, <3>5
    <3> QED BY <1>10, <3>1, <3>6
  <2> HIDE DEF J, par
  <2> QED BY <1>10, <1>13, <2>1 DEF Entries
<1>16. Rising(p)
  <2> SUFFICES ASSUME NEW j \in 1 .. n, NEW k \in 1 .. n, j < k PROVE Before(p[j], p[k])
    BY <1>10 DEF Rising
  <2>1. p[j] = q[i + j - 1] /\ p[k] = q[i + k - 1]
    BY <1>10
  <2>2. /\ i + j - 1 \in 1 .. Len(q) /\ i + k - 1 \in 1 .. Len(q) /\ i + j - 1 < i + k - 1
    <3> HIDE DEF J
    <3> QED BY <1>1, <1>3, <1>8
  <2> QED BY <1>1, <2>1, <2>2 DEF Rising
<1>17. p = InOrder(T)
  BY <1>12, <1>14, <1>15, <1>16, OneOrder
<1>18. p[1][1] = par
  BY <1>3, <1>6, <1>13
<1>19. Between(q, i + n)
  <2> SUFFICES ASSUME NEW j \in 1 .. Len(q), NEW k \in 1 .. Len(q), j < i + n, i + n <= k
               PROVE  q[j][1] # q[k][1]
    BY DEF Between
  <2>1. k \in i .. Len(q) /\ i <= k /\ k \notin J
    <3>1. k \in i .. Len(q) /\ k \notin i .. i + n - 1 /\ i <= k
      <4>1. i \in Int /\ n \in Int /\ n >= 1 /\ Len(q) \in Int /\ k \in Int /\ k <= Len(q)
        BY <1>1, <1>3, <1>6
      <4> HIDE DEF J
      <4> QED BY <4>1
    <3> QED BY <1>7, <3>1
  <2>2. CASE j < i
    BY <2>1, <2>2 DEF Between
  <2>3. CASE ~(j < i)
    <3>1. j \in J
      <4>1. j \in i .. i + n - 1
        <5> HIDE DEF J
        <5> QED BY <1>1, <1>3, <2>3
      <4> QED BY <1>7, <4>1
    <3>2. q[j][1] = par
      BY <3>1
    <3>3. q[k][1] # par
      BY <2>1
    <3> QED BY <3>2, <3>3
  <2> QED BY <2>2, <2>3
<1>21. \A j \in 1 .. Len(q) : i <= j /\ j < i + n => q[j][1] = par
  <2> SUFFICES ASSUME NEW j \in 1 .. Len(q), i <= j, j < i + n PROVE q[j][1] = par
    OBVIOUS
  <2>1. j \in i .. i + n - 1
    <3> HIDE DEF J, par
    <3> QED BY <1>1, <1>3
  <2>2. j \in J
    BY <1>7, <2>1
  <2> QED BY <2>2
<1>20. i + Len(p) \in i + 1 .. Len(q) + 1
  <2> HIDE DEF J
  <2> QED BY <1>1, <1>3, <1>6, <1>8, <1>10
<1> QED BY <1>10, <1>17, <1>18, <1>19, <1>20, <1>21 DEF p, IsTrack, AllOf

LEMMA RowFacts ==
  ASSUME NEW where
  PROVE  /\ AllRows(where) \in SUBSET (Int \X Int) /\ AllRows(where) \subseteq Pars \X Dumps
         /\ IsFiniteSet(AllRows(where))
         /\ \A par \in Pars : TrackIn(where, par) = {row \in AllRows(where) : row[1] = par}
<1>1. Pars \subseteq Nat /\ IsFiniteSet(Pars) /\ NDumps \in Nat /\ MinDump \in 1 .. NDumps + 1
  BY PoolAssumption
<1>2. Dumps \subseteq Nat /\ IsFiniteSet(Dumps) /\ MinDump .. NDumps = {t \in Dumps : t >= MinDump}
  BY <1>1, CountFacts DEF Dumps
<1>3. AllRows(where) \subseteq Pars \X Dumps
  BY DEF AllRows
<1>4. AllRows(where) \in SUBSET (Int \X Int)
  <2>1. ASSUME NEW x \in AllRows(where) PROVE x \in Int \X Int
    <3>1. x = <<x[1], x[2]>> /\ x[1] \in Nat /\ x[2] \in Nat
      BY <1>1, <1>2, <1>3
    <3> QED BY <3>1
  <2> QED BY <2>1
<1>5. IsFiniteSet(AllRows(where))
  <2>1. IsFiniteSet(Pars \X Dumps)
    BY <1>1, <1>2, FS_Product
  <2> QED BY <1>3, <2>1, FS_Subset
<1>6. ASSUME NEW par \in Pars PROVE TrackIn(where, par) = {row \in AllRows(where) : row[1] = par}
  <2>1. ASSUME NEW row \in TrackIn(where, par) PROVE row \in AllRows(where) /\ row[1] = par
    BY <1>2 DEF TrackIn, AllRows
  <2>2. ASSUME NEW row \in AllRows(where), row[1] = par PROVE row \in TrackIn(where, par)
    <3>1. row[2] \in {t \in MinDump .. NDumps : par < MaxIpar /\ where[t][par] # Nowhere} /\ row = <<par, row[2]>>
      BY <1>2, <2>2 DEF AllRows
    <3> QED BY <3>1 DEF TrackIn
  <2> QED BY <2>1, <2>2
<1> QED BY <1>3, <1>4, <1>5, <1>6

\* With every record in, the rows are those of all particles and dumps, whoever wrote them.
LEMMA SortedRows ==
  ASSUME TasksInv, AllRecordsIn, run.cores > 0, main # "q1"
  PROVE  Sorted = InOrder(AllRows(run.where))
<1> DEFINE R == UNION {d.pars \X {d.t} : d \in ToSet(rawdata)}
<1>1. Tags(rawdata) = Recorded
  BY DEF AllRecordsIn, Tags
<1>2. rawdata \in Seq(Records) /\ ToSet(rawdata) = {rawdata[k] : k \in 1 .. Len(rawdata)}
  BY DEF TasksInv, PoolTypes, ToSet
<1>3. run.where \in [1 .. NDumps -> [Pars -> Procs \cup {Nowhere}]] /\ Nowhere \notin Procs
  BY PoolAssumption DEF TasksInv, PoolTypes
<1>4. \A k \in 1 .. Len(rawdata) : \E x \in Recorded :
         rawdata[k].of = x[1] /\ rawdata[k].t = x[2] /\ rawdata[k].pars = On(x[1], x[2])
  <2>1. \A d \in Records : \E x \in Recorded : d.of = x[1] /\ d.t = x[2] /\ d.pars = On(x[1], x[2])
    BY DEF Records, RecordOf
  <2> QED BY <1>2, <2>1
<1>5. ASSUME NEW row \in R PROVE row \in AllRows(run.where)
  <2>1. PICK k \in 1 .. Len(rawdata) : row \in rawdata[k].pars \X {rawdata[k].t}
    BY <1>2
  <2>2. PICK x \in Recorded : rawdata[k].t = x[2] /\ rawdata[k].pars = On(x[1], x[2])
    BY <1>4
  <2>3. x[1] \in Procs /\ x[2] \in Dumps /\ x[2] >= MinDump
    BY DEF Recorded
  <2>4. row \in Pars \X Dumps /\ row[2] = x[2] /\ run.where[x[2]][row[1]] = x[1] /\ row[1] < MaxIpar
    BY <2>1, <2>2, <2>3 DEF On, InFile
  <2> QED BY <1>3, <2>3, <2>4 DEF AllRows
<1>6. ASSUME NEW row \in AllRows(run.where) PROVE row \in R
  <2>1. PICK par \in Pars, t \in Dumps : row = <<par, t>> /\ t >= MinDump /\ par < MaxIpar /\ run.where[t][par] # Nowhere
    BY DEF AllRows
  <2>2. PICK i : i = run.where[t][par]
    OBVIOUS
  <2>3. i \in Procs /\ par \in On(i, t)
    BY <1>3, <2>1, <2>2 DEF On, InFile, Dumps
  <2>4. <<i, t>> \in Recorded
    BY <2>1, <2>3 DEF Recorded, On, Dumps
  <2>5. PICK k \in 1 .. Len(rawdata) : <<rawdata[k].of, rawdata[k].t>> = <<i, t>>
    BY <1>1, <2>4 DEF Tags
  <2>6. rawdata[k].pars = On(i, t) /\ rawdata[k].t = t
    BY <1>4, <2>5
  <2>7. row \in rawdata[k].pars \X {rawdata[k].t}
    BY <2>1, <2>3, <2>6
  <2> QED BY <1>2, <2>7
<1>7. R = AllRows(run.where)
  BY <1>5, <1>6
<1> QED BY <1>7 DEF Sorted

LEMMA GroupWritten ==
  ASSUME NEW where, NEW gs, NEW i, NEW q, q = InOrder(AllRows(where)), GroupsOf(where, gs, i, q),
         i < Len(q)
  PROVE  GroupsOf(where, Append(gs, Trajectory(q, i)), i + Len(Trajectory(q, i)), q)
<1> DEFINE p == Trajectory(q, i)
           par == q[i][1]
           hs == Append(gs, p)
           S == Seq(Pars \X Dumps)
<1>1. /\ q \in Seq(AllRows(where)) /\ Len(q) \in Nat
      /\ i \in 1 .. Len(q) /\ Between(q, i)
      /\ gs \in Seq(S) /\ Len(gs) \in Nat
      /\ \A k \in 1 .. Len(gs) : \E j \in 1 .. Len(q) : j < i /\ gs[k][1][1] = q[j][1]
      /\ \A k \in 1 .. Len(gs) : gs[k] = InOrder(TrackIn(where, gs[k][1][1]))
      /\ \A j, k \in 1 .. Len(gs) : gs[j][1][1] = gs[k][1][1] => j = k
      /\ \A j \in 1 .. Len(q) : j < i => \E k \in 1 .. Len(gs) : gs[k][1][1] = q[j][1]
  <2>1. q \in Seq(AllRows(where)) /\ Len(q) \in Nat
    BY RowFacts, InOrderRises
  <2>2. i \in 1 .. Len(q)
    BY <2>1 DEF GroupsOf
  <2> QED BY <2>1, <2>2 DEF GroupsOf
<1>2. q[i] \in Pars \X Dumps /\ par \in Pars
  BY <1>1, RowFacts
<1>3. TrackIn(where, par) = {row \in AllRows(where) : row[1] = par}
  BY <1>2, RowFacts
<1> DEFINE T == TrackIn(where, par)
           A == AllRows(where)
<1>5. /\ p = InOrder(T) /\ p[1][1] = par
      /\ i + Len(p) \in i + 1 .. Len(q) + 1
      /\ Between(q, i + Len(p))
      /\ \A j \in 1 .. Len(q) : i <= j /\ j < i + Len(p) => q[j][1] = par
  <2>1. A \in SUBSET (Int \X Int) /\ IsFiniteSet(A) /\ q = InOrder(A) /\ T = {row \in A : row[1] = q[i][1]}
    BY <1>3, RowFacts
  <2>2. i \in 1 .. Len(q) /\ Between(q, i)
    BY <1>1
  <2> HIDE DEF A, T
  <2>3. IsTrack(Trajectory(q, i), T, q[i][1])
    BY <2>1, <2>2, OneParticle
  <2>4. i + Len(Trajectory(q, i)) \in i + 1 .. Len(q) + 1
    BY <2>1, <2>2, OneParticle
  <2>5. Between(q, i + Len(Trajectory(q, i)))
    BY <2>1, <2>2, OneParticle
  <2>6. AllOf(q, i, i + Len(Trajectory(q, i)), q[i][1])
    BY <2>1, <2>2, OneParticle
  <2> QED BY <2>3, <2>4, <2>5, <2>6 DEF IsTrack, AllOf
<1>4. p = InOrder(T) /\ p[1][1] = par /\ i + Len(p) \in i + 1 .. Len(q) + 1
  BY <1>5
<1>6. p \in S
  <2>1. TrackIn(where, par) \in SUBSET (Int \X Int) /\ IsFiniteSet(TrackIn(where, par))
    BY <1>3, RowFacts, FS_Subset
  <2>2. p \in Seq(TrackIn(where, par))
    BY <1>4, <2>1, InOrderRises
  <2>3. TrackIn(where, par) \subseteq Pars \X Dumps
    BY <1>3, RowFacts
  <2> HIDE DEF p, par
  <2> QED BY <2>2, <2>3
<1> HIDE DEF p, S, par
<1>7. /\ hs \in Seq(S) /\ Len(hs) = Len(gs) + 1 /\ hs[Len(gs) + 1] = p
      /\ \A k \in 1 .. Len(gs) : hs[k] = gs[k]
  BY <1>1, <1>6
<1> HIDE DEF hs
<1>8. i \in Int /\ i < i + Len(p) /\ i + Len(p) \in 1 .. Len(q) + 1
  BY <1>1, <1>4
<1>9. ASSUME NEW k \in 1 .. Len(hs)
      PROVE  /\ hs[k] = InOrder(TrackIn(where, hs[k][1][1]))
             /\ \E j \in 1 .. Len(q) : j < i + Len(p) /\ hs[k][1][1] = q[j][1]
  <2>1. CASE k \in 1 .. Len(gs)
    <3>1. hs[k] = gs[k] /\ hs[k] = InOrder(TrackIn(where, hs[k][1][1]))
      BY <1>1, <1>7, <2>1
    <3>2. PICK j \in 1 .. Len(q) : j < i /\ gs[k][1][1] = q[j][1]
      BY <1>1, <2>1
    <3>3. j < i + Len(p)
      BY <1>8, <3>2
    <3> QED BY <3>1, <3>2, <3>3
  <2>2. CASE k = Len(gs) + 1
    <3>1. hs[k] = p
      BY <1>7, <2>2
    <3> QED BY <1>1, <1>4, <1>8, <3>1 DEF par
  <2> QED BY <1>1, <1>7, <2>1, <2>2
<1>10. \A k \in 1 .. Len(gs) : hs[k][1][1] # p[1][1]
  <2> SUFFICES ASSUME NEW k \in 1 .. Len(gs) PROVE hs[k][1][1] # p[1][1]
    OBVIOUS
  <2>1. PICK j \in 1 .. Len(q) : j < i /\ gs[k][1][1] = q[j][1]
    BY <1>1
  <2>2. q[j][1] # par
    BY <1>1, <1>8, <2>1 DEF Between, par
  <2> QED BY <1>4, <1>7, <2>1, <2>2
<1>11. \A j, k \in 1 .. Len(hs) : hs[j][1][1] = hs[k][1][1] => j = k
  <2>1. \A j \in 1 .. Len(hs) : j \in 1 .. Len(gs) \/ j = Len(gs) + 1
    BY <1>1, <1>7
  <2> QED BY <1>1, <1>7, <1>10, <2>1
<1>13. ASSUME NEW j \in 1 .. Len(q), j < i + Len(p)
       PROVE  \E k \in 1 .. Len(hs) : hs[k][1][1] = q[j][1]
  <2>1. CASE j < i
    <3>1. PICK k \in 1 .. Len(gs) : gs[k][1][1] = q[j][1]
      BY <1>1, <2>1
    <3>2. k \in 1 .. Len(hs) /\ hs[k] = gs[k]
      BY <1>1, <1>7
    <3> QED BY <3>1, <3>2
  <2>2. CASE ~(j < i)
    <3>1. i <= j
      BY <1>8, <2>2
    <3>2. q[j][1] = par
      BY <1>5, <1>13, <3>1
    <3>3. Len(gs) + 1 \in 1 .. Len(hs)
      BY <1>1, <1>7
    <3> QED BY <1>4, <1>7, <3>2, <3>3
  <2> QED BY <2>1, <2>2
<1>12. GroupsOf(where, hs, i + Len(p), q)
  BY <1>5, <1>7, <1>8, <1>9, <1>11, <1>13 DEF GroupsOf, S
<1> QED BY <1>12 DEF hs, p

LEMMA NextGroups ==
  ASSUME TasksInv, AllRecordsIn, GroupsRight, [Next]_vars
  PROVE  GroupsRight'
<1>1. run.cores \in Nat /\ ndone \in Nat
  BY RunTypes DEF TasksInv, PoolTypes
<1>2. CASE WriteGroup
  <2>1. /\ main = "group" /\ UNCHANGED <<run, rawdata, main>>
        /\ istart < Len(Sorted) /\ groups' = Append(groups, Trajectory(Sorted, istart))
        /\ istart' = istart + Len(Trajectory(Sorted, istart))
    BY <1>2 DEF WriteGroup, totals
  <2>2. /\ rawdata # << >> /\ run.cores > 0
        /\ GroupsOf(run.where, groups, istart, InOrder(AllRows(run.where)))
    BY <1>1, <2>1 DEF GroupsRight
  <2>3. PICK where, q : where = run.where /\ q = InOrder(AllRows(where))
    OBVIOUS
  <2>4. Sorted = q
    BY <2>1, <2>2, <2>3, SortedRows
  <2>5. GroupsOf(where, groups', istart', q)
    <3>1. GroupsOf(where, groups, istart, q) /\ istart < Len(q)
      BY <2>1, <2>2, <2>3, <2>4
    <3>2. GroupsOf(where, Append(groups, Trajectory(q, istart)), istart + Len(Trajectory(q, istart)), q)
      BY <2>3, <3>1, GroupWritten
    <3> QED BY <2>1, <2>4, <3>2
  <2> QED BY <2>1, <2>2, <2>3, <2>5 DEF GroupsRight
<1>3. CASE JoinTasks
  <2>1. /\ main = "q2" /\ main' = IF rawdata = << >> THEN "failed" ELSE "group"
        /\ UNCHANGED <<run, rawdata, groups, istart>>
    BY <1>3 DEF JoinTasks, totals, written
  <2>2. groups' = << >> /\ istart' = 1
    BY <2>1 DEF GroupsRight
  <2>3. PICK where, q : where = run.where /\ q = InOrder(AllRows(where))
    OBVIOUS
  <2>4. GroupsOf(where, << >>, 1, q)
    <3>1. Len(q) \in Nat
      <4>1. q \in Seq(AllRows(where))
        BY <2>3, RowFacts, InOrderRises
      <4> QED BY <4>1
    <3>2. Between(q, 1) /\ 1 \in 1 .. Len(q) + 1
      BY <3>1 DEF Between
    <3>3. << >> \in Seq(Seq(Pars \X Dumps)) /\ Len(<< >>) = 0
      OBVIOUS
    <3> QED BY <3>2, <3>3 DEF GroupsOf
  <2> QED BY <2>1, <2>2, <2>3, <2>4 DEF GroupsRight
<1>4. ASSUME UNCHANGED <<run, groups, istart>>,
             rawdata' = rawdata \/ (run.cores > 0 /\ main = "q1"),
             main' \in {"q1", "q2"} => main \in {"q1", "q2"},
             main' \in {"group", "done"} => main \in {"group", "done"} /\ UNCHANGED rawdata,
             main' = "done" => Len(groups) = nstalk_tot'
      PROVE  GroupsRight'
  BY <1>1, <1>4 DEF GroupsRight
<1>5. CASE UNCHANGED vars
  BY <1>4, <1>5 DEF vars, totals, written, GroupsRight
<1>6. ASSUME NEW r \in Readers, ReaderStep(r) PROVE GroupsRight'
  <2>1. UNCHANGED <<run, main, totals, written>>
    BY <1>6 DEF ReaderStep, TakeFile, TakePill, ReadDump, EndFile, Exit
  <2> QED BY <1>4, <2>1 DEF totals, written, GroupsRight
<1>7. CASE GetResult
  <2>1. /\ main = "q1" /\ main' = main /\ ndone < run.cores /\ UNCHANGED <<run, groups, istart>>
    BY <1>7 DEF GetResult, written
  <2>2. run.cores > 0
    BY <1>1, <2>1
  <2> QED BY <1>4, <2>1, <2>2
<1>8. CASE NextQueue \/ GetCounts
  <2>1. /\ main \in {"q1", "q2"} /\ main' = "q2" /\ UNCHANGED <<run, rawdata, groups, istart>>
    BY <1>8 DEF NextQueue, GetCounts, written
  <2> QED BY <1>4, <2>1
<1>9. CASE NoRow
  <2>1. main' = "failed" /\ UNCHANGED <<run, rawdata, groups, istart>>
    BY <1>9 DEF NoRow, totals, written
  <2> QED BY <1>4, <2>1
<1>10. CASE Close
  <2>1. /\ main = "group" /\ main' = "done" /\ Len(groups) = nstalk_tot
        /\ UNCHANGED <<run, rawdata, nstalk_tot, groups, istart>>
    BY <1>10 DEF Close, totals, written
  <2> QED BY <1>4, <2>1
<1> QED BY <1>2, <1>3, <1>5, <1>6, <1>7, <1>8, <1>9, <1>10 DEF Next, MainStep

LEMMA GroupsWhole ==
  ASSUME TasksInv, AllRecordsIn, TotalsIn, GroupsRight
  PROVE  TrajectoryWhole
<1> SUFFICES ASSUME main = "done" PROVE TrajectoryWhole
  BY DEF TrajectoryWhole
<1> DEFINE where == run.where
           A == AllRows(where)
           q == InOrder(A)
<1>1. /\ rawdata # << >> /\ run.cores > 0 /\ GroupsOf(where, groups, istart, q)
      /\ Len(groups) = nstalk_tot
  BY RunTypes DEF GroupsRight, TasksInv, PoolTypes
<1>2. \A par : Track(par) = TrackIn(where, par)
  BY DEF Track, TrackIn
<1>3. A \in SUBSET (Int \X Int) /\ IsFiniteSet(A) /\ A \subseteq Pars \X Dumps
      /\ \A par \in Pars : TrackIn(where, par) = {row \in A : row[1] = par}
  BY RowFacts
<1>4. 1 \in Dumps
  <2>1. 1 \in 1 .. Len(rawdata) /\ Tags(rawdata) = Recorded
    BY <1>1 DEF AllRecordsIn, Tags, TasksInv, PoolTypes
  <2>2. <<rawdata[1].of, rawdata[1].t>> \in Recorded
    BY <2>1 DEF Tags
  <2>3. rawdata[1].t \in Dumps /\ NDumps \in Nat
    BY <2>2, PoolAssumption DEF Recorded
  <2> QED BY <2>3 DEF Dumps
<1>5. UNION {On(i, 1) : i \in Procs} = First
  <2>1. where[1] \in [Pars -> Procs \cup {Nowhere}] /\ Nowhere \notin Procs
    BY <1>4, PoolAssumption DEF TasksInv, PoolTypes, Dumps
  <2> HIDE DEF where
  <2>2. First = {par \in Pars : par < MaxIpar /\ where[1][par] # Nowhere}
    BY DEF First, where
  <2>3. \A i : On(i, 1) = {par \in Pars : where[1][par] = i /\ par < MaxIpar}
    BY DEF On, InFile, where
  <2> QED BY <2>1, <2>2, <2>3
<1>6. Len(groups) = Cardinality(First)
  BY <1>1, <1>5 DEF TotalsIn
<1>7. q \in Seq(A) /\ Entries(q) = A /\ Rising(q)
  BY <1>3, InOrderRises
<1>8. /\ Len(q) \in Nat /\ istart \in Int
      /\ \A j \in 1 .. Len(q) : q[j] \in A /\ q[j][1] \in Int
  <2>1. Len(q) \in Nat /\ \A j \in 1 .. Len(q) : q[j] \in A
    BY <1>7
  <2>2. istart \in 1 .. Len(q) + 1
    BY <1>1 DEF GroupsOf
  <2> QED BY <1>3, <2>1, <2>2
<1> HIDE DEF q, A
<1>9. ASSUME NEW par \in Followed,
             \A k \in 1 .. Len(groups) : groups[k][1][1] # par
      PROVE  \A k \in 1 .. Len(groups) : groups[k][1][1] < par
  <2>1. PICK row \in A : row[1] = par
    BY <1>2, <1>3 DEF Followed
  <2>2. PICK j \in 1 .. Len(q) : q[j] = row
    BY <1>7 DEF Entries
  <2>3. ~(j < istart)
    BY <1>1, <1>9, <2>1, <2>2 DEF GroupsOf
  <2> SUFFICES ASSUME NEW k \in 1 .. Len(groups) PROVE groups[k][1][1] < par
    OBVIOUS
  <2>4. PICK l \in 1 .. Len(q) : l < istart /\ groups[k][1][1] = q[l][1]
    BY <1>1 DEF GroupsOf
  <2>5. l < j
    BY <1>8, <2>3, <2>4
  <2>6. q[l][1] < q[j][1] \/ q[l][1] = q[j][1]
    BY <1>7, <2>5 DEF Rising, Before
  <2> QED BY <1>9, <2>1, <2>2, <2>4, <2>6
<1>10. /\ \A k \in 1 .. Len(groups) : groups[k] = InOrder(TrackIn(where, groups[k][1][1]))
       /\ \A j, k \in 1 .. Len(groups) : groups[j][1][1] = groups[k][1][1] => j = k
  BY <1>1 DEF GroupsOf
<1> QED BY <1>2, <1>6, <1>9, <1>10 DEF TrajectoryWhole

\* Each group is the trajectory of one particle, with all its recorded rows in the order
\* of time, and no other group is of that particle, whatever the order in which the chunks
\* came; there are as many groups as particles in the first dump, and none of a higher
\* number than a particle that goes without (readstalker_parallel.py:213-247).
THEOREM TrajectoriesAreWhole == Spec => []TrajectoryWhole
<1>1. Init => GroupsRight
  BY DEF Init, GroupsRight
<1>2. TasksInv /\ AllRecordsIn /\ GroupsRight /\ [Next]_vars => GroupsRight'
  BY NextGroups
<1>3. TasksInv /\ RecordsRight => TasksInv
  OBVIOUS
<1>4. TasksInv /\ AllRecordsIn /\ TotalsIn /\ GroupsRight => TrajectoryWhole
  BY GroupsWhole
<1> QED BY <1>1, <1>2, <1>3, <1>4, RecordsCorrect, EveryRecordArrives, TotalsAreComplete, PTL DEF Spec
=============================================================================
