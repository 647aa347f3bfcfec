---------------------------- MODULE StalkerPool ----------------------------
(***************************************************************************)
(* src/utils/readstalker_parallel.py: a pool of processes reads the files  *)
(* of tracked particles, one file per MPI rank of the run, and the main    *)
(* process collates them.  Work is handed out through a task queue, with   *)
(* one poison pill per reader behind the files; the readers answer on two  *)
(* queues, the records on one and their counts on the other, and put None  *)
(* on both when they meet their pill.                                      *)
(***************************************************************************)
EXTENDS Integers, Sequences, SequencesExt, FiniteSets

CONSTANTS
  Procs,      \* the ranks of the run: a file in each of their directories
  Pars,       \* the tracked particles, numbers
  MaxIpar,    \* max_ipar_to_record: only lower numbers are recorded
  NDumps,     \* the number of dumps in each file
  MinDump,    \* the first dump not before min_time_to_record
  Chunk,      \* MAX_QUEUE_CHUNK
  Runs,       \* Runs: the [where, bad, cores] the program may meet
  Nowhere,    \* of a particle that is not there (yet, or any more)
  MaxCores    \* the largest number of readers

ASSUME PoolAssumption ==
  /\ Procs \subseteq Nat /\ IsFiniteSet(Procs) /\ Pars \subseteq Nat /\ IsFiniteSet(Pars)
  /\ NDumps \in Nat /\ MinDump \in 1 .. NDumps + 1 /\ Chunk \in Nat \ {0}
  /\ MaxIpar \in Int /\ MaxCores \in Nat /\ Nowhere \notin Procs
  /\ \A case \in Runs : /\ case.cores \in 0 .. MaxCores
                        /\ case.where \in [1 .. NDumps -> [Pars -> Procs \cup {Nowhere}]]

Dumps == 1 .. NDumps
Pill  == -1           \* no rank
None  == [of |-> "None"]

VARIABLES
  run,        \* what the files hold: where[t][par], the rank that wrote it; the
              \* files with a bad padding; the number of readers
  tasksq, unfinished,       \* the task queue and the count its join() waits for
  reader,     \* each reader: where it is, its file, dump and procdata
  resultsq, resultsq2,
  main,       \* "q1", "q2", "group", "done" or "failed"
  ndone, rawdata, nstalk_tot, ndump,
  groups, istart            \* the groups written, and the loop over the sorted rows

queues   == <<tasksq, unfinished, resultsq, resultsq2>>
totals   == <<ndone, rawdata, nstalk_tot, ndump>>
written  == <<groups, istart>>
vars == <<run, queues, reader, main, totals, written>>

Readers == 1 .. run.cores
Idle == [at |-> "idle", file |-> 0, pos |-> 0, procdata |-> << >>, recorded |-> 0]

\* Dump t of file i: the particles that were on this rank, and those of them to be recorded.
InFile(i, t) == {par \in Pars : run.where[t][par] = i}
On(i, t) == {par \in InFile(i, t) : par < MaxIpar}

Init ==
  /\ run \in Runs
  /\ tasksq = SetToSeq(Procs) \o [r \in 1 .. run.cores |-> Pill]
  /\ unfinished = Cardinality(Procs) + run.cores
  /\ reader = [r \in 1 .. run.cores |-> Idle]
  /\ resultsq = << >> /\ resultsq2 = << >>
  /\ main = "q1" /\ ndone = 0 /\ rawdata = << >> /\ nstalk_tot = 0 /\ ndump = 0
  /\ groups = << >> /\ istart = 1

TakeFile(r) ==
  /\ reader[r].at = "idle" /\ tasksq # << >> /\ Head(tasksq) # Pill
  /\ tasksq' = Tail(tasksq)
  /\ reader' = [reader EXCEPT ![r] = [Idle EXCEPT !.at = "read", !.file = Head(tasksq), !.pos = 1]]
  /\ UNCHANGED <<run, unfinished, resultsq, resultsq2, main, totals, written>>

\* Mutant of TakePill: the reader tells the first queue when it takes the pill's task.
TakePillQuietly(r) ==
  /\ reader[r].at = "idle" /\ tasksq # << >> /\ Head(tasksq) = Pill
  /\ tasksq' = Tail(tasksq)
  /\ resultsq2' = Append(resultsq2, None)
  /\ unfinished' = unfinished - 1
  /\ reader' = [reader EXCEPT ![r].at = "out"]
  /\ UNCHANGED <<run, resultsq, main, totals, written>>

TakePill(r) ==
  /\ reader[r].at = "idle" /\ tasksq # << >> /\ Head(tasksq) = Pill
  /\ tasksq' = Tail(tasksq)
  /\ resultsq' = Append(resultsq, None)
  /\ resultsq2' = Append(resultsq2, None)
  /\ unfinished' = unfinished - 1
  /\ reader' = [reader EXCEPT ![r].at = "out"]
  /\ UNCHANGED <<run, main, totals, written>>

Bad(r) == <<reader[r].file, reader[r].pos>> \in run.bad /\ InFile(reader[r].file, reader[r].pos) # {}

\* A dump that is late enough and has particles is recorded, if need be with no row;
\* procdata is put when full.
ReadDump(r) ==
  LET self  == reader[r]
      pars  == On(self.file, self.pos)
      takes == InFile(self.file, self.pos) # {} /\ self.pos >= MinDump
      data  == IF takes THEN Append(self.procdata, [of |-> self.file, t |-> self.pos, pars |-> pars])
               ELSE self.procdata
      full  == takes /\ Len(data) >= Chunk
  IN /\ self.at = "read" /\ self.pos <= NDumps /\ ~Bad(r)
     /\ resultsq' = IF full THEN Append(resultsq, [of |-> "chunk", data |-> data]) ELSE resultsq
     /\ reader' = [reader EXCEPT ![r].pos = @ + 1,
                                 ![r].procdata = IF full THEN << >> ELSE data,
                                 ![r].recorded = IF takes THEN @ + 1 ELSE @]
     /\ UNCHANGED <<run, tasksq, unfinished, resultsq2, main, totals, written>>

\* Mutant of EndFile: what is left in procdata is not put.
EndFileShort(r) ==
  LET self == reader[r]
  IN /\ self.at = "read" /\ self.pos > NDumps
     /\ UNCHANGED resultsq
     /\ resultsq2' = Append(resultsq2, [of |-> "counts", stalk |-> Cardinality(On(self.file, 1)),
                                        recorded |-> self.recorded])
     /\ unfinished' = unfinished - 1
     /\ reader' = [reader EXCEPT ![r] = Idle]
     /\ UNCHANGED <<run, tasksq, main, totals, written>>

\* Mutant of EndFile: the particles are counted in the last dump.
EndFileLast(r) ==
  LET self == reader[r]
  IN /\ self.at = "read" /\ self.pos > NDumps
     /\ resultsq' = IF self.procdata = << >> THEN resultsq
                    ELSE Append(resultsq, [of |-> "chunk", data |-> self.procdata])
     /\ resultsq2' = Append(resultsq2, [of |-> "counts", stalk |-> Cardinality(On(self.file, NDumps)),
                                        recorded |-> self.recorded])
     /\ unfinished' = unfinished - 1
     /\ reader' = [reader EXCEPT ![r] = Idle]
     /\ UNCHANGED <<run, tasksq, main, totals, written>>

\* The end of the file: the rest of procdata, the counts, task_done().
EndFile(r) ==
  LET self == reader[r]
  IN /\ self.at = "read" /\ self.pos > NDumps
     /\ resultsq' = IF self.procdata = << >> THEN resultsq
                    ELSE Append(resultsq, [of |-> "chunk", data |-> self.procdata])
     /\ resultsq2' = Append(resultsq2, [of |-> "counts", stalk |-> Cardinality(On(self.file, 1)),
                                        recorded |-> self.recorded])
     /\ unfinished' = unfinished - 1
     /\ reader' = [reader EXCEPT ![r] = Idle]
     /\ UNCHANGED <<run, tasksq, main, totals, written>>

\* A padding that does not fit: exit(), before task_done() and before any pill.
Exit(r) ==
  /\ reader[r].at = "read" /\ reader[r].pos <= NDumps /\ Bad(r)
  /\ reader' = [reader EXCEPT ![r].at = "exited"]
  /\ UNCHANGED <<run, queues, main, totals, written>>

\* Both loops of the main process count the readers that are done.
GetResult ==
  /\ main = "q1" /\ ndone < run.cores /\ resultsq # << >>
  /\ resultsq' = Tail(resultsq)
  /\ IF Head(resultsq) = None
     THEN ndone' = ndone + 1 /\ UNCHANGED rawdata
     ELSE rawdata' = rawdata \o Head(resultsq).data /\ UNCHANGED ndone
  /\ UNCHANGED <<run, tasksq, unfinished, resultsq2, reader, main, nstalk_tot, ndump, written>>

NextQueue ==
  /\ main = "q1" /\ ndone = run.cores
  /\ main' = "q2" /\ ndone' = 0
  /\ UNCHANGED <<run, queues, reader, rawdata, nstalk_tot, ndump, written>>

GetCounts ==
  /\ main = "q2" /\ ndone < run.cores /\ resultsq2 # << >>
  /\ resultsq2' = Tail(resultsq2)
  /\ LET answer == Head(resultsq2)
     IN IF answer = None
        THEN ndone' = ndone + 1 /\ UNCHANGED <<nstalk_tot, ndump>>
        ELSE /\ nstalk_tot' = nstalk_tot + answer.stalk
             /\ ndump' = IF answer.recorded > ndump THEN answer.recorded ELSE ndump
             /\ UNCHANGED ndone
  /\ UNCHANGED <<run, tasksq, unfinished, resultsq, reader, main, rawdata, written>>

JoinTasks ==
  /\ main = "q2" /\ ndone = run.cores /\ unfinished = 0
  /\ main' = IF rawdata = << >> THEN "failed" ELSE "group"
  /\ UNCHANGED <<run, queues, reader, totals, written>>

\* argsort(order=['ipar', 'tstalk'])
Before(a, b) == a[1] < b[1] \/ (a[1] = b[1] /\ a[2] < b[2])
InOrder(rows) ==
  [k \in 1 .. Cardinality(rows) |->
     CHOOSE row \in rows : Cardinality({r \in rows : Before(r, row)}) = k - 1]
Sorted == InOrder(UNION {d.pars \X {d.t} : d \in ToSet(rawdata)})

\* Mutant of Trajectory: the group ends one row early.
ShortTrajectory(rows, i) ==
  LET same == {j \in i .. Len(rows) : rows[j][1] = rows[i][1]}
  IN SubSeq(rows, i, IF i + 1 \in same THEN i + Cardinality(same) - 2 ELSE i)

\* The rows from row i on that are of its particle.
Trajectory(rows, i) ==
  SubSeq(rows, i, i + Cardinality({j \in i .. Len(rows) : rows[j][1] = rows[i][1]}) - 1)

\* for wpar in range(0,nstalk_tot): the rows of one particle become a group.
WriteGroup ==
  /\ main = "group" /\ Len(groups) < nstalk_tot /\ istart < Len(Sorted)
  /\ groups' = Append(groups, Trajectory(Sorted, istart))
  /\ istart' = istart + Len(Trajectory(Sorted, istart))
  /\ UNCHANGED <<run, queues, reader, main, totals>>

\* IndexError: no row is left, or the particle's only row is the last of all, and the
\* row behind it is looked at.
NoRow ==
  /\ main = "group" /\ Len(groups) < nstalk_tot /\ istart >= Len(Sorted)
  /\ main' = "failed"
  /\ UNCHANGED <<run, queues, reader, totals, written>>

Close ==
  /\ main = "group" /\ Len(groups) = nstalk_tot
  /\ main' = "done"
  /\ UNCHANGED <<run, queues, reader, totals, written>>

ReaderStep(r) == TakeFile(r) \/ TakePill(r) \/ ReadDump(r) \/ EndFile(r) \/ Exit(r)
MainStep == GetResult \/ NextQueue \/ GetCounts \/ JoinTasks \/ WriteGroup \/ NoRow \/ Close

Next == MainStep \/ \E r \in Readers : ReaderStep(r)

Spec == Init /\ [][Next]_vars

\* The operating system runs every process.
FairSpec ==
  Spec /\ WF_vars(MainStep)
       /\ \A r \in 1 .. MaxCores : WF_vars(r \in Readers /\ ReaderStep(r))
-----------------------------------------------------------------------------
(* Properties *)

Recorded == {x \in Procs \X Dumps : x[2] >= MinDump /\ InFile(x[1], x[2]) # {}}

\* When the main process has counted all readers out on the first queue, it has every
\* record of every file, once: no chunk is behind the None of its reader.
AllRecordsIn ==
  run.cores > 0 /\ main # "q1" =>
    /\ Len(rawdata) = Cardinality(Recorded)
    /\ {<<rawdata[k].of, rawdata[k].t>> : k \in 1 .. Len(rawdata)} = Recorded

\* The totals are those of all files when both queues have been counted out.
TotalsIn ==
  main \in {"group", "done"} =>
    /\ nstalk_tot = Cardinality(UNION {On(i, 1) : i \in Procs})
    /\ \A i \in Procs : Cardinality({t \in Dumps : <<i, t>> \in Recorded}) <= ndump

\* The rows to be written of a particle, the particles that have some, and those of the
\* first dump, in whatever file they are.
Track(par) ==
  {<<par, t>> : t \in {t \in MinDump .. NDumps : par < MaxIpar /\ run.where[t][par] # Nowhere}}
Followed == {par \in Pars : Track(par) # {}}
First == {par \in Pars : par < MaxIpar /\ run.where[1][par] # Nowhere}

\* Every group is of one particle, with all its recorded rows in the order of time.  There
\* are as many as particles in the first dump, of those with the lowest numbers: one of the
\* first dump that is never lost goes without a group only if a lower number came later.
TrajectoryWhole ==
  main = "done" =>
    /\ \A k \in 1 .. Len(groups) : groups[k] = InOrder(Track(groups[k][1][1]))
    /\ \A j, k \in 1 .. Len(groups) : groups[j][1][1] = groups[k][1][1] => j = k
    /\ Len(groups) = Cardinality(First)
    /\ \A par \in Followed :
         \/ \E k \in 1 .. Len(groups) : groups[k][1][1] = par
         \/ \A k \in 1 .. Len(groups) : groups[k][1][1] < par

\* The program fails when no dump is recorded, when there are fewer particles with rows than
\* in the first dump, or when there are as many and that of the highest number has one row;
\* and only then.
OneRowAtEnd ==
  \E par \in Followed : Cardinality(Track(par)) = 1 /\ \A other \in Followed : other <= par
FailsWithoutRows ==
  main \in {"done", "failed"} =>
    (main = "failed" <=> \/ Recorded = {}
                         \/ Cardinality(Followed) < Cardinality(First)
                         \/ Cardinality(Followed) = Cardinality(First) /\ OneRowAtEnd)

\* The program ends, unless a reader has met a bad file or there are no readers.
Ends ==
  <>(main \in {"done", "failed"} \/ run.cores = 0 \/ \E r \in Readers : reader[r].at = "exited")
=============================================================================
