------------------------------ MODULE Tracers ------------------------------
(***************************************************************************)
(* find_tracers (pencilnew/diag/tracers.py) and tracers (pencil/files/     *)
(* tracers.py): for every snapshot of a series, the field lines of all     *)
(* seeds are traced by n_proc processes.  Process w has the rows w,        *)
(* w + n_proc, ... of the seeds.  The second index iy of the seeds and the *)
(* quantities besides x1 go the same way as x1 and are left out.           *)
(***************************************************************************)
EXTENDS ForkJoin, TracerSeries

VARIABLES
  t_idx,      \* the index of the loop over the snapshots
  x1, t       \* the results, one entry per snapshot: ends of lines, the file of the time

seriesVars == <<input, t_idx, x1, t>>
vars == <<forkVars, seriesVars>>

\* The row of process w that belongs to seed s = w + row * n_proc.
Row(s) == s \div NProc
NRows(w) == (NSeeds + NProc - 1 - w) \div NProc

Init ==
  /\ InitFork
  /\ InitInput
  /\ t_idx = FirstIdx
  /\ x1 = ZeroRows /\ t = ZeroTime

\* Read the snapshot, enter its time and the seeds, prepare the processes.
ReadVar ==
  /\ parent = "read" /\ t_idx <= LastIdx /\ InRange(t_idx)
  /\ x1' = [x1 EXCEPT ![Entry(t_idx)] = [s \in Seeds |-> Seed]]
  /\ t'  = [t EXCEPT ![Entry(t_idx)] = FileOf(t_idx)]
  /\ Prepare
  /\ UNCHANGED <<input, t_idx>>

\* self.t[t_idx] = var.t: IndexError.
IndexError ==
  /\ parent = "read" /\ t_idx <= LastIdx /\ ~InRange(t_idx)
  /\ parent' = "failed"
  /\ UNCHANGED <<child, queue, sub_data, seriesVars>>

Return ==
  /\ parent = "read" /\ t_idx > LastIdx
  /\ parent' = "done"
  /\ UNCHANGED <<child, queue, sub_data, seriesVars>>

\* __sub_tracers: x0[i_proc::n_proc] and one line per row.
SubTracers(i, w) == [row \in 0 .. NRows(w) - 1 |-> Line(FileOf(i), w + row * NProc)]

\* Mutant of Reassembled: the i-th result is taken for that of process i.
ByArrival(rows) ==
  [s \in Seeds |-> sub_data[1 + (s % NProc)].data[Row(s)]]

\* x1[sub_proc::n_proc] = ..., for one message after the other.
Reassembled(rows) ==
  [s \in Seeds |->
     LET sent == Sent(s % NProc)
     IN IF sent = {} THEN rows[s]
        ELSE sub_data[CHOOSE i \in sent : \A j \in sent : j <= i].data[Row(s)]]

Store ==
  /\ parent = "store"
  /\ x1' = [x1 EXCEPT ![Entry(t_idx)] = Reassembled(@)]
  /\ t_idx' = t_idx + 1
  /\ parent' = "read"
  /\ UNCHANGED <<child, queue, sub_data, input, t>>

Work(w) == Start(w) \/ Die(w) \/ Put(w, SubTracers(t_idx, w))
WorkTracers(w) == Work(w) /\ UNCHANGED seriesVars
Collect == (Get \/ Join) /\ UNCHANGED seriesVars
ParentStep == ReadVar \/ IndexError \/ Return \/ Collect \/ Store

Next == ParentStep \/ \E w \in Workers : WorkTracers(w)

Spec == Init /\ [][Next]_vars

\* The parent runs, and the operating system runs the children.
FairSpec == Spec /\ WF_vars(ParentStep) /\ \A w \in Workers : WF_vars(WorkTracers(w))
-----------------------------------------------------------------------------
(* Properties *)

Messages == sub_data \o queue

Message == {[from |-> w, data |-> SubTracers(i, w)] : w \in Workers, i \in FirstIdx .. LastIdx}

TypeOK ==
  /\ parent \in {"read", "start", "get", "store", "done", "failed"}
  /\ child \in [Workers -> {"new", "running", "ended", "died"}]
  /\ queue \in Seq(Message) /\ sub_data \in Seq(Message)
  /\ input \in Inputs /\ t_idx \in Int /\ FirstIdx <= t_idx
  /\ x1 \in [0 .. nTimes - 1 -> [Seeds -> {"zero", "seed", "end"} \X Int \X Int]]
  /\ t \in [0 .. nTimes - 1 -> Int]

Working == parent \in {"start", "get", "store"}

\* A snapshot that is worked on has an entry in the arrays.
EntryThere == Working => t_idx <= LastIdx /\ InRange(t_idx)

\* While a snapshot is worked on, there is at most one message of each process,
\* it is there when and only when the process has ended, and it is about this
\* snapshot: the queue, which all snapshots share, holds nothing of an earlier one.
OneMessageEach ==
  /\ \A i \in 1 .. Len(Messages) :
       /\ Messages[i].from \in Workers
       /\ Working => /\ child[Messages[i].from] = "ended"
                     /\ Messages[i].data = SubTracers(t_idx, Messages[i].from)
  /\ \A i, j \in 1 .. Len(Messages) : Messages[i].from = Messages[j].from => i = j

\* When the children have been joined, none is left and all messages have been taken.
NoneLeft ==
  /\ parent \notin {"start", "get"} =>
       queue = << >> /\ \A w \in Workers : child[w] \in {"ended", "died"}
  /\ parent = "store" => Len(sub_data) = NProc

TracersInv == TypeOK /\ EntryThere /\ OneMessageEach /\ NoneLeft
=============================================================================
