------------------------------ MODULE ForkJoin ------------------------------
(***************************************************************************)
(* How find_tracers and find_fixed share a computation among processes:    *)
(* n_proc children are forked, each puts one message on a queue and ends;  *)
(* the parent takes n_proc messages off it, joins the children and puts    *)
(* their results together.  The messages come in any order, and the queue  *)
(* is the same one for every snapshot of a time series.                    *)
(***************************************************************************)
EXTENDS Integers, Sequences

CONSTANTS
  NProc,      \* n_proc
  MayDie      \* may an exception end a child before it has put its message?

Workers == 0 .. NProc - 1

ASSUME ForkAssumption == NProc \in Nat \ {0} /\ MayDie \in BOOLEAN

VARIABLES
  parent,     \* "read", "start", "get", "store", "done" or "failed"
  child,      \* each process: "new", "running", "ended" or "died"
  queue,      \* the messages on the queue, [from, data]
  sub_data    \* the messages taken off it

forkVars == <<parent, child, queue, sub_data>>

InitFork ==
  /\ parent = "read"
  /\ child = [w \in Workers |-> "ended"]
  /\ queue = << >>
  /\ sub_data = << >>

\* New processes and an empty list of results for the next snapshot.
Prepare ==
  /\ parent' = "start"
  /\ child' = [w \in Workers |-> "new"]
  /\ sub_data' = << >>
  /\ UNCHANGED queue

Start(w) ==
  /\ parent = "start" /\ child[w] = "new"
  /\ \A v \in 0 .. w - 1 : child[v] # "new"
  /\ child' = [child EXCEPT ![w] = "running"]
  /\ parent' = IF w = NProc - 1 THEN "get" ELSE "start"
  /\ UNCHANGED <<queue, sub_data>>

\* Mutant of Put: the queue has room for one message.
PutIfRoom(w, data) ==
  /\ child[w] = "running"
  /\ queue' = IF queue = << >> THEN <<[from |-> w, data |-> data]>> ELSE queue
  /\ child' = [child EXCEPT ![w] = "ended"]
  /\ UNCHANGED <<parent, sub_data>>

Put(w, data) ==
  /\ child[w] = "running"
  /\ queue' = Append(queue, [from |-> w, data |-> data])
  /\ child' = [child EXCEPT ![w] = "ended"]
  /\ UNCHANGED <<parent, sub_data>>

Die(w) ==
  /\ MayDie /\ child[w] = "running"
  /\ child' = [child EXCEPT ![w] = "died"]
  /\ UNCHANGED <<parent, queue, sub_data>>

Get ==
  /\ parent = "get" /\ Len(sub_data) < NProc /\ queue # << >>
  /\ sub_data' = Append(sub_data, Head(queue))
  /\ queue' = Tail(queue)
  /\ UNCHANGED <<parent, child>>

Join ==
  /\ parent = "get" /\ Len(sub_data) = NProc
  /\ \A w \in Workers : child[w] \in {"ended", "died"}
  /\ parent' = "store"
  /\ UNCHANGED <<child, queue, sub_data>>

\* The messages of w among those taken off the queue.
Sent(w) == {i \in 1 .. Len(sub_data) : sub_data[i].from = w}
=============================================================================
