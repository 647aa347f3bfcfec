---------------------------- MODULE Streamlines ----------------------------
(***************************************************************************)
(* Field line tracing over processor boundaries (src/src/streamlines.f90). *)
(* A core that needs the vector field at a point of another core sends it  *)
(* a request (tag VV_RQST) and gets the vector back (tag VV_RCV).  While   *)
(* it waits, and until every core has told it that it has finished (tag    *)
(* FINISHED), it serves the requests of the others in send_vec.            *)
(*                                                                         *)
(* Which points a core asks for depends on the field.  The model is given  *)
(* the owners of those points, one sequence per core.                      *)
(***************************************************************************)
EXTENDS Integers, Sequences

CONSTANTS
  NP,         \* the number of MPI ranks
  Asks,       \* Asks[c]: the cores that own the points c asks for, in order
  Eager,      \* does MPI_SEND return before the message has been matched?
  Prepared,   \* the cores on which wtracers has filled vv
  Phases      \* how often trace_streamlines is called

Cores   == 0 .. NP - 1
None    == -1            \* no core
Nothing == "nothing"     \* no vector

ASSUME StreamAssumption ==
  /\ NP \in Nat \ {0}
  /\ Asks \in [Cores -> Seq(Cores)]
  /\ \A c \in Cores : \A i \in 1 .. Len(Asks[c]) : Asks[c][i] # c
  /\ Eager \in BOOLEAN /\ Prepared \subseteq Cores /\ Phases \in Nat \ {0}

VARIABLES
  pc,       \* "work" (tracing), "send" (in MPI_SEND of a request), "wait" (for the
            \* vector), "final" (has finished, serves others), "out" (returned)
  next,     \* index into Asks of the next point to ask for
  posted,   \* receive = 1: a receive for one request, of any source, is posted
  matched,  \* the core whose request has arrived in it, or None
  pending,  \* requests to each core that no receive has matched, by sender
  reply,    \* the vector on its way to each core, or Nothing
  fin,      \* FINISHED messages that have reached each core, by sender
  phase     \* number of the current call

vars == <<pc, next, posted, matched, pending, reply, fin, phase>>

Serving == {"work", "wait", "final"}
Owner(c) == Asks[c][next[c]]

\* send_vec returns: a receive is posted and MPI_TEST finds nothing in it.
Quiet(c) == posted[c] /\ matched[c] = None

Init ==
  /\ pc      = [c \in Cores |-> "work"]
  /\ next    = [c \in Cores |-> 1]
  /\ posted  = [c \in Cores |-> FALSE]
  /\ matched = [c \in Cores |-> None]
  /\ pending = [c \in Cores |-> {}]
  /\ reply   = [c \in Cores |-> Nothing]
  /\ fin     = [c \in Cores |-> {}]
  /\ phase   = 1

\* send_vec: MPI_IRECV from MPI_ANY_SOURCE unless one is posted already.
PostReceive(c) ==
  /\ pc[c] \in Serving /\ ~posted[c]
  /\ posted' = [posted EXCEPT ![c] = TRUE]
  /\ UNCHANGED <<pc, next, matched, pending, reply, fin, phase>>

\* Mutant of ServeRequest: requests are not looked at while waiting for a vector.
ServeUnlessWaiting(c) ==
  /\ pc[c] \in {"work", "final"} /\ matched[c] # None
  /\ reply' = [reply EXCEPT ![matched[c]] =
                 IF c \in Prepared THEN "field" ELSE "garbage"]
  /\ matched' = [matched EXCEPT ![c] = None]
  /\ posted' = [posted EXCEPT ![c] = FALSE]
  /\ UNCHANGED <<pc, next, pending, fin, phase>>

\* Mutant of ServeRequest: receive = 0 is forgotten, the request looks new.
ServeAgain(c) ==
  /\ pc[c] \in Serving /\ matched[c] # None
  /\ reply' = [reply EXCEPT ![matched[c]] =
                 IF c \in Prepared THEN "field" ELSE "garbage"]
  /\ UNCHANGED <<pc, next, posted, matched, pending, fin, phase>>

\* send_vec: a request has arrived, its sender gets the vector.
ServeRequest(c) ==
  /\ pc[c] \in Serving /\ matched[c] # None
  /\ reply' = [reply EXCEPT ![matched[c]] =
                 IF c \in Prepared THEN "field" ELSE "garbage"]
  /\ matched' = [matched EXCEPT ![c] = None]
  /\ posted' = [posted EXCEPT ![c] = FALSE]
  /\ UNCHANGED <<pc, next, pending, fin, phase>>

\* get_vector, first pass: post the receive for the vector, send the request.
AskVector(c) ==
  /\ pc[c] = "work" /\ Quiet(c)
  /\ next[c] <= Len(Asks[c])
  /\ pending' = [pending EXCEPT ![Owner(c)] = @ \cup {c}]
  /\ pc' = [pc EXCEPT ![c] = "send"]
  /\ UNCHANGED <<next, posted, matched, reply, fin, phase>>

\* The MPI library pairs one waiting request with a posted receive.
MatchRequest(c, d) ==
  /\ c \in pending[d] /\ Quiet(d)
  /\ matched' = [matched EXCEPT ![d] = c]
  /\ pending' = [pending EXCEPT ![d] = @ \ {c}]
  /\ UNCHANGED <<pc, next, posted, reply, fin, phase>>

\* The blocking MPI_SEND returns: at once, or when the request is matched.
SendReturns(c) ==
  /\ pc[c] = "send"
  /\ Eager \/ c \notin pending[Owner(c)]
  /\ pc' = [pc EXCEPT ![c] = "wait"]
  /\ UNCHANGED <<next, posted, matched, pending, reply, fin, phase>>

\* get_vector, later passes: MPI_TEST finds the vector.
GetVector(c) ==
  /\ pc[c] = "wait" /\ Quiet(c)
  /\ reply[c] # Nothing
  /\ reply' = [reply EXCEPT ![c] = Nothing]
  /\ next' = [next EXCEPT ![c] = @ + 1]
  /\ pc' = [pc EXCEPT ![c] = "work"]
  /\ UNCHANGED <<posted, matched, pending, fin, phase>>

\* Every tracer is done: MPI_ISEND of FINISHED to every other core.
Finish(c) ==
  /\ pc[c] = "work" /\ posted[c]
  /\ next[c] > Len(Asks[c])
  /\ fin' = [d \in Cores |-> IF d = c THEN fin[d] ELSE fin[d] \cup {c}]
  /\ pc' = [pc EXCEPT ![c] = "final"]
  /\ UNCHANGED <<next, posted, matched, pending, reply, phase>>

\* Mutant of LeaveTracing: the first FINISHED is enough.
LeaveAtFirst(c) ==
  /\ pc[c] = "final" /\ posted[c]
  /\ fin[c] # {}
  /\ pc' = [pc EXCEPT ![c] = "out"]
  /\ UNCHANGED <<next, posted, matched, pending, reply, fin, phase>>

\* The final loop: sum(finished_tracing) = number of cores.  No receive is
\* cancelled: the one posted last is still there at the next call.
LeaveTracing(c) ==
  /\ pc[c] = "final" /\ posted[c]
  /\ fin[c] = Cores \ {c}
  /\ pc' = [pc EXCEPT ![c] = "out"]
  /\ UNCHANGED <<next, posted, matched, pending, reply, fin, phase>>

\* The next call of wtracers, with the barriers of a time step in between.
NextCall ==
  /\ \A c \in Cores : pc[c] = "out"
  /\ phase < Phases
  /\ phase' = phase + 1
  /\ pc'    = [c \in Cores |-> "work"]
  /\ next'  = [c \in Cores |-> 1]
  /\ fin'   = [c \in Cores |-> {}]
  /\ UNCHANGED <<posted, matched, pending, reply>>

AllOut == \A c \in Cores : pc[c] = "out"

CoreStep(c) ==
  \/ PostReceive(c) \/ ServeRequest(c) \/ AskVector(c) \/ SendReturns(c)
  \/ GetVector(c) \/ Finish(c) \/ LeaveTracing(c)

Match == \E c, d \in Cores : MatchRequest(c, d)

Next ==
  \/ \E c \in Cores : CoreStep(c)
  \/ Match
  \/ NextCall

Spec == Init /\ [][Next]_vars

\* Cores poll in a loop; MPI progresses a message whose receive is posted.
Fairness == /\ \A c \in Cores : WF_vars(CoreStep(c))
            /\ WF_vars(Match) /\ WF_vars(NextCall)
FairSpec == Spec /\ Fairness
-----------------------------------------------------------------------------
TypeOK ==
  /\ pc \in [Cores -> {"work", "send", "wait", "final", "out"}]
  /\ next \in [Cores -> Nat \ {0}]
  /\ posted \in [Cores -> BOOLEAN]
  /\ matched \in [Cores -> Cores \cup {None}]
  /\ pending \in [Cores -> SUBSET Cores]
  /\ reply \in [Cores -> {Nothing, "field", "garbage"}]
  /\ fin \in [Cores -> SUBSET Cores]
  /\ phase \in 1 .. Phases

\* No core returns from trace_streamlines while another still needs it: nobody is
\* waiting for it, and no request to it is left for a later call to answer.
NoLostRequest ==
  \A c \in Cores :
    pc[c] = "out" =>
      /\ pending[c] = {} /\ matched[c] = None
      /\ \A s \in Cores : pc[s] \in {"send", "wait"} => Owner(s) # c

\* A vector is only sent to a core that has posted the receive for it and asked
\* this very core, so the blocking send of the vector cannot hang.
ReplyExpected ==
  \A c, s \in Cores :
    matched[c] = s => pc[s] \in {"send", "wait"} /\ Owner(s) = c /\ reply[s] = Nothing

\* The request of a core is in exactly one place until its vector is there, and
\* a core that asks for nothing has no request and no vector anywhere.
RequestOf(s) ==
  IF pc[s] \in {"send", "wait"}
  THEN /\ next[s] <= Len(Asks[s])
       /\ \A c \in Cores \ {Owner(s)} : s \notin pending[c] /\ matched[c] # s
       /\ \/ s \in pending[Owner(s)] /\ matched[Owner(s)] # s /\ reply[s] = Nothing
          \/ s \notin pending[Owner(s)] /\ matched[Owner(s)] = s /\ reply[s] = Nothing
          \/ s \notin pending[Owner(s)] /\ matched[Owner(s)] # s /\ reply[s] # Nothing
  ELSE reply[s] = Nothing /\ \A c \in Cores : s \notin pending[c] /\ matched[c] # s

OneRequest == \A s \in Cores : RequestOf(s)

\* FINISHED is only believed of cores that ask for nothing any more.
FinishedTrue ==
  \A c \in Cores :
    /\ \A s \in fin[c] : pc[s] \in {"final", "out"}
    /\ pc[c] = "out" => fin[c] = Cores \ {c}

StreamInv == TypeOK /\ OneRequest /\ FinishedTrue

\* "To avoid deadlocks check if there is any request to this core": every core
\* comes to the end of its tracers and of trace_streamlines.
AllTraced == <>(AllOut /\ phase = Phases)
=============================================================================
