------------------------- MODULE StreamlinesProofs -------------------------
(***************************************************************************)
(* Proofs about Streamlines, for every number of cores, every field        *)
(* (Asks), with or without buffering in MPI_SEND, for every number of      *)
(* calls: no request is lost, and no vector is sent to a core that does    *)
(* not wait for it.                                                        *)
(***************************************************************************)
EXTENDS Streamlines, TLAPS

LEMMA OwnerIsCore ==
  ASSUME NEW s \in Cores, next[s] \in Nat \ {0}, next[s] <= Len(Asks[s])
  PROVE  Owner(s) \in Cores /\ Owner(s) # s
<1>1. Asks[s] \in Seq(Cores) /\ next[s] \in 1 .. Len(Asks[s])
  BY StreamAssumption
<1> QED BY <1>1, StreamAssumption DEF Owner

LEMMA NoneIsNoCore == None \notin Cores
BY DEF None, Cores

LEMMA InitInv == Init => StreamInv
<1> SUFFICES ASSUME Init PROVE StreamInv
  OBVIOUS
<1> USE StreamAssumption DEF Init
<1>1. TypeOK
  <2>1. /\ pc \in [Cores -> {"work", "send", "wait", "final", "out"}]
        /\ next \in [Cores -> Nat \ {0}]
    OBVIOUS
  <2>2. posted \in [Cores -> BOOLEAN]
    OBVIOUS
  <2>3. matched \in [Cores -> Cores \cup {None}] /\ pending \in [Cores -> SUBSET Cores]
    OBVIOUS
  <2>4. reply \in [Cores -> {Nothing, "field", "garbage"}] /\ fin \in [Cores -> SUBSET Cores]
    OBVIOUS
  <2>5. phase \in 1 .. Phases
    OBVIOUS
  <2> QED BY <2>1, <2>2, <2>3, <2>4, <2>5 DEF TypeOK
<1>2. OneRequest
  BY NoneIsNoCore DEF OneRequest, RequestOf
<1>3. FinishedTrue
  BY DEF FinishedTrue
<1> QED BY <1>1, <1>2, <1>3 DEF StreamInv

\* Each action of Streamlines preserves StreamInv: a lemma for every action.
LEMMA PostInv ==
  ASSUME StreamInv, NEW c \in Cores, PostReceive(c) PROVE StreamInv'
<1> USE DEF StreamInv, PostReceive
<1>1. TypeOK'
  BY DEF TypeOK
<1>2. OneRequest'
  BY DEF OneRequest, RequestOf, Owner
<1>3. FinishedTrue'
  BY DEF FinishedTrue
<1> QED BY <1>1, <1>2, <1>3

LEMMA ServeInv ==
  ASSUME StreamInv, NEW c \in Cores, ServeRequest(c) PROVE StreamInv'
<1> USE DEF StreamInv
<1> DEFINE s == matched[c]
<1>1. /\ reply' = [reply EXCEPT ![s] = IF c \in Prepared THEN "field" ELSE "garbage"]
      /\ matched' = [matched EXCEPT ![c] = None]
      /\ posted' = [posted EXCEPT ![c] = FALSE]
      /\ UNCHANGED <<pc, next, pending, fin, phase>>
  BY DEF ServeRequest
<1>2. s \in Cores
  BY DEF ServeRequest, TypeOK
<1>3. /\ pc[s] \in {"send", "wait"} /\ next[s] <= Len(Asks[s])
      /\ Owner(s) = c /\ s \notin pending[c]
  BY <1>2 DEF OneRequest, RequestOf
<1>4. TypeOK'
  <2>1. reply' \in [Cores -> {Nothing, "field", "garbage"}]
    BY <1>1, <1>2 DEF TypeOK
  <2>2. matched' \in [Cores -> Cores \cup {None}]
    BY <1>1 DEF TypeOK
  <2>3. posted' \in [Cores -> BOOLEAN]
    BY <1>1 DEF TypeOK
  <2> QED BY <1>1, <2>1, <2>2, <2>3 DEF TypeOK
<1>5. ASSUME NEW q \in Cores PROVE RequestOf(q)'
  <2>1. Owner(q)' = Owner(q)
    BY <1>1 DEF Owner
  <2>2. CASE q # s
    <3>1. reply'[q] = reply[q]
      BY <1>1, <2>2 DEF TypeOK
    <3>2. \A d \in Cores : (matched'[d] = q) = (matched[d] = q)
      BY <1>1, <2>2, NoneIsNoCore DEF TypeOK
    <3>3. next[q] <= Len(Asks[q]) => Owner(q) \in Cores
      BY OwnerIsCore DEF TypeOK
    <3> QED BY <1>1, <2>1, <3>1, <3>2, <3>3 DEF OneRequest, RequestOf
  <2>3. CASE q = s
    <3>1. reply'[q] # Nothing
      BY <1>1, <1>2, <2>3 DEF TypeOK, Nothing
    <3>2. \A d \in Cores : matched'[d] # q
      BY <1>1, <1>2, <1>3, <2>3, NoneIsNoCore DEF TypeOK, OneRequest, RequestOf
    <3>3. \A d \in Cores : q \notin pending'[d]
      BY <1>1, <1>2, <1>3, <2>3 DEF OneRequest, RequestOf
    <3> QED BY <1>1, <1>3, <2>1, <2>3, <3>1, <3>2, <3>3 DEF RequestOf
  <2> QED BY <2>2, <2>3
<1>6. FinishedTrue'
  BY <1>1 DEF FinishedTrue
<1> QED BY <1>4, <1>5, <1>6 DEF OneRequest

LEMMA AskInv ==
  ASSUME StreamInv, NEW c \in Cores, AskVector(c) PROVE StreamInv'
<1> USE DEF StreamInv
<1> DEFINE o == Owner(c)
<1>1. /\ pc[c] = "work" /\ next[c] <= Len(Asks[c])
      /\ pending' = [pending EXCEPT ![o] = @ \cup {c}]
      /\ pc' = [pc EXCEPT ![c] = "send"]
      /\ UNCHANGED <<next, posted, matched, reply, fin, phase>>
  BY DEF AskVector
<1>2. o \in Cores
  BY <1>1, OwnerIsCore DEF TypeOK
<1>3. TypeOK'
  BY <1>1, <1>2 DEF TypeOK
<1>4. ASSUME NEW q \in Cores PROVE RequestOf(q)'
  <2>1. Owner(q)' = Owner(q)
    BY <1>1 DEF Owner
  <2>2. CASE q # c
    <3>1. pc'[q] = pc[q] /\ \A d \in Cores : (q \in pending'[d]) = (q \in pending[d])
      BY <1>1, <2>2 DEF TypeOK
    <3>2. next[q] <= Len(Asks[q]) => Owner(q) \in Cores
      BY OwnerIsCore DEF TypeOK
    <3> QED BY <1>1, <2>1, <3>1, <3>2 DEF OneRequest, RequestOf
  <2>3. CASE q = c
    <3>1. reply[q] = Nothing /\ \A d \in Cores : q \notin pending[d] /\ matched[d] # q
      BY <1>1, <2>3 DEF OneRequest, RequestOf
    <3>2. q \in pending'[o] /\ \A d \in Cores \ {o} : q \notin pending'[d]
      BY <1>1, <1>2, <2>3, <3>1 DEF TypeOK
    <3>3. pc'[q] = "send"
      BY <1>1, <2>3 DEF TypeOK
    <3> QED BY <1>1, <1>2, <2>1, <2>3, <3>1, <3>2, <3>3 DEF RequestOf
  <2> QED BY <2>2, <2>3
<1>5. FinishedTrue'
  BY <1>1 DEF FinishedTrue, TypeOK
<1> QED BY <1>3, <1>4, <1>5 DEF OneRequest

LEMMA MatchInv ==
  ASSUME StreamInv, NEW c \in Cores, NEW d \in Cores, MatchRequest(c, d)
  PROVE  StreamInv'
<1> USE DEF StreamInv
<1>1. /\ c \in pending[d] /\ matched[d] = None
      /\ matched' = [matched EXCEPT ![d] = c]
      /\ pending' = [pending EXCEPT ![d] = @ \ {c}]
      /\ UNCHANGED <<pc, next, posted, reply, fin, phase>>
  BY DEF MatchRequest, Quiet
<1>2. TypeOK'
  BY <1>1 DEF TypeOK
<1>3. ASSUME NEW q \in Cores PROVE RequestOf(q)'
  <2>1. Owner(q)' = Owner(q)
    BY <1>1 DEF Owner
  <2>2. CASE q # c
    <3>1. \A e \in Cores : /\ (q \in pending'[e]) = (q \in pending[e])
                           /\ (matched'[e] = q) = (matched[e] = q)
      BY <1>1, <2>2, NoneIsNoCore DEF TypeOK
    <3>2. next[q] <= Len(Asks[q]) => Owner(q) \in Cores
      BY OwnerIsCore DEF TypeOK
    <3> QED BY <1>1, <2>1, <3>1, <3>2 DEF OneRequest, RequestOf
  <2>3. CASE q = c
    <3>1. /\ pc[q] \in {"send", "wait"} /\ next[q] <= Len(Asks[q])
          /\ Owner(q) = d /\ reply[q] = Nothing
          /\ \A e \in Cores \ {d} : q \notin pending[e] /\ matched[e] # q
      BY <1>1, <2>3 DEF OneRequest, RequestOf
    <3>2. \A e \in Cores \ {d} : q \notin pending'[e] /\ matched'[e] # q
      BY <1>1, <3>1 DEF TypeOK
    <3>3. q \notin pending'[d] /\ matched'[d] = q
      BY <1>1, <2>3 DEF TypeOK
    <3> QED BY <1>1, <2>1, <3>1, <3>2, <3>3 DEF RequestOf
  <2> QED BY <2>2, <2>3
<1>4. FinishedTrue'
  BY <1>1 DEF FinishedTrue
<1> QED BY <1>2, <1>3, <1>4 DEF OneRequest

LEMMA SendReturnsInv ==
  ASSUME StreamInv, NEW c \in Cores, SendReturns(c) PROVE StreamInv'
<1> USE DEF StreamInv
<1>1. /\ pc[c] = "send" /\ pc' = [pc EXCEPT ![c] = "wait"]
      /\ UNCHANGED <<next, posted, matched, pending, reply, fin, phase>>
  BY DEF SendReturns
<1>2. TypeOK'
  BY <1>1 DEF TypeOK
<1>3. OneRequest'
  <2>1. \A q \in Cores : (pc'[q] \in {"send", "wait"}) = (pc[q] \in {"send", "wait"})
    BY <1>1 DEF TypeOK
  <2> QED BY <1>1, <2>1 DEF OneRequest, RequestOf, Owner
<1>4. FinishedTrue'
  BY <1>1 DEF FinishedTrue, TypeOK
<1> QED BY <1>2, <1>3, <1>4

LEMMA GetVectorInv ==
  ASSUME StreamInv, NEW c \in Cores, GetVector(c) PROVE StreamInv'
<1> USE DEF StreamInv
<1>1. /\ pc[c] = "wait" /\ reply[c] # Nothing
      /\ reply' = [reply EXCEPT ![c] = Nothing]
      /\ next' = [next EXCEPT ![c] = @ + 1]
      /\ pc' = [pc EXCEPT ![c] = "work"]
      /\ UNCHANGED <<posted, matched, pending, fin, phase>>
  BY DEF GetVector
<1>2. TypeOK'
  BY <1>1 DEF TypeOK
<1>3. ASSUME NEW q \in Cores PROVE RequestOf(q)'
  <2>1. CASE q # c
    <3>1. pc'[q] = pc[q] /\ reply'[q] = reply[q] /\ next'[q] = next[q]
      BY <1>1, <2>1 DEF TypeOK
    <3>2. Owner(q)' = Owner(q)
      BY <3>1 DEF Owner
    <3> QED BY <1>1, <3>1, <3>2 DEF OneRequest, RequestOf
  <2>2. CASE q = c
    <3>1. pc'[q] = "work" /\ reply'[q] = Nothing
      BY <1>1, <2>2 DEF TypeOK
    <3>2. \A d \in Cores : q \notin pending[d] /\ matched[d] # q
      BY <1>1, <2>2 DEF OneRequest, RequestOf
    <3> QED BY <1>1, <3>1, <3>2 DEF RequestOf
  <2> QED BY <2>1, <2>2
<1>4. FinishedTrue'
  BY <1>1 DEF FinishedTrue, TypeOK
<1> QED BY <1>2, <1>3, <1>4 DEF OneRequest

LEMMA FinishInv ==
  ASSUME StreamInv, NEW c \in Cores, Finish(c) PROVE StreamInv'
<1> USE DEF StreamInv
<1>1. /\ pc[c] = "work" /\ pc' = [pc EXCEPT ![c] = "final"]
      /\ fin' = [d \in Cores |-> IF d = c THEN fin[d] ELSE fin[d] \cup {c}]
      /\ UNCHANGED <<next, posted, matched, pending, reply, phase>>
  BY DEF Finish
<1>2. TypeOK'
  <2>1. fin' \in [Cores -> SUBSET Cores]
    BY <1>1 DEF TypeOK
  <2>2. pc' \in [Cores -> {"work", "send", "wait", "final", "out"}]
    BY <1>1 DEF TypeOK
  <2> QED BY <1>1, <2>1, <2>2 DEF TypeOK
<1>3. OneRequest'
  <2>1. \A q \in Cores : (pc'[q] \in {"send", "wait"}) = (pc[q] \in {"send", "wait"})
    BY <1>1 DEF TypeOK
  <2> QED BY <1>1, <2>1 DEF OneRequest, RequestOf, Owner
<1>4. FinishedTrue'
  <2>1. ASSUME NEW d \in Cores, NEW q \in fin'[d] PROVE pc'[q] \in {"final", "out"}
    BY <1>1, <2>1 DEF TypeOK, FinishedTrue
  <2>2. ASSUME NEW d \in Cores, pc'[d] = "out" PROVE fin'[d] = Cores \ {d}
    <3>1. pc[d] = "out" /\ d # c
      BY <1>1, <2>2 DEF TypeOK
    <3> QED BY <1>1, <3>1 DEF TypeOK, FinishedTrue
  <2> QED BY <2>1, <2>2 DEF FinishedTrue
<1> QED BY <1>2, <1>3, <1>4

LEMMA LeaveInv ==
  ASSUME StreamInv, NEW c \in Cores, LeaveTracing(c) PROVE StreamInv'
<1> USE DEF StreamInv
<1>1. /\ pc[c] = "final" /\ fin[c] = Cores \ {c}
      /\ pc' = [pc EXCEPT ![c] = "out"]
      /\ UNCHANGED <<next, posted, matched, pending, reply, fin, phase>>
  BY DEF LeaveTracing
<1>2. TypeOK'
  BY <1>1 DEF TypeOK
<1>3. OneRequest'
  <2>1. \A q \in Cores : (pc'[q] \in {"send", "wait"}) = (pc[q] \in {"send", "wait"})
    BY <1>1 DEF TypeOK
  <2> QED BY <1>1, <2>1 DEF OneRequest, RequestOf, Owner
<1>4. FinishedTrue'
  BY <1>1 DEF FinishedTrue, TypeOK
<1> QED BY <1>2, <1>3, <1>4

LEMMA NextCallInv ==
  ASSUME StreamInv, NextCall PROVE StreamInv'
<1> USE DEF StreamInv, NextCall
<1>1. TypeOK'
  BY StreamAssumption DEF TypeOK
<1>2. OneRequest'
  BY DEF OneRequest, RequestOf
<1>3. FinishedTrue'
  BY DEF FinishedTrue
<1> QED BY <1>1, <1>2, <1>3

\* The request of a core is in exactly one place until it has got the vector,
\* and only cores that ask for nothing any more are believed to have finished.
THEOREM Invariance == Spec => []StreamInv
<1>1. StreamInv /\ [Next]_vars => StreamInv'
  <2> SUFFICES ASSUME StreamInv, [Next]_vars PROVE StreamInv'
    OBVIOUS
  <2>1. CASE UNCHANGED vars
    BY <2>1 DEF vars, StreamInv, TypeOK, OneRequest, RequestOf, Owner, FinishedTrue
  <2>2. ASSUME NEW c \in Cores, CoreStep(c) PROVE StreamInv'
    BY <2>2, PostInv, ServeInv, AskInv, SendReturnsInv, GetVectorInv, FinishInv,
       LeaveInv DEF CoreStep
  <2>3. CASE Match
    BY <2>3, MatchInv DEF Match
  <2> QED BY <2>1, <2>2, <2>3, NextCallInv DEF Next
<1> QED BY <1>1, InitInv, PTL DEF Spec

\* No core returns from trace_streamlines while a request to it is unanswered.
THEOREM RequestsServed == Spec => []NoLostRequest
<1>1. StreamInv => NoLostRequest
  <2> SUFFICES ASSUME StreamInv, NEW c \in Cores, pc[c] = "out"
               PROVE  /\ pending[c] = {} /\ matched[c] = None
                      /\ \A s \in Cores : pc[s] \in {"send", "wait"} => Owner(s) # c
    BY DEF NoLostRequest
  <2>1. \A s \in Cores : pc[s] \notin {"send", "wait"}
    BY DEF StreamInv, FinishedTrue
  <2>2. \A s \in Cores : s \notin pending[c] /\ matched[c] # s
    BY <2>1 DEF StreamInv, OneRequest, RequestOf
  <2> QED BY <2>1, <2>2 DEF StreamInv, TypeOK
<1> QED BY <1>1, Invariance, PTL

\* The blocking send of a vector always finds its receive posted.
THEOREM RepliesExpected == Spec => []ReplyExpected
<1>1. StreamInv => ReplyExpected
  BY DEF StreamInv, ReplyExpected, OneRequest, RequestOf
<1> QED BY <1>1, Invariance, PTL
=============================================================================
