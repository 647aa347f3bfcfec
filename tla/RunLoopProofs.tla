--------------------------- MODULE RunLoopProofs ---------------------------
(***************************************************************************)
(* Proofs about RunLoop, for every number of ranks, every run.in, every    *)
(* sequence of kills, launches, touched files and errors.                  *)
(***************************************************************************)
EXTENDS RunLoop, SequenceTheorems, TLAPS

LEMMA RootIsRank == Root \in Ranks
BY ConstAssumption DEF Root, Ranks

\* A broadcast leaves well-typed messages in the channels.
LEMMA BcastType ==
  ASSUME TypeOK, NEW r \in Ranks, NEW op \in Ops, NEW own, NEW v,
         [op |-> op, val |-> own] \in Message, Bcast(r, op, own, v)
  PROVE  chan' \in [Ranks -> Seq(Message)]
<1>1. CASE r = Root
  <2> DEFINE m == [op |-> op, val |-> own]
  <2>1. chan' = [s \in Ranks |-> IF s = Root THEN <<>> ELSE Append(chan[s], m)]
    BY <1>1 DEF Bcast
  <2>2. ASSUME NEW s \in Ranks PROVE Append(chan[s], m) \in Seq(Message)
    BY AppendProperties DEF TypeOK
  <2> HIDE DEF m
  <2> QED BY <2>1, <2>2
<1>2. CASE r # Root
  <2>1. chan[r] # <<>> /\ chan' = [chan EXCEPT ![r] = Tail(@)]
    BY <1>2 DEF Bcast
  <2>2. Tail(chan[r]) \in Seq(Message)
    BY <2>1, HeadTailProperties DEF TypeOK
  <2> QED BY <2>1, <2>2 DEF TypeOK
<1> QED BY <1>1, <1>2

\* A logical may be broadcast by every routine but read_all_run_pars.
LEMMA LogicalMessage ==
  ASSUME NEW op \in Ops \ {"read"}, NEW b \in BOOLEAN
  PROVE  op \in Ops /\ [op |-> op, val |-> b] \in Message
BY DEF Message

LEMMA GotoType ==
  ASSUME TypeOK, NEW r \in Ranks, NEW l \in Pcs, Goto(r, l)
  PROVE  pc' \in [Ranks -> Pcs]
BY DEF TypeOK, Goto

LEMMA LeaveType ==
  ASSUME TypeOK, NEW r \in Ranks, NEW why \in Reasons, Leave(r, why)
  PROVE  pc' \in [Ranks -> Pcs] /\ left' \in [Ranks -> Reasons]
<1>1. "ghosts" \in Pcs
  BY DEF Pcs, SyncPc
<1> QED BY <1>1, GotoType DEF Leave, TypeOK

LEMMA InitType == Init => TypeOK
<1> SUFFICES ASSUME Init PROVE TypeOK
  OBVIOUS
<1> USE ConstAssumption DEF Init
<1>1. pc \in [Ranks -> Pcs] /\ left \in [Ranks -> Reasons]
  BY DEF Pcs, SyncPc, Reasons
<1>2. it \in [Ranks -> Nat \ {0}] /\ t \in [Ranks -> Nat] /\ dt \in [Ranks -> Nat]
  OBVIOUS
<1>3. onemore \in [Ranks -> BOOLEAN] /\ fatal \in [Ranks -> BOOLEAN]
  OBVIOUS
<1>4. emergency \in [Ranks -> BOOLEAN] /\ lastsnap \in [Ranks -> BOOLEAN]
  OBVIOUS
<1>5. shift \in [Ranks -> Int] /\ pars \in [Ranks -> DOMAIN NtOf] /\ runin \in DOMAIN NtOf
  OBVIOUS
<1>6. chan \in [Ranks -> Seq(Message)]
  OBVIOUS
<1>7. vardat \in [Ranks -> Nat \cup {Torn}]
  OBVIOUS
<1>8. files \subseteq ControlFiles \cup StatusFiles
  OBVIOUS
<1>9. touches \in Nat /\ runs \in Nat /\ stopAt \in Nat
  OBVIOUS
<1> QED BY <1>1, <1>2, <1>3, <1>4, <1>5, <1>6, <1>7, <1>8, <1>9 DEF TypeOK

LEMMA Labels ==
  /\ {"stop", "resubmit", "reload", "read", "unreload", "save", "wall"} \subseteq Pcs
  /\ {"rsnap", "setdt", "ghosts", "collect", "finalize", "dying"} \subseteq Pcs
  /\ {"top", "tmax", "step", "open", "write", "dtmin", "finish", "die"} \subseteq Pcs
  /\ {"done", "dead", "killed"} \subseteq Pcs
BY DEF Pcs, BcastPc, Ops, SyncPc, LocalPc, EndedPc

LEMMA LogicalBcastType ==
  ASSUME TypeOK, NEW r \in Ranks, NEW op \in Ops \ {"read"}, NEW own \in BOOLEAN, NEW v,
         Bcast(r, op, own, v)
  PROVE  chan' \in [Ranks -> Seq(Message)]
BY BcastType, LogicalMessage

\* Each action of RunLoop preserves TypeOK: a lemma for every action.
LEMMA LoopTopType ==
  ASSUME TypeOK, NEW r \in Ranks, LoopTop(r) PROVE TypeOK'
<1>1. pc' \in [Ranks -> Pcs] /\ left' \in [Ranks -> Reasons]
  <2>1. CASE Leave(r, "nt")
    BY <2>1, LeaveType DEF Reasons
  <2>2. CASE Goto(r, IF LOut(it[r]) \/ emergency[r] THEN "stop" ELSE "tmax") /\ UNCHANGED left
    BY <2>2, Labels, GotoType DEF TypeOK
  <2> QED BY <2>1, <2>2 DEF LoopTop
<1> QED BY <1>1 DEF LoopTop, TypeOK, rankvars, diskvars, envvars

LEMMA CheckStopType ==
  ASSUME TypeOK, NEW r \in Ranks, CheckStop(r) PROVE TypeOK'
<1>1. pc' \in [Ranks -> Pcs]
  BY Labels, GotoType DEF CheckStop
<1>2. chan' \in [Ranks -> Seq(Message)]
  <2> DEFINE own == "STOP" \in files
  <2>1. "stop" \in Ops \ {"read"} /\ own \in BOOLEAN
    BY DEF Ops
  <2>2. PICK lstop : Bcast(r, "stop", own, lstop)
    BY DEF CheckStop
  <2> HIDE DEF own
  <2> QED BY <2>1, <2>2, LogicalBcastType
<1>3. files' \subseteq ControlFiles \cup StatusFiles
  BY DEF CheckStop, Delete, TypeOK
<1> QED BY <1>1, <1>2, <1>3 DEF CheckStop, TypeOK, rankvars, diskvars, envvars

LEMMA CheckResubmitType ==
  ASSUME TypeOK, NEW r \in Ranks, CheckResubmit(r) PROVE TypeOK'
<1>1. pc' \in [Ranks -> Pcs] /\ left' \in [Ranks -> Reasons]
  BY LeaveType DEF CheckResubmit, Reasons
<1>2. chan' \in [Ranks -> Seq(Message)]
  <2> DEFINE own == "RESUBMIT" \in files
  <2>1. "resubmit" \in Ops \ {"read"} /\ own \in BOOLEAN
    BY DEF Ops
  <2>2. PICK resubmit : Bcast(r, "resubmit", own, resubmit)
    BY DEF CheckResubmit
  <2> HIDE DEF own
  <2> QED BY <2>1, <2>2, LogicalBcastType
<1>3. files' \subseteq ControlFiles \cup StatusFiles
  BY DEF CheckResubmit, Delete, TypeOK
<1> QED BY <1>1, <1>2, <1>3 DEF CheckResubmit, TypeOK, rankvars, diskvars, envvars

LEMMA CheckReloadType ==
  ASSUME TypeOK, NEW r \in Ranks, CheckReload(r) PROVE TypeOK'
<1>1. pc' \in [Ranks -> Pcs]
  BY Labels, GotoType DEF CheckReload
<1>2. chan' \in [Ranks -> Seq(Message)]
  <2> DEFINE own == ReloadFiles \cap files # {}
  <2>1. "reload" \in Ops \ {"read"} /\ own \in BOOLEAN
    BY DEF Ops
  <2>2. PICK lreloading : Bcast(r, "reload", own, lreloading)
    BY DEF CheckReload
  <2> HIDE DEF own
  <2> QED BY <2>1, <2>2, LogicalBcastType
<1> QED BY <1>1, <1>2 DEF CheckReload, TypeOK, rankvars, diskvars, envvars

LEMMA ReadRunParsType ==
  ASSUME TypeOK, NEW r \in Ranks, ReadRunPars(r) PROVE TypeOK'
<1>1. pc' \in [Ranks -> Pcs]
  BY Labels, GotoType DEF ReadRunPars
<1>2. chan' \in [Ranks -> Seq(Message)]
  <2>1. "read" \in Ops /\ [op |-> "read", val |-> runin] \in Message
    BY DEF Ops, Message, TypeOK
  <2> QED BY <2>1, BcastType DEF ReadRunPars
<1>3. pars' \in [Ranks -> DOMAIN NtOf] /\ dt' \in [Ranks -> Nat]
  BY DEF ReadRunPars, TypeOK
<1> QED BY <1>1, <1>2, <1>3 DEF ReadRunPars, TypeOK, rankvars, diskvars, envvars

LEMMA RemoveReloadType ==
  ASSUME TypeOK, NEW r \in Ranks, RemoveReload(r) PROVE TypeOK'
<1>1. pc' \in [Ranks -> Pcs]
  BY Labels, GotoType DEF RemoveReload
<1>2. chan' \in [Ranks -> Seq(Message)]
  <2> DEFINE own == "RELOAD" \in files
  <2>1. "unreload" \in Ops \ {"read"} /\ own \in BOOLEAN
    BY DEF Ops
  <2>2. PICK lreload : Bcast(r, "unreload", own, lreload)
    BY DEF RemoveReload
  <2> HIDE DEF own
  <2> QED BY <2>1, <2>2, LogicalBcastType
<1>3. files' \subseteq ControlFiles \cup StatusFiles
  BY DEF RemoveReload, Delete, TypeOK
<1> QED BY <1>1, <1>2, <1>3 DEF RemoveReload, TypeOK, rankvars, diskvars, envvars

LEMMA CheckTMaxType ==
  ASSUME TypeOK, NEW r \in Ranks, CheckTMax(r) PROVE TypeOK'
<1>1. pc' \in [Ranks -> Pcs] /\ left' \in [Ranks -> Reasons]
  <2>1. CASE Leave(r, "tmax")
    BY <2>1, LeaveType DEF Reasons
  <2>2. CASE Goto(r, "step") /\ UNCHANGED left
    BY <2>2, Labels, GotoType DEF TypeOK
  <2> QED BY <2>1, <2>2 DEF CheckTMax
<1>2. onemore' \in [Ranks -> BOOLEAN]
  BY DEF CheckTMax, TypeOK
<1> QED BY <1>1, <1>2 DEF CheckTMax, TypeOK, rankvars, diskvars, envvars

LEMMA ComputeStepType ==
  ASSUME TypeOK, NEW r \in Ranks, ComputeStep(r) PROVE TypeOK'
<1>1. pc' \in [Ranks -> Pcs]
  BY Labels, GotoType DEF ComputeStep
<1>2. fatal' \in [Ranks -> BOOLEAN]
  BY DEF ComputeStep, TypeOK
<1> QED BY <1>1, <1>2 DEF ComputeStep, TypeOK, rankvars, diskvars, envvars

LEMMA CheckSaveType ==
  ASSUME TypeOK, NEW r \in Ranks, CheckSave(r) PROVE TypeOK'
<1>1. pc' \in [Ranks -> Pcs]
  BY Labels, GotoType DEF CheckSave
<1>2. chan' \in [Ranks -> Seq(Message)]
  <2> DEFINE own == "SAVE" \in files
  <2>1. "save" \in Ops \ {"read"} /\ own \in BOOLEAN
    BY DEF Ops
  <2>2. PICK lsave : Bcast(r, "save", own, lsave)
    BY DEF CheckSave
  <2> HIDE DEF own
  <2> QED BY <2>1, <2>2, LogicalBcastType
<1>3. files' \subseteq ControlFiles \cup StatusFiles
  BY DEF CheckSave, Delete, TypeOK
<1>4. shift' \in [Ranks -> Int]
  <2>1. \A k \in Int : k % Isave \in Int
    BY ConstAssumption
  <2>2. ((it[r] + Isave - shift[r]) % Isave) + shift[r] \in Int
    BY <2>1, ConstAssumption, SMTT(20) DEF TypeOK
  <2> QED BY <2>2 DEF CheckSave, TypeOK
<1> QED BY <1>1, <1>2, <1>3, <1>4 DEF CheckSave, TypeOK, rankvars, diskvars, envvars

LEMMA OpenSnapshotType ==
  ASSUME TypeOK, NEW r \in Ranks, OpenSnapshot(r) PROVE TypeOK'
<1>1. pc' \in [Ranks -> Pcs]
  BY Labels, GotoType DEF OpenSnapshot
<1>2. vardat' \in [Ranks -> Nat \cup {Torn}]
  BY DEF OpenSnapshot, TypeOK
<1> QED BY <1>1, <1>2 DEF OpenSnapshot, TypeOK, rankvars, diskvars, envvars

LEMMA WriteSnapshotType ==
  ASSUME TypeOK, NEW r \in Ranks, WriteSnapshot(r) PROVE TypeOK'
<1>1. pc' \in [Ranks -> Pcs]
  BY Labels, GotoType DEF WriteSnapshot
<1>2. vardat' \in [Ranks -> Nat \cup {Torn}]
  BY DEF WriteSnapshot, TypeOK
<1> QED BY <1>1, <1>2 DEF WriteSnapshot, TypeOK, rankvars, diskvars, envvars

LEMMA CheckDtMinType ==
  ASSUME TypeOK, NEW r \in Ranks, CheckDtMin(r) PROVE TypeOK'
<1>1. pc' \in [Ranks -> Pcs] /\ left' \in [Ranks -> Reasons]
  <2>1. CASE Leave(r, "dtmin")
    BY <2>1, LeaveType DEF Reasons
  <2>2. CASE Goto(r, IF MaxWall THEN "wall" ELSE "collect") /\ UNCHANGED left
    BY <2>2, Labels, GotoType DEF TypeOK
  <2> QED BY <2>1, <2>2 DEF CheckDtMin
<1>2. lastsnap' \in [Ranks -> BOOLEAN]
  BY DEF CheckDtMin, TypeOK
<1> QED BY <1>1, <1>2 DEF CheckDtMin, TypeOK, rankvars, diskvars, envvars

LEMMA CheckWallTimeType ==
  ASSUME TypeOK, NEW r \in Ranks, CheckWallTime(r) PROVE TypeOK'
<1>1. pc' \in [Ranks -> Pcs] /\ left' \in [Ranks -> Reasons]
  <2>1. CASE Leave(r, "wall")
    BY <2>1, LeaveType DEF Reasons
  <2>2. CASE Goto(r, "collect") /\ UNCHANGED left
    BY <2>2, Labels, GotoType DEF TypeOK
  <2> QED BY <2>1, <2>2 DEF CheckWallTime
<1>2. chan' \in [Ranks -> Seq(Message)]
  <2>1. "wall" \in Ops \ {"read"}
    BY DEF Ops
  <2> QED BY <2>1, LogicalBcastType DEF CheckWallTime
<1> QED BY <1>1, <1>2 DEF CheckWallTime, TypeOK, rankvars, diskvars, envvars

LEMMA FinishRunType ==
  ASSUME TypeOK, NEW r \in Ranks, FinishRun(r) PROVE TypeOK'
<1>1. pc' \in [Ranks -> Pcs]
  BY Labels, GotoType DEF FinishRun
<1>2. files' \subseteq ControlFiles \cup StatusFiles
  BY DEF FinishRun, StatusFiles, TypeOK
<1> QED BY <1>1, <1>2 DEF FinishRun, TypeOK, rankvars, diskvars, envvars

LEMMA DieGracefullyType ==
  ASSUME TypeOK, NEW r \in Ranks, DieGracefully(r) PROVE TypeOK'
<1>1. pc' \in [Ranks -> Pcs]
  BY Labels, GotoType DEF DieGracefully
<1>2. files' \subseteq ControlFiles \cup StatusFiles
  BY DEF DieGracefully, StatusFiles, TypeOK
<1> QED BY <1>1, <1>2 DEF DieGracefully, TypeOK, rankvars, diskvars, envvars

LEMMA ReadSnapshotType ==
  ASSUME TypeOK, ReadSnapshot PROVE TypeOK'
<1>1. pc' \in [Ranks -> Pcs]
  BY Labels DEF ReadSnapshot
<1>2. CASE t' = t
  BY <1>1, <1>2 DEF ReadSnapshot, TypeOK, rankvars, diskvars, envvars
<1>3. CASE t' # t
  <2>1. \A r \in Ranks : vardat[r] \in Nat
    BY <1>3 DEF ReadSnapshot, TypeOK
  <2>2. t' \in [Ranks -> Nat]
    BY <1>3, <2>1 DEF ReadSnapshot
  <2> QED BY <1>1, <2>2 DEF ReadSnapshot, TypeOK, rankvars, diskvars, envvars
<1> QED BY <1>2, <1>3

LEMMA SetDtType ==
  ASSUME TypeOK, SetDt PROVE TypeOK'
<1>1. pc' \in [Ranks -> Pcs]
  BY Labels DEF SetDt
<1>2. dt' \in [Ranks -> Nat] /\ t' \in [Ranks -> Nat]
  BY ConstAssumption DEF SetDt, TypeOK
<1> QED BY <1>1, <1>2 DEF SetDt, TypeOK, rankvars, diskvars, envvars

LEMMA UpdateGhostsType ==
  ASSUME TypeOK, UpdateGhosts PROVE TypeOK'
<1>1. pc' \in [Ranks -> Pcs]
  BY Labels DEF UpdateGhosts
<1> QED BY <1>1 DEF UpdateGhosts, TypeOK, rankvars, diskvars, envvars

LEMMA CollectErrorsType ==
  ASSUME TypeOK, CollectErrors PROVE TypeOK'
<1>1. pc' \in [Ranks -> Pcs]
  BY Labels DEF CollectErrors
<1>2. it' \in [Ranks -> Nat \ {0}]
  <2>1. [r \in Ranks |-> it[r] + 1] \in [Ranks -> Nat \ {0}]
    BY DEF TypeOK
  <2> QED BY <2>1 DEF CollectErrors, TypeOK
<1>3. fatal' \in [Ranks -> BOOLEAN]
  BY DEF CollectErrors, TypeOK
<1> QED BY <1>1, <1>2, <1>3 DEF CollectErrors, TypeOK, rankvars, diskvars, envvars

LEMMA MpiFinalizeType ==
  ASSUME TypeOK, MpiFinalize PROVE TypeOK'
<1>1. pc' \in [Ranks -> Pcs]
  BY Labels DEF MpiFinalize
<1> QED BY <1>1 DEF MpiFinalize, TypeOK, rankvars, diskvars, envvars

LEMMA EnvironmentType ==
  ASSUME TypeOK, Environment PROVE TypeOK'
<1>1. ASSUME NEW f \in ControlFiles, Touch(f) PROVE TypeOK'
  <2>1. files' \subseteq ControlFiles \cup StatusFiles
    BY <1>1 DEF Touch, TypeOK
  <2>2. runin' \in DOMAIN NtOf
    <3>1. Len(NtOf) \in Nat \ {0} /\ DOMAIN NtOf = 1 .. Len(NtOf)
      BY ConstAssumption, EmptySeq, LenProperties
    <3>2. \A k \in Nat, n \in Nat \ {0} : k % n \in 0 .. n - 1
      OBVIOUS
    <3>3. runin \in Nat
      BY <3>1 DEF TypeOK
    <3>4. (runin % Len(NtOf)) + 1 \in DOMAIN NtOf
      BY <3>1, <3>2, <3>3
    <3> QED BY <1>1, <3>4 DEF Touch, TypeOK
  <2>3. touches' \in Nat /\ stopAt' \in Nat
    BY <1>1, RootIsRank DEF Touch, TypeOK
  <2> QED BY <1>1, <2>1, <2>2, <2>3 DEF Touch, TypeOK, rankvars
<1>2. ASSUME NEW r \in Ranks, Signal(r) PROVE TypeOK'
  <2>1. emergency' \in [Ranks -> BOOLEAN]
    BY <1>2 DEF Signal, TypeOK
  <2> QED BY <1>2, <2>1 DEF Signal, TypeOK, diskvars, envvars
<1>3. CASE Kill
  <2>1. pc' \in [Ranks -> Pcs]
    BY <1>3, Labels DEF Kill
  <2> QED BY <1>3, <2>1 DEF Kill, TypeOK, diskvars, envvars
<1>4. CASE Launch
  <2> USE <1>4, ConstAssumption DEF Launch, TypeOK
  <2>1. pc' \in [Ranks -> Pcs] /\ left' \in [Ranks -> Reasons]
    BY Labels DEF Reasons
  <2>2. it' \in [Ranks -> Nat \ {0}] /\ t' \in [Ranks -> Nat] /\ dt' \in [Ranks -> Nat]
    OBVIOUS
  <2>3. onemore' \in [Ranks -> BOOLEAN] /\ fatal' \in [Ranks -> BOOLEAN]
    OBVIOUS
  <2>4. emergency' \in [Ranks -> BOOLEAN] /\ lastsnap' \in [Ranks -> BOOLEAN]
    OBVIOUS
  <2>5. shift' \in [Ranks -> Int] /\ pars' \in [Ranks -> DOMAIN NtOf]
    OBVIOUS
  <2>6. chan' \in [Ranks -> Seq(Message)]
    OBVIOUS
  <2>7. files' \subseteq ControlFiles \cup StatusFiles
    OBVIOUS
  <2>8. touches' \in Nat /\ runs' \in Nat /\ stopAt' \in Nat
    OBVIOUS
  <2>9. vardat' \in [Ranks -> Nat \cup {Torn}] /\ runin' \in DOMAIN NtOf
    OBVIOUS
  <2> QED BY <2>1, <2>2, <2>3, <2>4, <2>5, <2>6, <2>7, <2>8, <2>9
<1> QED BY <1>1, <1>2, <1>3, <1>4 DEF Environment

LEMMA RankStepType ==
  ASSUME TypeOK, NEW r \in Ranks, RankStep(r) PROVE TypeOK'
BY LoopTopType, CheckStopType, CheckResubmitType, CheckReloadType,
   ReadRunParsType, RemoveReloadType, CheckTMaxType, ComputeStepType,
   CheckSaveType, OpenSnapshotType, WriteSnapshotType, CheckDtMinType,
   CheckWallTimeType, FinishRunType, DieGracefullyType DEF RankStep

LEMMA JointStepType ==
  ASSUME TypeOK, JointStep PROVE TypeOK'
BY ReadSnapshotType, SetDtType, UpdateGhostsType, CollectErrorsType,
   MpiFinalizeType DEF JointStep

\* Every variable of run.x keeps its type and range: var.dat holds a time or is
\* torn, no step is numbered below 1, a message is what its receiver expects.
THEOREM TypeCorrect == Spec => []TypeOK
<1>1. TypeOK /\ [Next]_vars => TypeOK'
  <2> SUFFICES ASSUME TypeOK, [Next]_vars PROVE TypeOK'
    OBVIOUS
  <2>1. CASE UNCHANGED vars
    BY <2>1 DEF vars, rankvars, diskvars, envvars, TypeOK
  <2>2. CASE Terminated
    BY <2>1, <2>2 DEF Terminated
  <2> QED BY <2>1, <2>2, RankStepType, JointStepType, EnvironmentType DEF Next
<1> QED BY <1>1, InitType, PTL DEF Spec
-----------------------------------------------------------------------------
(***************************************************************************)
(* One time for all ranks, and a final var.dat of that time.               *)
(***************************************************************************)
\* The step of one rank changes no time, nothing of another rank, saves no rank
\* from dying, and comes to the final steps through WriteSnapshot only.
Keeps(r) ==
  /\ UNCHANGED t
  /\ \A q \in Ranks \ {r} :
       pc'[q] = pc[q] /\ lastsnap'[q] = lastsnap[q] /\ vardat'[q] = vardat[q]
  /\ pc[r] \in DyingPc => pc'[r] \in DyingPc
  /\ pc'[r] \in OverPc /\ lastsnap'[r] => vardat'[r] = t[r]

LEMMA RankKeeps ==
  ASSUME SnapInv, NEW r \in Ranks, RankStep(r) PROVE Keeps(r)
<1> USE DEF SnapInv, TypeOK, Keeps, DyingPc, OverPc, Goto, Leave, diskvars
<1>1. CASE LoopTop(r)
  BY <1>1 DEF LoopTop
<1>2. CASE CheckStop(r)
  BY <1>2 DEF CheckStop
<1>3. CASE CheckResubmit(r)
  BY <1>3 DEF CheckResubmit
<1>4. CASE CheckReload(r)
  BY <1>4 DEF CheckReload
<1>5. CASE ReadRunPars(r)
  BY <1>5 DEF ReadRunPars
<1>6. CASE RemoveReload(r)
  BY <1>6 DEF RemoveReload
<1>7. CASE CheckTMax(r)
  BY <1>7 DEF CheckTMax
<1>8. CASE ComputeStep(r)
  BY <1>8 DEF ComputeStep
<1>9. CASE CheckSave(r)
  BY <1>9 DEF CheckSave
<1>10. CASE OpenSnapshot(r)
  BY <1>10 DEF OpenSnapshot
<1>11. CASE WriteSnapshot(r)
  BY <1>11 DEF WriteSnapshot
<1>12. CASE CheckDtMin(r)
  BY <1>12 DEF CheckDtMin
<1>13. CASE CheckWallTime(r)
  BY <1>13 DEF CheckWallTime
<1>14. CASE FinishRun(r)
  BY <1>14 DEF FinishRun, Written
<1>15. CASE DieGracefully(r)
  BY <1>15 DEF DieGracefully
<1> QED BY <1>1, <1>2, <1>3, <1>4, <1>5, <1>6, <1>7, <1>8,
           <1>9, <1>10, <1>11, <1>12, <1>13, <1>14, <1>15 DEF RankStep

LEMMA RankStepSnap ==
  ASSUME SnapInv, NEW r \in Ranks, RankStep(r) PROVE OneTime' /\ Written'
<1>1. Keeps(r)
  BY RankKeeps
<1>2. OneTime'
  BY <1>1 DEF Keeps, SnapInv, OneTime
<1>3. Written'
  BY <1>1 DEF Keeps, SnapInv, Written
<1> QED BY <1>2, <1>3

LEMMA JointStepSnap ==
  ASSUME SnapInv, JointStep PROVE OneTime' /\ Written'
<1> USE RootIsRank DEF SnapInv, OneTime, Written, DyingPc, OverPc
<1>1. CASE ReadSnapshot
  <2>1. CASE pc' = [r \in Ranks |-> "top"]
    BY <1>1, <2>1 DEF ReadSnapshot
  <2>2. CASE pc' # [r \in Ranks |-> "top"]
    BY <1>1, <2>2 DEF ReadSnapshot
  <2> QED BY <2>1, <2>2
<1>2. CASE SetDt
  BY <1>2 DEF SetDt
<1>3. CASE UpdateGhosts
  BY <1>3 DEF UpdateGhosts, diskvars
<1>4. CASE CollectErrors
  BY <1>4 DEF CollectErrors, diskvars
<1>5. CASE MpiFinalize
  BY <1>5 DEF MpiFinalize, diskvars
<1> QED BY <1>1, <1>2, <1>3, <1>4, <1>5 DEF JointStep

LEMMA EnvironmentSnap ==
  ASSUME SnapInv, Environment PROVE OneTime' /\ Written'
<1> USE DEF SnapInv, OneTime, Written, DyingPc, OverPc
<1>1. ASSUME NEW f \in ControlFiles, Touch(f) PROVE OneTime' /\ Written'
  BY <1>1 DEF Touch, rankvars
<1>2. ASSUME NEW r \in Ranks, Signal(r) PROVE OneTime' /\ Written'
  BY <1>2 DEF Signal, diskvars
<1>3. CASE Kill
  BY <1>3 DEF Kill, diskvars
<1>4. CASE Launch
  BY <1>4 DEF Launch
<1> QED BY <1>1, <1>2, <1>3, <1>4 DEF Environment

LEMMA SnapInvariance == Spec => []SnapInv
<1>1. Init => SnapInv
  <2>1. Init => OneTime /\ Written
    BY DEF Init, OneTime, Written, OverPc
  <2> QED BY <2>1, InitType DEF SnapInv
<1>2. SnapInv /\ TypeOK' /\ [Next]_vars => SnapInv'
  <2> SUFFICES ASSUME SnapInv, TypeOK', [Next]_vars PROVE OneTime' /\ Written'
    BY DEF SnapInv
  <2>1. CASE UNCHANGED vars
    BY <2>1 DEF vars, rankvars, diskvars, SnapInv, OneTime, Written
  <2>2. CASE Terminated
    BY <2>1, <2>2 DEF Terminated
  <2> QED BY <2>1, <2>2, RankStepSnap, JointStepSnap, EnvironmentSnap DEF Next
<1> QED BY <1>1, <1>2, TypeCorrect, PTL DEF Spec

\* A job that ends by itself with save_lastsnap leaves var.dat files that are
\* whole and all bear the last time.
THEOREM FinalSnapshot == Spec => []FinalSnapshotConsistent
<1>1. SnapInv => FinalSnapshotConsistent
  BY RootIsRank DEF SnapInv, OneTime, Written, FinalSnapshotConsistent, DyingPc, OverPc
<1> QED BY <1>1, SnapInvariance, PTL
-----------------------------------------------------------------------------
(***************************************************************************)
(* The ranks do the same: what a rank comes to when it has read the        *)
(* broadcasts on their way to it is what the root has come to.             *)
(***************************************************************************)
\* What the ranks have to agree on.
View(r) ==
  [pc |-> pc[r], it |-> it[r], t |-> t[r], dt |-> dt[r], onemore |-> onemore[r],
   lastsnap |-> lastsnap[r], shift |-> shift[r], pars |-> pars[r], left |-> left[r]]

\* Out of the loop, and on to the reduction of set_dt.
Out(v, why, snap) == [v EXCEPT !.pc = "ghosts", !.left = why, !.lastsnap = snap]
Stepping(v, l, more) == [v EXCEPT !.pc = l, !.onemore = more]

\* A rank with the view v comes, by its own steps alone, to the next call that may wait.
FromTMax(v) ==
  IF v.t >= TMax /\ (v.onemore \/ ~OutputDue(v.it, v.t))
  THEN Out(v, "tmax", v.lastsnap)
  ELSE Stepping(v, "setdt", IF v.t >= TMax THEN TRUE ELSE v.onemore)
FromTop(v) ==
  IF v.it > NtOf[v.pars] THEN Out(v, "nt", v.lastsnap)
  ELSE IF LOut(v.it) THEN [v EXCEPT !.pc = "stop"] ELSE FromTMax(v)
FromDtMin(v) ==
  IF v.it < NtOf[v.pars] /\ v.dt < DtMin
  THEN Out(v, "dtmin", FALSE)
  ELSE [v EXCEPT !.pc = IF MaxWall THEN "wall" ELSE "collect"]
Comes(v) ==
  CASE v.pc = "top"   -> FromTop(v)
    [] v.pc = "tmax"  -> FromTMax(v)
    [] v.pc = "step"  -> [v EXCEPT !.pc = "setdt"]
    [] v.pc = "dtmin" -> FromDtMin(v)
    [] v.pc \in {"open", "write"} ->
         IF v.left = "no" THEN FromDtMin(v) ELSE [v EXCEPT !.pc = "finalize"]
    [] v.pc = "finish" -> [v EXCEPT !.pc = "finalize"]
    [] v.pc = "die"    -> [v EXCEPT !.pc = "dying"]
    [] OTHER -> v

\* ... and goes on from a broadcast that says m.
After(v, m) ==
  CASE v.pc = "stop"     -> [v EXCEPT !.pc = IF m THEN "resubmit" ELSE "reload"]
    [] v.pc = "resubmit" -> Out(v, "stop", v.lastsnap)
    [] v.pc = "reload"   -> [v EXCEPT !.pc = IF m THEN "read" ELSE "tmax"]
    [] v.pc = "read"     -> [v EXCEPT !.pc = "unreload", !.pars = m, !.dt = 0]
    [] v.pc = "unreload" -> [v EXCEPT !.pc = "tmax"]
    [] v.pc = "save"     ->
         [v EXCEPT !.pc = IF m \/ (v.it - v.shift) % Isave = 0 THEN "ghosts" ELSE "dtmin",
                   !.shift = IF m THEN ((v.it + Isave - v.shift) % Isave) + v.shift ELSE v.shift]
    [] v.pc = "wall"     -> IF m THEN Out(v, "wall", v.lastsnap)
                            ELSE [v EXCEPT !.pc = "collect"]
    [] OTHER -> v

\* From a, the messages ch lead to b.
Leads(a, ch, b) ==
  \E path : /\ path[0] = a /\ path[Len(ch)] = b
            /\ \A j \in 1 .. Len(ch) : /\ path[j - 1].pc = ch[j].op
                                       /\ path[j] = Comes(After(path[j - 1], ch[j].val))

Follows(r) == Leads(Comes(View(r)), chan[r], Comes(View(Root)))

LEMMA LeadsNowhere == ASSUME NEW a PROVE Leads(a, <<>>, a)
<1> DEFINE path == [j \in {0} |-> a]
<1>1. path[0] = a /\ Len(<<>>) = 0
  OBVIOUS
<1>2. path[Len(<<>>)] = a /\ 1 .. Len(<<>>) = {}
  BY <1>1
<1> HIDE DEF path
<1> QED
  BY <1>1, <1>2 DEF Leads

LEMMA LeadsFirst ==
  ASSUME NEW a, NEW b, NEW ch \in Seq(Message), ch # <<>>, Leads(a, ch, b)
  PROVE  /\ a.pc = Head(ch).op /\ Head(ch) \in Message
         /\ Leads(Comes(After(a, Head(ch).val)), Tail(ch), b)
<1>1. PICK path : /\ path[0] = a /\ path[Len(ch)] = b
                  /\ \A j \in 1 .. Len(ch) : /\ path[j - 1].pc = ch[j].op
                                             /\ path[j] = Comes(After(path[j - 1], ch[j].val))
  BY DEF Leads
<1>2. /\ Len(ch) \in Nat /\ Len(ch) >= 1 /\ Head(ch) = ch[1] /\ Head(ch) \in Message
      /\ Len(Tail(ch)) = Len(ch) - 1 /\ \A j \in 1 .. Len(ch) - 1 : Tail(ch)[j] = ch[j + 1]
  BY HeadTailProperties, LenProperties, EmptySeq
<1>3. a.pc = Head(ch).op /\ path[1] = Comes(After(a, Head(ch).val))
  <2>1. 1 \in 1 .. Len(ch) /\ 1 - 1 = 0
    BY <1>2
  <2> QED
    BY <1>1, <1>2, <2>1
<1> DEFINE rest == [j \in 0 .. Len(ch) - 1 |-> path[j + 1]]
<1>4. rest[0] = path[1] /\ rest[Len(Tail(ch))] = b
  BY <1>1, <1>2
<1>5. ASSUME NEW j \in 1 .. Len(Tail(ch))
      PROVE  /\ rest[j - 1].pc = Tail(ch)[j].op
             /\ rest[j] = Comes(After(rest[j - 1], Tail(ch)[j].val))
  <2>1. /\ j + 1 \in 1 .. Len(ch) /\ (j + 1) - 1 = j
        /\ rest[j - 1] = path[j] /\ rest[j] = path[j + 1] /\ Tail(ch)[j] = ch[j + 1]
    BY <1>2
  <2> HIDE DEF rest
  <2> QED
    BY <1>1, <2>1
<1> HIDE DEF rest
<1>6. Leads(path[1], Tail(ch), b)
  BY <1>4, <1>5 DEF Leads
<1> QED
  BY <1>2, <1>3, <1>6

LEMMA LeadsOn ==
  ASSUME NEW a, NEW b, NEW ch \in Seq(Message), NEW m \in Message, Leads(a, ch, b), b.pc = m.op
  PROVE  Leads(a, Append(ch, m), Comes(After(b, m.val)))
<1>1. PICK path : /\ path[0] = a /\ path[Len(ch)] = b
                  /\ \A j \in 1 .. Len(ch) : /\ path[j - 1].pc = ch[j].op
                                             /\ path[j] = Comes(After(path[j - 1], ch[j].val))
  BY DEF Leads
<1> DEFINE n    == Len(ch)
           e    == Comes(After(b, m.val))
           more == [j \in 0 .. n + 1 |-> IF j <= n THEN path[j] ELSE e]
           all  == Append(ch, m)
<1>2. /\ n \in Nat /\ Len(all) = n + 1 /\ all[n + 1] = m
      /\ \A j \in 1 .. n : all[j] = ch[j]
  BY AppendProperties, LenProperties
<1>3. /\ \A j \in 0 .. n : more[j] = path[j]
      /\ more[n + 1] = e
  BY <1>2
<1> HIDE DEF more, all, n
<1>4. ASSUME NEW j \in 1 .. n + 1
      PROVE  more[j - 1].pc = all[j].op /\ more[j] = Comes(After(more[j - 1], all[j].val))
  <2>1. CASE j = n + 1
    <3>1. more[j - 1] = b /\ more[j] = e /\ all[j] = m
      BY <1>1, <1>2, <1>3, <2>1 DEF n
    <3> QED
      BY <3>1
  <2>2. CASE j # n + 1
    <3>1. j \in 1 .. n /\ more[j - 1] = path[j - 1] /\ more[j] = path[j] /\ all[j] = ch[j]
      BY <1>2, <1>3, <2>2
    <3> QED
      BY <1>1, <3>1 DEF n
  <2> QED
    BY <2>1, <2>2
<1>5. more[0] = a /\ more[n + 1] = e
  BY <1>1, <1>2, <1>3
<1>6. Leads(a, all, e)
  BY <1>2, <1>4, <1>5 DEF Leads
<1> QED
  BY <1>6 DEF all

\* A rank that waits for nobody's broadcast has read all, and is where the root will be.
LEMMA LeadsNoFurther ==
  ASSUME NEW a, NEW b, NEW ch \in Seq(Message), Leads(a, ch, b), a.pc \notin BcastPc
  PROVE  ch = <<>> /\ a = b
<1>1. ch = <<>>
  <2>1. \A m \in Message : m.op \in BcastPc
    BY DEF Message, BcastPc, Ops
  <2> QED
    BY <2>1, LeadsFirst
<1> QED
  BY <1>1 DEF Leads

LEMMA FollowsNext ==
  ASSUME NEW r \in Ranks
  PROVE  Follows(r)' <=> Leads(Comes(View(r)'), chan'[r], Comes(View(Root)'))
BY DEF Follows

LEMMA Quiet ==
  ASSUME NEW v, v.pc \in BcastPc \cup SyncPc \cup EndedPc
  PROVE  Comes(v) = v
BY DEF Comes, BcastPc, Ops, SyncPc, EndedPc

\* The root's broadcast, as the root and as another rank sees it.
LEMMA RootBcast ==
  ASSUME NEW r \in Ranks, r # Root, Follows(r), TypeOK,
         NEW m \in Message, View(Root).pc = m.op,
         chan'[r] = Append(chan[r], m), View(r)' = View(r),
         View(Root)' = After(View(Root), m.val)
  PROVE  Follows(r)'
<1>1. Comes(View(Root)) = View(Root)
  <2>1. m.op \in BcastPc
    BY DEF Message, BcastPc, Ops
  <2> QED
    BY <2>1, Quiet
<1>2. chan[r] \in Seq(Message)
  BY DEF TypeOK
<1>3. Leads(Comes(View(r)), chan[r], View(Root))
  BY <1>1 DEF Follows
<1>4. Leads(Comes(View(r)), Append(chan[r], m), Comes(After(View(Root), m.val)))
  BY <1>2, <1>3, LeadsOn
<1> QED
  BY <1>4, FollowsNext

LEMMA Receipt ==
  ASSUME NEW r \in Ranks, Follows(r), TypeOK, View(r).pc \in BcastPc, chan[r] # <<>>,
         chan'[r] = Tail(chan[r]), View(Root)' = View(Root),
         View(r)' = After(View(r), Head(chan[r]).val)
  PROVE  Follows(r)'
<1>1. Comes(View(r)) = View(r)
  BY Quiet
<1>2. chan[r] \in Seq(Message)
  BY DEF TypeOK
<1>3. Leads(View(r), chan[r], Comes(View(Root)))
  BY <1>1 DEF Follows
<1>4. Leads(Comes(After(View(r), Head(chan[r]).val)), Tail(chan[r]), Comes(View(Root)))
  BY <1>2, <1>3, LeadsFirst
<1> QED
  BY <1>4, FollowsNext

\* A rank that has left the loop is past it: it receives no broadcast any more.
PastPc == {"ghosts", "open", "write", "finish", "finalize", "done", "killed"}
LeftPc == \A r \in Ranks : left[r] # "no" => pc[r] \in PastPc

\* A step of r alone shows nothing new of any other rank and tells no rank anything.
Local(r) ==
  /\ chan' = chan
  /\ \A q \in Ranks \ {r} : View(q)' = View(q)
  /\ Comes(View(r))' = Comes(View(r))
  /\ left'[r] # "no" => pc'[r] \in PastPc

Views == [pc : Pcs, it : Nat, t : Nat, dt : Nat, onemore : BOOLEAN, lastsnap : BOOLEAN,
          shift : Int, pars : DOMAIN NtOf, left : Reasons]

LEMMA ViewType ==
  ASSUME TypeOK, NEW r \in Ranks
  PROVE  /\ View(r) \in Views
         /\ View(r).pc = pc[r] /\ View(r).it = it[r] /\ View(r).t = t[r]
         /\ View(r).dt = dt[r] /\ View(r).onemore = onemore[r]
         /\ View(r).lastsnap = lastsnap[r] /\ View(r).shift = shift[r]
         /\ View(r).pars = pars[r] /\ View(r).left = left[r]
BY DEF TypeOK, View, Views

LEMMA ViewTypeNext ==
  ASSUME TypeOK', NEW r \in Ranks
  PROVE  /\ View(r)' \in Views
         /\ View(r)'.pc = pc'[r] /\ View(r)'.it = it'[r] /\ View(r)'.t = t'[r]
         /\ View(r)'.dt = dt'[r] /\ View(r)'.onemore = onemore'[r]
         /\ View(r)'.lastsnap = lastsnap'[r] /\ View(r)'.shift = shift'[r]
         /\ View(r)'.pars = pars'[r] /\ View(r)'.left = left'[r]
BY DEF TypeOK, View, Views

LEMMA OutIs ==
  ASSUME NEW v \in Views, NEW w \in Views, w.pc = "ghosts", w.it = v.it, w.t = v.t,
         w.dt = v.dt, w.onemore = v.onemore, w.shift = v.shift, w.pars = v.pars
  PROVE  w = Out(v, w.left, w.lastsnap)
BY DEF Views, Out

LEMMA SteppingIs ==
  ASSUME NEW v \in Views, NEW w \in Views, w.left = v.left, w.lastsnap = v.lastsnap,
         w.it = v.it, w.t = v.t, w.dt = v.dt, w.shift = v.shift, w.pars = v.pars
  PROVE  w = Stepping(v, w.pc, w.onemore)
BY DEF Views, Stepping

\* Where a rank comes to from the tests of tmax and dtmin does not depend on its label.
LEMMA OutOn ==
  ASSUME NEW v \in Views, NEW l, NEW x, NEW y
  PROVE  Out([v EXCEPT !.pc = l], x, y) = Out(v, x, y)
BY DEF Views, Out

LEMMA SteppingOn ==
  ASSUME NEW v \in Views, NEW l, NEW k, NEW x
  PROVE  Stepping([v EXCEPT !.pc = l], k, x) = Stepping(v, k, x)
BY DEF Views, Stepping

LEMMA Stepped ==
  ASSUME NEW v \in Views, NEW l, NEW k, NEW x
  PROVE  [Stepping(v, l, x) EXCEPT !.pc = k] = Stepping(v, k, x)
BY DEF Views, Stepping

LEMMA SteppedOver ==
  ASSUME NEW v \in Views, NEW w \in Views, w = Stepping(v, "step", TRUE)
  PROVE  [w EXCEPT !.pc = "setdt"] = Stepping(v, "setdt", TRUE)
BY DEF Views, Stepping

LEMMA Relabelled ==
  ASSUME NEW v \in Views, NEW l, NEW k
  PROVE  [[v EXCEPT !.pc = l] EXCEPT !.pc = k] = [v EXCEPT !.pc = k]
BY DEF Views

LEMMA FromTMaxOn ==
  ASSUME NEW v \in Views, NEW l PROVE FromTMax([v EXCEPT !.pc = l]) = FromTMax(v)
<1> DEFINE w == [v EXCEPT !.pc = l]
<1>1. w.t = v.t /\ w.onemore = v.onemore /\ w.it = v.it /\ w.lastsnap = v.lastsnap
  BY DEF Views
<1>2. ASSUME NEW k, NEW x, NEW y
      PROVE  Out(w, x, y) = Out(v, x, y) /\ Stepping(w, k, x) = Stepping(v, k, x)
  BY OutOn, SteppingOn
<1> HIDE DEF w
<1>3. FromTMax(w) = FromTMax(v)
  BY <1>1, <1>2 DEF FromTMax
<1> QED BY <1>3 DEF w

LEMMA FromDtMinOn ==
  ASSUME NEW v \in Views, NEW l PROVE FromDtMin([v EXCEPT !.pc = l]) = FromDtMin(v)
<1> DEFINE w == [v EXCEPT !.pc = l]
<1>1. w.it = v.it /\ w.pars = v.pars /\ w.dt = v.dt
  BY DEF Views
<1>2. ASSUME NEW x, NEW y PROVE Out(w, x, y) = Out(v, x, y)
  BY OutOn
<1>4. ASSUME NEW k PROVE [w EXCEPT !.pc = k] = [v EXCEPT !.pc = k]
  BY Relabelled
<1> HIDE DEF w
<1>3. FromDtMin(w) = FromDtMin(v)
  BY <1>1, <1>2, <1>4 DEF FromDtMin
<1> QED BY <1>3 DEF w

\* What only the joint steps, and the reading of run.in and SAVE, change.
Unmoved(r) == /\ it'[r] = it[r] /\ t'[r] = t[r] /\ dt'[r] = dt[r]
              /\ shift'[r] = shift[r] /\ pars'[r] = pars[r]

LEMMA LocalSteps ==
  ASSUME TypeOK, TypeOK', LeftPc, \A q \in Ranks : ~emergency[q], NEW r \in Ranks,
         \/ LoopTop(r) \/ CheckTMax(r) \/ ComputeStep(r) \/ OpenSnapshot(r)
         \/ WriteSnapshot(r) \/ CheckDtMin(r) \/ FinishRun(r) \/ DieGracefully(r)
  PROVE  Local(r)
<1>0. /\ View(r) \in Views
      /\ View(r).pc = pc[r] /\ View(r).it = it[r] /\ View(r).t = t[r]
      /\ View(r).dt = dt[r] /\ View(r).onemore = onemore[r]
      /\ View(r).pars = pars[r] /\ View(r).left = left[r] /\ View(r).lastsnap = lastsnap[r]
  BY ViewType
<1>1. CASE LoopTop(r)
  <2>1. chan' = chan /\ \A q \in Ranks \ {r} : View(q)' = View(q)
    BY <1>1 DEF LoopTop, View, TypeOK, Goto, Leave
  <2>2. left'[r] # "no" => pc'[r] \in PastPc
    BY <1>1 DEF LoopTop, TypeOK, Goto, Leave, LeftPc, PastPc
  <2>3. Comes(View(r)') = Comes(View(r))
    <3>1. CASE it[r] > NtOf[pars[r]]
      <4>0. /\ pc'[r] = "ghosts" /\ Unmoved(r)
            /\ onemore'[r] = onemore[r] /\ lastsnap'[r] = lastsnap[r] /\ left'[r] = "nt"
        BY <1>1, <3>1 DEF LoopTop, TypeOK, Goto, Leave, Unmoved
      <4>1. View(r)' = Out(View(r), "nt", lastsnap[r])
        <5>1. View(r)' = Out(View(r), View(r)'.left, View(r)'.lastsnap)
          BY <4>0, ViewType, ViewTypeNext, OutIs DEF Unmoved
        <5>2. View(r)'.left = "nt" /\ View(r)'.lastsnap = lastsnap[r]
          BY <4>0, ViewTypeNext DEF Unmoved
        <5> QED BY <5>1, <5>2, Zenon
      <4>2. pc[r] = "top"
        BY <1>1 DEF LoopTop
      <4>3. Comes(View(r)) = Out(View(r), "nt", lastsnap[r])
        BY <1>1, <3>1, <1>0, <4>2 DEF Comes, FromTop
      <4>4. Comes(View(r)') = View(r)'
        <5>1. View(r)'.pc \in BcastPc \cup SyncPc
          BY <4>0, ViewTypeNext DEF BcastPc, Ops, SyncPc, Unmoved
        <5> QED BY <5>1, Quiet
      <4> QED BY <4>1, <4>3, <4>4
    <3>2. CASE ~(it[r] > NtOf[pars[r]]) /\ LOut(it[r])
      <4>0. /\ pc'[r] = "stop" /\ Unmoved(r)
            /\ onemore'[r] = onemore[r] /\ lastsnap'[r] = lastsnap[r] /\ left'[r] = left[r]
        BY <1>1, <3>2 DEF LoopTop, TypeOK, Goto, Leave, Unmoved
      <4>1. View(r)' = [View(r) EXCEPT !.pc = "stop"]
        BY <4>0, ViewType, ViewTypeNext DEF Views, Unmoved
      <4>2. pc[r] = "top"
        BY <1>1 DEF LoopTop
      <4>3. Comes(View(r)) = [View(r) EXCEPT !.pc = "stop"]
        BY <1>1, <3>2, <1>0, <4>2 DEF Comes, FromTop
      <4>4. Comes(View(r)') = View(r)'
        <5>1. View(r)'.pc \in BcastPc \cup SyncPc
          BY <4>0, ViewTypeNext DEF BcastPc, Ops, SyncPc, Unmoved
        <5> QED BY <5>1, Quiet
      <4> QED BY <4>1, <4>3, <4>4
    <3>3. CASE ~(it[r] > NtOf[pars[r]]) /\ ~LOut(it[r])
      <4>0. /\ pc'[r] = "tmax" /\ Unmoved(r)
            /\ onemore'[r] = onemore[r] /\ lastsnap'[r] = lastsnap[r] /\ left'[r] = left[r]
        BY <1>1, <3>3 DEF LoopTop, TypeOK, Goto, Leave, Unmoved
      <4>1. View(r)' = [View(r) EXCEPT !.pc = "tmax"]
        BY <4>0, ViewType, ViewTypeNext DEF Views, Unmoved
      <4>2. pc[r] = "top"
        BY <1>1 DEF LoopTop
      <4>3. Comes(View(r)) = FromTMax(View(r))
        BY <1>1, <3>3, <1>0, <4>2 DEF Comes, FromTop
      <4>4. View(r)'.pc = "tmax"
        BY <4>0, ViewTypeNext DEF Unmoved
      <4>5. Comes(View(r)') = FromTMax(View(r)')
        BY <4>4 DEF Comes
      <4> QED BY <1>0, <4>1, <4>3, <4>5, FromTMaxOn
    <3> QED BY <3>1, <3>2, <3>3
  <2> QED BY <2>1, <2>2, <2>3 DEF Local
<1>2. CASE CheckTMax(r)
  <2>1. chan' = chan /\ \A q \in Ranks \ {r} : View(q)' = View(q)
    BY <1>2, SMTT(20) DEF CheckTMax, View, TypeOK, Goto, Leave
  <2>2. left'[r] # "no" => pc'[r] \in PastPc
    BY <1>2 DEF CheckTMax, TypeOK, Goto, Leave, LeftPc, PastPc
  <2>3. Comes(View(r)') = Comes(View(r))
    <3>1. CASE t[r] >= TMax /\ (onemore[r] \/ ~OutputDue(it[r], t[r]))
      <4>0. /\ pc'[r] = "ghosts" /\ Unmoved(r)
            /\ onemore'[r] = onemore[r] /\ lastsnap'[r] = lastsnap[r] /\ left'[r] = "tmax"
        BY <1>2, <3>1 DEF CheckTMax, TypeOK, Goto, Leave, Unmoved
      <4>1. View(r)' = Out(View(r), "tmax", lastsnap[r])
        <5>1. View(r)' = Out(View(r), View(r)'.left, View(r)'.lastsnap)
          BY <4>0, ViewType, ViewTypeNext, OutIs DEF Unmoved
        <5>2. View(r)'.left = "tmax" /\ View(r)'.lastsnap = lastsnap[r]
          BY <4>0, ViewTypeNext DEF Unmoved
        <5> QED BY <5>1, <5>2, Zenon
      <4>2. pc[r] = "tmax"
        BY <1>2 DEF CheckTMax
      <4>3. Comes(View(r)) = Out(View(r), "tmax", lastsnap[r])
        BY <1>2, <3>1, <1>0, <4>2 DEF Comes, FromTMax
      <4>4. Comes(View(r)') = View(r)'
        <5>1. View(r)'.pc \in BcastPc \cup SyncPc
          BY <4>0, ViewTypeNext DEF BcastPc, Ops, SyncPc, Unmoved
        <5> QED BY <5>1, Quiet
      <4> QED BY <4>1, <4>3, <4>4
    <3>2. CASE t[r] >= TMax /\ ~onemore[r] /\ OutputDue(it[r], t[r])
      <4>0. /\ pc'[r] = "step" /\ Unmoved(r)
            /\ onemore'[r] = TRUE /\ lastsnap'[r] = lastsnap[r] /\ left'[r] = left[r]
        BY <1>2, <3>2 DEF CheckTMax, TypeOK, Goto, Leave, Unmoved
      <4>1. View(r)' = Stepping(View(r), "step", TRUE)
        <5>1. View(r)' = Stepping(View(r), View(r)'.pc, View(r)'.onemore)
          BY <4>0, ViewType, ViewTypeNext, SteppingIs DEF Unmoved
        <5>2. View(r)'.pc = "step" /\ View(r)'.onemore = TRUE
          BY <4>0, ViewTypeNext DEF Unmoved
        <5> QED BY <5>1, <5>2, Zenon
      <4>2. pc[r] = "tmax"
        BY <1>2 DEF CheckTMax
      <4>3. Comes(View(r)) = Stepping(View(r), "setdt", TRUE)
        BY <1>2, <3>2, <1>0, <4>2 DEF Comes, FromTMax
      <4>4. View(r)'.pc = "step"
        BY <4>0, ViewTypeNext DEF Unmoved
      <4>5. Comes(View(r)') = [View(r)' EXCEPT !.pc = "setdt"]
        BY <4>4 DEF Comes
      <4>6. View(r) \in Views /\ View(r)' \in Views
        BY ViewType, ViewTypeNext
      <4>7. [View(r)' EXCEPT !.pc = "setdt"] = Stepping(View(r), "setdt", TRUE)
        BY <4>1, <4>6, SteppedOver
      <4> QED BY <4>3, <4>5, <4>7
    <3>3. CASE ~(t[r] >= TMax)
      <4>0. /\ pc'[r] = "step" /\ Unmoved(r)
            /\ onemore'[r] = onemore[r] /\ lastsnap'[r] = lastsnap[r] /\ left'[r] = left[r]
        BY <1>2, <3>3 DEF CheckTMax, TypeOK, Goto, Leave, Unmoved
      <4>1. View(r)' = Stepping(View(r), "step", onemore[r])
        <5>1. View(r)' = Stepping(View(r), View(r)'.pc, View(r)'.onemore)
          BY <4>0, ViewType, ViewTypeNext, SteppingIs DEF Unmoved
        <5>2. View(r)'.pc = "step" /\ View(r)'.onemore = onemore[r]
          BY <4>0, ViewTypeNext DEF Unmoved
        <5> QED BY <5>1, <5>2, Zenon
      <4>2. pc[r] = "tmax"
        BY <1>2 DEF CheckTMax
      <4>3. Comes(View(r)) = Stepping(View(r), "setdt", onemore[r])
        BY <1>2, <3>3, <1>0, <4>2 DEF Comes, FromTMax
      <4>4. View(r)'.pc = "step"
        BY <4>0, ViewTypeNext DEF Unmoved
      <4>5. Comes(View(r)') = [View(r)' EXCEPT !.pc = "setdt"]
        BY <4>4 DEF Comes
      <4> QED BY <1>0, <4>1, <4>3, <4>5, Stepped
    <3> QED BY <3>1, <3>2, <3>3
  <2> QED BY <2>1, <2>2, <2>3 DEF Local
<1>3. CASE ComputeStep(r)
  <2>1. chan' = chan /\ \A q \in Ranks \ {r} : View(q)' = View(q)
    BY <1>3 DEF ComputeStep, View, TypeOK, Goto, Leave
  <2>2. left'[r] # "no" => pc'[r] \in PastPc
    BY <1>3 DEF ComputeStep, TypeOK, Goto, Leave, LeftPc, PastPc
  <2>3. Comes(View(r)') = Comes(View(r))
    <3>0. /\ pc'[r] = "setdt" /\ Unmoved(r)
          /\ onemore'[r] = onemore[r] /\ lastsnap'[r] = lastsnap[r] /\ left'[r] = left[r]
      BY <1>3 DEF ComputeStep, TypeOK, Goto, Leave, Unmoved
    <3>1. View(r)' = [View(r) EXCEPT !.pc = "setdt"]
      BY <3>0, ViewType, ViewTypeNext DEF Views, Unmoved
    <3>2. pc[r] = "step"
      BY <1>3 DEF ComputeStep
    <3>3. Comes(View(r)) = [View(r) EXCEPT !.pc = "setdt"]
      BY <1>3, <1>0, <3>2 DEF Comes
    <3>4. Comes(View(r)') = View(r)'
      <4>1. View(r)'.pc \in BcastPc \cup SyncPc
        BY <3>0, ViewTypeNext DEF BcastPc, Ops, SyncPc, Unmoved
      <4> QED BY <4>1, Quiet
    <3> QED BY <3>1, <3>3, <3>4
  <2> QED BY <2>1, <2>2, <2>3 DEF Local
<1>4. CASE OpenSnapshot(r)
  <2>1. chan' = chan /\ \A q \in Ranks \ {r} : View(q)' = View(q)
    BY <1>4 DEF OpenSnapshot, View, TypeOK, Goto, Leave
  <2>2. left'[r] # "no" => pc'[r] \in PastPc
    BY <1>4 DEF OpenSnapshot, TypeOK, Goto, Leave, LeftPc, PastPc
  <2>3. Comes(View(r)') = Comes(View(r))
    <3>0. /\ pc'[r] = "write" /\ Unmoved(r)
          /\ onemore'[r] = onemore[r] /\ lastsnap'[r] = lastsnap[r] /\ left'[r] = left[r]
      BY <1>4 DEF OpenSnapshot, TypeOK, Goto, Leave, Unmoved
    <3>1. View(r)' = [View(r) EXCEPT !.pc = "write"]
      BY <3>0, ViewType, ViewTypeNext DEF Views, Unmoved
    <3>2. pc[r] = "open"
      BY <1>4 DEF OpenSnapshot
    <3>3. View(r)'.pc = "write" /\ View(r)'.left = left[r]
      BY <3>0, ViewTypeNext DEF Unmoved
    <3>4. CASE left[r] = "no"
      BY <1>0, <3>1, <3>2, <3>3, <3>4, FromDtMinOn DEF Comes
    <3>5. CASE left[r] # "no"
      <4>1. Comes(View(r)) = [View(r) EXCEPT !.pc = "finalize"]
        BY <1>0, <3>2, <3>5 DEF Comes
      <4>2. Comes(View(r)') = [View(r)' EXCEPT !.pc = "finalize"]
        BY <3>3, <3>5 DEF Comes
      <4> QED BY <1>0, <3>1, <4>1, <4>2, Relabelled
    <3> QED BY <3>4, <3>5
  <2> QED BY <2>1, <2>2, <2>3 DEF Local
<1>5. CASE WriteSnapshot(r)
  <2>1. chan' = chan /\ \A q \in Ranks \ {r} : View(q)' = View(q)
    BY <1>5 DEF WriteSnapshot, View, TypeOK, Goto, Leave
  <2>2. left'[r] # "no" => pc'[r] \in PastPc
    BY <1>5 DEF WriteSnapshot, TypeOK, Goto, Leave, LeftPc, PastPc
  <2>3. Comes(View(r)') = Comes(View(r))
    <3>1. CASE left[r] = "no"
      <4>0. /\ pc'[r] = "dtmin" /\ Unmoved(r)
            /\ onemore'[r] = onemore[r] /\ lastsnap'[r] = lastsnap[r] /\ left'[r] = left[r]
        BY <1>5, <3>1 DEF WriteSnapshot, TypeOK, Goto, Leave, Unmoved
      <4>1. View(r)' = [View(r) EXCEPT !.pc = "dtmin"]
        BY <4>0, ViewType, ViewTypeNext DEF Views, Unmoved
      <4>2. pc[r] = "write"
        BY <1>5 DEF WriteSnapshot
      <4>3. Comes(View(r)) = FromDtMin(View(r))
        BY <1>5, <3>1, <1>0, <4>2 DEF Comes
      <4>4. View(r)'.pc = "dtmin"
        BY <4>0, ViewTypeNext DEF Unmoved
      <4>5. Comes(View(r)') = FromDtMin(View(r)')
        BY <4>4 DEF Comes
      <4> QED BY <1>0, <4>1, <4>3, <4>5, FromDtMinOn
    <3>2. CASE left[r] # "no"
      <4>0. /\ pc'[r] = "finish" /\ Unmoved(r)
            /\ onemore'[r] = onemore[r] /\ lastsnap'[r] = lastsnap[r] /\ left'[r] = left[r]
        BY <1>5, <3>2 DEF WriteSnapshot, TypeOK, Goto, Leave, Unmoved
      <4>1. View(r)' = [View(r) EXCEPT !.pc = "finish"]
        BY <4>0, ViewType, ViewTypeNext DEF Views, Unmoved
      <4>2. pc[r] = "write"
        BY <1>5 DEF WriteSnapshot
      <4>3. Comes(View(r)) = [View(r) EXCEPT !.pc = "finalize"]
        BY <1>5, <3>2, <1>0, <4>2 DEF Comes
      <4>4. View(r)'.pc = "finish"
        BY <4>0, ViewTypeNext DEF Unmoved
      <4>5. Comes(View(r)') = [View(r)' EXCEPT !.pc = "finalize"]
        BY <4>4 DEF Comes
      <4> QED BY <1>0, <4>1, <4>3, <4>5, Relabelled
    <3> QED BY <3>1, <3>2
  <2> QED BY <2>1, <2>2, <2>3 DEF Local
<1>6. CASE CheckDtMin(r)
  <2>1. chan' = chan /\ \A q \in Ranks \ {r} : View(q)' = View(q)
    BY <1>6 DEF CheckDtMin, View, TypeOK, Goto, Leave
  <2>2. left'[r] # "no" => pc'[r] \in PastPc
    BY <1>6 DEF CheckDtMin, TypeOK, Goto, Leave, LeftPc, PastPc
  <2>3. Comes(View(r)') = Comes(View(r))
    <3>1. CASE it[r] < NtOf[pars[r]] /\ dt[r] < DtMin
      <4>0. /\ pc'[r] = "ghosts" /\ Unmoved(r)
            /\ onemore'[r] = onemore[r] /\ lastsnap'[r] = FALSE /\ left'[r] = "dtmin"
        BY <1>6, <3>1 DEF CheckDtMin, TypeOK, Goto, Leave, Unmoved
      <4>1. View(r)' = Out(View(r), "dtmin", FALSE)
        <5>1. View(r)' = Out(View(r), View(r)'.left, View(r)'.lastsnap)
          BY <4>0, ViewType, ViewTypeNext, OutIs DEF Unmoved
        <5>2. View(r)'.left = "dtmin" /\ View(r)'.lastsnap = FALSE
          BY <4>0, ViewTypeNext DEF Unmoved
        <5> QED BY <5>1, <5>2, Zenon
      <4>2. pc[r] = "dtmin"
        BY <1>6 DEF CheckDtMin
      <4>3. Comes(View(r)) = Out(View(r), "dtmin", FALSE)
        BY <1>6, <3>1, <1>0, <4>2 DEF Comes, FromDtMin
      <4>4. Comes(View(r)') = View(r)'
        <5>1. View(r)'.pc \in BcastPc \cup SyncPc
          BY <4>0, ViewTypeNext DEF BcastPc, Ops, SyncPc, Unmoved
        <5> QED BY <5>1, Quiet
      <4> QED BY <4>1, <4>3, <4>4
    <3>2. CASE ~(it[r] < NtOf[pars[r]] /\ dt[r] < DtMin)
      <4>0. /\ (pc'[r] = IF MaxWall THEN "wall" ELSE "collect") /\ Unmoved(r)
            /\ onemore'[r] = onemore[r] /\ lastsnap'[r] = lastsnap[r] /\ left'[r] = left[r]
        BY <1>6, <3>2 DEF CheckDtMin, TypeOK, Goto, Leave, Unmoved
      <4>1. View(r)' = [View(r) EXCEPT !.pc = IF MaxWall THEN "wall" ELSE "collect"]
        BY <4>0, ViewType, ViewTypeNext DEF Views, Unmoved
      <4>2. pc[r] = "dtmin"
        BY <1>6 DEF CheckDtMin
      <4>3. Comes(View(r)) = [View(r) EXCEPT !.pc = IF MaxWall THEN "wall" ELSE "collect"]
        BY <1>6, <3>2, <1>0, <4>2 DEF Comes, FromDtMin
      <4>4. Comes(View(r)') = View(r)'
        <5>1. View(r)'.pc \in BcastPc \cup SyncPc
          BY <4>0, ViewTypeNext DEF BcastPc, Ops, SyncPc, Unmoved
        <5> QED BY <5>1, Quiet
      <4> QED BY <4>1, <4>3, <4>4
    <3> QED BY <3>1, <3>2
  <2> QED BY <2>1, <2>2, <2>3 DEF Local
<1>7. CASE FinishRun(r)
  <2>1. chan' = chan /\ \A q \in Ranks \ {r} : View(q)' = View(q)
    BY <1>7 DEF FinishRun, View, TypeOK, Goto, Leave
  <2>2. left'[r] # "no" => pc'[r] \in PastPc
    BY <1>7 DEF FinishRun, TypeOK, Goto, Leave, LeftPc, PastPc
  <2>3. Comes(View(r)') = Comes(View(r))
    <3>0. /\ pc'[r] = "finalize" /\ Unmoved(r)
          /\ onemore'[r] = onemore[r] /\ lastsnap'[r] = lastsnap[r] /\ left'[r] = left[r]
      BY <1>7 DEF FinishRun, TypeOK, Goto, Leave, Unmoved
    <3>1. View(r)' = [View(r) EXCEPT !.pc = "finalize"]
      BY <3>0, ViewType, ViewTypeNext DEF Views, Unmoved
    <3>2. pc[r] = "finish"
      BY <1>7 DEF FinishRun
    <3>3. Comes(View(r)) = [View(r) EXCEPT !.pc = "finalize"]
      BY <1>7, <1>0, <3>2 DEF Comes
    <3>4. Comes(View(r)') = View(r)'
      <4>1. View(r)'.pc \in BcastPc \cup SyncPc
        BY <3>0, ViewTypeNext DEF BcastPc, Ops, SyncPc, Unmoved
      <4> QED BY <4>1, Quiet
    <3> QED BY <3>1, <3>3, <3>4
  <2> QED BY <2>1, <2>2, <2>3 DEF Local
<1>8. CASE DieGracefully(r)
  <2>1. chan' = chan /\ \A q \in Ranks \ {r} : View(q)' = View(q)
    BY <1>8 DEF DieGracefully, View, TypeOK, Goto, Leave
  <2>2. left'[r] # "no" => pc'[r] \in PastPc
    BY <1>8 DEF DieGracefully, TypeOK, Goto, Leave, LeftPc, PastPc
  <2>3. Comes(View(r)') = Comes(View(r))
    <3>0. /\ pc'[r] = "dying" /\ Unmoved(r)
          /\ onemore'[r] = onemore[r] /\ lastsnap'[r] = lastsnap[r] /\ left'[r] = left[r]
      BY <1>8 DEF DieGracefully, TypeOK, Goto, Leave, Unmoved
    <3>1. View(r)' = [View(r) EXCEPT !.pc = "dying"]
      BY <3>0, ViewType, ViewTypeNext DEF Views, Unmoved
    <3>2. pc[r] = "die"
      BY <1>8 DEF DieGracefully
    <3>3. Comes(View(r)) = [View(r) EXCEPT !.pc = "dying"]
      BY <1>8, <1>0, <3>2 DEF Comes
    <3>4. Comes(View(r)') = View(r)'
      <4>1. View(r)'.pc \in BcastPc \cup SyncPc
        BY <3>0, ViewTypeNext DEF BcastPc, Ops, SyncPc, Unmoved
      <4> QED BY <4>1, Quiet
    <3> QED BY <3>1, <3>3, <3>4
  <2> QED BY <2>1, <2>2, <2>3 DEF Local
<1> QED BY <1>1, <1>2, <1>3, <1>4, <1>5, <1>6, <1>7, <1>8

\* A step of r that ends in a broadcast.
Told(r) ==
  \E op, own, v :
     /\ op \in Ops /\ [op |-> op, val |-> own] \in Message
     /\ Bcast(r, op, own, v)
     /\ View(r).pc = op /\ View(r)' = After(View(r), v)
     /\ \A q \in Ranks \ {r} : View(q)' = View(q)
     /\ left'[r] # "no" => pc'[r] \in PastPc

LEMMA BcastSteps ==
  ASSUME TypeOK, TypeOK', LeftPc, \A q \in Ranks : ~emergency[q], NEW r \in Ranks,
         \/ CheckStop(r) \/ CheckResubmit(r) \/ CheckReload(r) \/ ReadRunPars(r)
         \/ RemoveReload(r) \/ CheckSave(r) \/ CheckWallTime(r)
  PROVE  Told(r)
<1> USE DEF TypeOK, LeftPc, PastPc, View, Goto, Leave, After
<1> DEFINE T(op, own, v) == /\ op \in Ops /\ [op |-> op, val |-> own] \in Message
                            /\ Bcast(r, op, own, v)
                            /\ View(r).pc = op /\ View(r)' = After(View(r), v)
                            /\ \A q \in Ranks \ {r} : View(q)' = View(q)
                            /\ left'[r] # "no" => pc'[r] \in PastPc
<1>0. ASSUME NEW op, NEW own, NEW v, T(op, own, v) PROVE Told(r)
  BY <1>0 DEF Told
<1>1. CASE CheckStop(r)
  <2> DEFINE own == "STOP" \in files
  <2>1. PICK v \in BOOLEAN : /\ Bcast(r, "stop", own, v)
                             /\ Goto(r, IF v \/ emergency[r] THEN "resubmit" ELSE "reload")
    BY <1>1 DEF CheckStop
  <2>2. /\ View(r).pc = "stop" /\ View(r)' = After(View(r), v)
      /\ (left'[r] # "no" => pc'[r] \in PastPc)
    BY <1>1, <2>1 DEF CheckStop
  <2>3. \A q \in Ranks \ {r} : View(q)' = View(q)
    BY <1>1, <2>1 DEF CheckStop
  <2>4. "stop" \in Ops /\ [op |-> "stop", val |-> own] \in Message
    <3>1. "stop" \in Ops \ {"read"} /\ own \in BOOLEAN
      BY DEF Ops
    <3> HIDE DEF own
    <3> QED BY <3>1, LogicalMessage
  <2> HIDE DEF own
  <2> QED BY <2>1, <2>2, <2>3, <2>4, <1>0
<1>2. CASE CheckResubmit(r)
  <2> DEFINE own == "RESUBMIT" \in files
  <2>1. PICK v \in BOOLEAN : Bcast(r, "resubmit", own, v)
    BY <1>2 DEF CheckResubmit
  <2>2. /\ View(r).pc = "resubmit" /\ View(r)' = After(View(r), v) /\ pc'[r] = "ghosts"
    <3>1. /\ pc[r] = "resubmit" /\ pc'[r] = "ghosts" /\ left'[r] = "stop" /\ Unmoved(r)
          /\ onemore'[r] = onemore[r] /\ lastsnap'[r] = lastsnap[r]
      BY <1>2 DEF CheckResubmit, Unmoved
    <3> HIDE DEF View, TypeOK
    <3>2. View(r)' = Out(View(r), View(r)'.left, View(r)'.lastsnap)
      BY <3>1, ViewType, ViewTypeNext, OutIs DEF Unmoved
    <3>3. /\ View(r).pc = "resubmit" /\ View(r)'.left = "stop"
          /\ View(r)'.lastsnap = View(r).lastsnap
      BY <3>1, ViewType, ViewTypeNext
    <3>4. View(r)' = Out(View(r), "stop", View(r).lastsnap)
      BY <3>2, <3>3, Zenon
    <3> QED BY <3>1, <3>3, <3>4
  <2>3. \A q \in Ranks \ {r} : View(q)' = View(q)
    BY <1>2, <2>1 DEF CheckResubmit
  <2>4. "resubmit" \in Ops /\ [op |-> "resubmit", val |-> own] \in Message
    <3>1. "resubmit" \in Ops \ {"read"} /\ own \in BOOLEAN
      BY DEF Ops
    <3> HIDE DEF own
    <3> QED BY <3>1, LogicalMessage
  <2> HIDE DEF own
  <2> QED BY <2>1, <2>2, <2>3, <2>4, <1>0
<1>3. CASE CheckReload(r)
  <2> DEFINE own == ReloadFiles \cap files # {}
  <2>1. PICK v \in BOOLEAN : /\ Bcast(r, "reload", own, v)
                             /\ Goto(r, IF v THEN "read" ELSE "tmax")
    BY <1>3 DEF CheckReload
  <2>2. /\ View(r).pc = "reload" /\ View(r)' = After(View(r), v)
      /\ (left'[r] # "no" => pc'[r] \in PastPc)
    BY <1>3, <2>1 DEF CheckReload
  <2>3. \A q \in Ranks \ {r} : View(q)' = View(q)
    BY <1>3, <2>1 DEF CheckReload
  <2>4. "reload" \in Ops /\ [op |-> "reload", val |-> own] \in Message
    <3>1. "reload" \in Ops \ {"read"} /\ own \in BOOLEAN
      BY DEF Ops
    <3> HIDE DEF own
    <3> QED BY <3>1, LogicalMessage
  <2> HIDE DEF own
  <2> QED BY <2>1, <2>2, <2>3, <2>4, <1>0
<1>4. CASE ReadRunPars(r)
  <2>1. PICK v \in DOMAIN NtOf : /\ Bcast(r, "read", runin, v)
                             /\ pars' = [pars EXCEPT ![r] = v]
    BY <1>4 DEF ReadRunPars
  <2>2. /\ View(r).pc = "read" /\ View(r)' = After(View(r), v)
      /\ (left'[r] # "no" => pc'[r] \in PastPc)
    BY <1>4, <2>1 DEF ReadRunPars
  <2>3. \A q \in Ranks \ {r} : View(q)' = View(q)
    BY <1>4, <2>1 DEF ReadRunPars
  <2>4. "read" \in Ops /\ [op |-> "read", val |-> runin] \in Message
    BY DEF Ops, Message
  <2> QED BY <2>1, <2>2, <2>3, <2>4, <1>0
<1>5. CASE RemoveReload(r)
  <2> DEFINE own == "RELOAD" \in files
  <2>1. PICK v \in BOOLEAN : Bcast(r, "unreload", own, v)
    BY <1>5 DEF RemoveReload
  <2>2. /\ View(r).pc = "unreload" /\ View(r)' = After(View(r), v)
      /\ (left'[r] # "no" => pc'[r] \in PastPc)
    BY <1>5, <2>1 DEF RemoveReload
  <2>3. \A q \in Ranks \ {r} : View(q)' = View(q)
    BY <1>5, <2>1 DEF RemoveReload
  <2>4. "unreload" \in Ops /\ [op |-> "unreload", val |-> own] \in Message
    <3>1. "unreload" \in Ops \ {"read"} /\ own \in BOOLEAN
      BY DEF Ops
    <3> HIDE DEF own
    <3> QED BY <3>1, LogicalMessage
  <2> HIDE DEF own
  <2> QED BY <2>1, <2>2, <2>3, <2>4, <1>0
<1>6. CASE CheckSave(r)
  <2> DEFINE own == "SAVE" \in files
  <2>1. PICK v \in BOOLEAN : /\ Bcast(r, "save", own, v)
                             /\ Goto(r, IF v \/ (it[r] - shift[r]) % Isave = 0
                                        THEN "ghosts" ELSE "dtmin")
                             /\ shift' = [shift EXCEPT ![r] =
                                  IF v THEN ((it[r] + Isave - @) % Isave) + @ ELSE @]
    BY <1>6 DEF CheckSave
  <2>2. /\ View(r).pc = "save" /\ View(r)' = After(View(r), v)
      /\ (left'[r] # "no" => pc'[r] \in PastPc)
    BY <1>6, <2>1 DEF CheckSave
  <2>3. \A q \in Ranks \ {r} : View(q)' = View(q)
    BY <1>6, <2>1 DEF CheckSave
  <2>4. "save" \in Ops /\ [op |-> "save", val |-> own] \in Message
    <3>1. "save" \in Ops \ {"read"} /\ own \in BOOLEAN
      BY DEF Ops
    <3> HIDE DEF own
    <3> QED BY <3>1, LogicalMessage
  <2> HIDE DEF own
  <2> QED BY <2>1, <2>2, <2>3, <2>4, <1>0
<1>7. CASE CheckWallTime(r)
  <2>1. PICK own \in BOOLEAN, v \in BOOLEAN :
          /\ Bcast(r, "wall", own, v)
          /\ IF v THEN Leave(r, "wall") ELSE Goto(r, "collect") /\ UNCHANGED left
    BY <1>7 DEF CheckWallTime
  <2>2. /\ View(r).pc = "wall" /\ View(r)' = After(View(r), v)
      /\ (left'[r] # "no" => pc'[r] \in PastPc)
    <3>1. /\ pc[r] = "wall" /\ Unmoved(r)
          /\ onemore'[r] = onemore[r] /\ lastsnap'[r] = lastsnap[r]
      BY <1>7 DEF CheckWallTime, Unmoved
    <3>2. CASE v
      <4>1. pc'[r] = "ghosts" /\ left'[r] = "wall"
        BY <1>7, <2>1, <3>2
      <4> HIDE DEF View, TypeOK
      <4>2. View(r)' = Out(View(r), View(r)'.left, View(r)'.lastsnap)
        BY <3>1, <4>1, ViewType, ViewTypeNext, OutIs DEF Unmoved
      <4>3. /\ View(r).pc = "wall" /\ View(r)'.left = "wall"
            /\ View(r)'.lastsnap = View(r).lastsnap
        BY <3>1, <4>1, ViewType, ViewTypeNext
      <4>4. View(r)' = Out(View(r), "wall", View(r).lastsnap)
        BY <4>2, <4>3, Zenon
      <4> QED BY <3>2, <4>1, <4>3, <4>4
    <3>3. CASE ~v
      BY <1>7, <2>1, <3>1, <3>3 DEF Unmoved
    <3> QED BY <3>2, <3>3
  <2>3. \A q \in Ranks \ {r} : View(q)' = View(q)
    BY <1>7, <2>1 DEF CheckWallTime
  <2>4. "wall" \in Ops /\ [op |-> "wall", val |-> own] \in Message
    <3>1. "wall" \in Ops \ {"read"}
      BY DEF Ops
    <3> QED BY <3>1, LogicalMessage
  <2> QED BY <2>1, <2>2, <2>3, <2>4, <1>0
<1> QED BY <1>1, <1>2, <1>3, <1>4, <1>5, <1>6, <1>7

(***************************************************************************)
(* The invariant: all ranks are killed, or all are dying of data of        *)
(* different times, or every rank follows the root.                        *)
(***************************************************************************)
AllKilled == (\A r \in Ranks : pc[r] = "killed") /\ LeaveTogether
AllDie    == \A r \in Ranks : pc[r] \in {"die", "dying", "dead"} /\ chan[r] = <<>> /\ left[r] = "no"
AllFollow == \A r \in Ranks : Follows(r)

Calm == (\A r \in Ranks : ~emergency[r]) /\ chan[Root] = <<>> /\ LeftPc
AgreeInv == /\ TypeOK /\ Calm
            /\ AllKilled \/ AllDie \/ AllFollow

LEMMA LocalFollows ==
  ASSUME TypeOK, TypeOK', Calm, AllFollow, NEW r \in Ranks, Local(r)
  PROVE  AllFollow' /\ LeftPc' /\ chan'[Root] = <<>>
<1>1. ASSUME NEW q \in Ranks PROVE Comes(View(q)') = Comes(View(q)) /\ chan'[q] = chan[q]
  BY DEF Local
<1>2. AllFollow'
  BY <1>1, FollowsNext, RootIsRank DEF AllFollow, Follows
<1>3. LeftPc'
  <2>1. ASSUME NEW q \in Ranks \ {r} PROVE pc'[q] = pc[q] /\ left'[q] = left[q]
    BY ViewType, ViewTypeNext DEF Local
  <2> QED BY <2>1 DEF Calm, LeftPc, Local
<1> QED BY <1>2, <1>3 DEF Calm, Local

LEMMA ToldFollows ==
  ASSUME TypeOK, TypeOK', Calm, AllFollow, NEW r \in Ranks, Told(r)
  PROVE  AllFollow' /\ LeftPc' /\ chan'[Root] = <<>>
<1>1. PICK op, own, v :
         /\ op \in Ops /\ [op |-> op, val |-> own] \in Message
         /\ Bcast(r, op, own, v)
         /\ View(r).pc = op /\ View(r)' = After(View(r), v)
         /\ \A q \in Ranks \ {r} : View(q)' = View(q)
         /\ left'[r] # "no" => pc'[r] \in PastPc
  BY DEF Told
<1>2. LeftPc'
  <2>1. ASSUME NEW q \in Ranks \ {r} PROVE pc'[q] = pc[q] /\ left'[q] = left[q]
    BY <1>1, ViewType, ViewTypeNext
  <2> QED BY <1>1, <2>1 DEF Calm, LeftPc
<1>3. CASE r = Root
  <2> DEFINE m == [op |-> op, val |-> own]
  <2>1. m \in Message /\ m.op = op /\ m.val = v /\ View(Root).pc = m.op
        /\ View(Root)' = After(View(Root), m.val)
    BY <1>1, <1>3 DEF Bcast
  <2>2. chan' = [s \in Ranks |-> IF s = Root THEN <<>> ELSE Append(chan[s], m)]
    BY <1>1, <1>3 DEF Bcast
  <2> HIDE DEF m
  <2>3. chan'[Root] = <<>>
    BY <2>2, RootIsRank
  <2>4. ASSUME NEW q \in Ranks PROVE Follows(q)'
    <3>1. CASE q = Root
      BY <2>3, <3>1, LeadsNowhere, FollowsNext
    <3>2. CASE q # Root
      <4>1. chan'[q] = Append(chan[q], m) /\ View(q)' = View(q) /\ Follows(q)
        BY <1>1, <1>3, <2>2, <3>2 DEF AllFollow
      <4> QED BY <2>1, <3>2, <4>1, RootBcast
    <3> QED BY <3>1, <3>2
  <2> QED BY <1>2, <2>3, <2>4 DEF AllFollow
<1>4. CASE r # Root
  <2>1. /\ chan[r] # <<>> /\ v = Head(chan[r]).val
        /\ chan' = [chan EXCEPT ![r] = Tail(@)]
    BY <1>1, <1>4 DEF Bcast
  <2>2. /\ chan'[r] = Tail(chan[r]) /\ \A q \in Ranks \ {r} : chan'[q] = chan[q]
        /\ View(Root)' = View(Root)
    BY <1>1, <1>4, <2>1, RootIsRank DEF TypeOK
  <2>3. ASSUME NEW q \in Ranks PROVE Follows(q)'
    <3>1. CASE q = r
      <4>1. View(r).pc \in BcastPc /\ Follows(r) /\ View(r)' = After(View(r), Head(chan[r]).val)
        BY <1>1, <2>1 DEF BcastPc, AllFollow
      <4> QED BY <2>1, <2>2, <3>1, <4>1, Receipt
    <3>2. CASE q # r
      <4>1. View(q)' = View(q) /\ chan'[q] = chan[q] /\ Follows(q)
        BY <1>1, <2>2, <3>2 DEF AllFollow
      <4> QED BY <2>2, <4>1, FollowsNext DEF Follows
    <3> QED BY <3>1, <3>2
  <2> QED BY <1>2, <1>4, <2>2, <2>3, RootIsRank DEF AllFollow, Calm
<1> QED BY <1>3, <1>4

\* Where all ranks wait for each other nothing is on its way, and all agree.
LEMMA SamePlace ==
  ASSUME TypeOK, AllFollow, \A r \in Ranks : pc[r] \in SyncPc
  PROVE  \A r \in Ranks : chan[r] = <<>> /\ View(r) = View(Root)
<1> SUFFICES ASSUME NEW r \in Ranks PROVE chan[r] = <<>> /\ View(r) = View(Root)
  OBVIOUS
<1>1. View(r).pc \in SyncPc /\ View(Root).pc \in SyncPc
  BY ViewType, RootIsRank
<1>2. Comes(View(r)) = View(r) /\ Comes(View(Root)) = View(Root)
  BY <1>1, Quiet
<1>3. Leads(View(r), chan[r], View(Root))
  BY <1>2 DEF AllFollow, Follows
<1>4. View(r).pc \notin BcastPc /\ chan[r] \in Seq(Message)
  BY <1>1 DEF BcastPc, Ops, SyncPc, TypeOK
<1> QED BY <1>3, <1>4, LeadsNoFurther

LEMMA AllTheSame ==
  ASSUME \A r \in Ranks : chan'[r] = <<>> /\ View(r)' = View(Root)'
  PROVE  AllFollow'
BY LeadsNowhere, FollowsNext DEF AllFollow

\* A joint step takes ranks that agree to ranks that agree, or ends the job.
LEMMA JointFollows ==
  ASSUME TypeOK, Calm, AllFollow, JointStep
  PROVE  (AllKilled \/ AllDie \/ AllFollow)' /\ LeftPc' /\ chan'[Root] = <<>>
<1> DEFINE Same == \A r \in Ranks :
             /\ chan[r] = <<>> /\ pc[r] = pc[Root] /\ it[r] = it[Root] /\ t[r] = t[Root]
             /\ dt[r] = dt[Root] /\ onemore[r] = onemore[Root] /\ lastsnap[r] = lastsnap[Root]
             /\ shift[r] = shift[Root] /\ pars[r] = pars[Root] /\ left[r] = left[Root]
           Same1 == \A r \in Ranks :
             /\ chan'[r] = <<>> /\ pc'[r] = pc'[Root] /\ it'[r] = it'[Root] /\ t'[r] = t'[Root]
             /\ dt'[r] = dt'[Root] /\ onemore'[r] = onemore'[Root]
             /\ lastsnap'[r] = lastsnap'[Root] /\ shift'[r] = shift'[Root]
             /\ pars'[r] = pars'[Root] /\ left'[r] = left'[Root]
<1>1. ASSUME \A r \in Ranks : pc[r] \in SyncPc PROVE Same
  <2> SUFFICES ASSUME NEW r \in Ranks
               PROVE /\ chan[r] = <<>> /\ pc[r] = pc[Root] /\ it[r] = it[Root] /\ t[r] = t[Root]
                     /\ dt[r] = dt[Root] /\ onemore[r] = onemore[Root] /\ lastsnap[r] = lastsnap[Root]
                     /\ shift[r] = shift[Root] /\ pars[r] = pars[Root] /\ left[r] = left[Root]
    OBVIOUS
  <2>1. chan[r] = <<>> /\ View(r) = View(Root)
    BY <1>1, SamePlace
  <2> QED BY <2>1, ViewType, RootIsRank
<1>2. ASSUME Same1 PROVE AllFollow'
  <2>1. \A r \in Ranks : chan'[r] = <<>> /\ View(r)' = View(Root)'
    BY <1>2, RootIsRank DEF View
  <2> QED BY <2>1, AllTheSame
<1> USE RootIsRank DEF TypeOK, Calm, LeftPc, PastPc
<1>3. CASE ReadSnapshot
  <2>1. Same /\ pc[Root] = "rsnap" /\ \A r \in Ranks : left[r] = "no"
    BY <1>1, <1>3 DEF ReadSnapshot, SyncPc
  <2>2. CASE pc' = [r \in Ranks |-> "killed"]
    <3>1. AllKilled' /\ left' = left /\ chan' = chan
      BY <1>3, <2>1, <2>2 DEF ReadSnapshot, AllKilled, LeaveTogether
    <3> QED BY <2>1, <3>1
  <2>3. CASE pc' = [r \in Ranks |-> "die"]
    <3>1. AllDie' /\ left' = left /\ chan' = chan
      BY <1>3, <2>1, <2>3 DEF ReadSnapshot, AllDie
    <3> QED BY <2>1, <3>1
  <2>4. CASE pc' = [r \in Ranks |-> "top"]
    <3>1. Same1 /\ left' = left /\ chan' = chan
      BY <1>3, <2>1, <2>4 DEF ReadSnapshot
    <3> HIDE DEF Same1
    <3> QED BY <1>2, <2>1, <3>1
  <2>5. pc' \in {[r \in Ranks |-> "killed"], [r \in Ranks |-> "die"], [r \in Ranks |-> "top"]}
    BY <1>3 DEF ReadSnapshot
  <2> QED BY <2>2, <2>3, <2>4, <2>5
<1>4. CASE SetDt
  <2>1. Same /\ \A r \in Ranks : pc[r] = "setdt"
    BY <1>1, <1>4 DEF SetDt, SyncPc
  <2>2. Same1 /\ left' = left /\ chan' = chan /\ \A r \in Ranks : left[r] = "no"
    BY <1>4, <2>1 DEF SetDt
  <2> HIDE DEF Same1, Same
  <2> QED BY <1>2, <2>2
<1>5. CASE UpdateGhosts
  <2>1. Same /\ \A r \in Ranks : pc[r] = "ghosts"
    BY <1>1, <1>5 DEF UpdateGhosts, SyncPc
  <2>2. Same1 /\ left' = left /\ chan' = chan /\ \A r \in Ranks : pc'[r] \in {"open", "finish"}
    BY <1>5, <2>1 DEF UpdateGhosts
  <2> HIDE DEF Same1, Same
  <2> QED BY <1>2, <2>2
<1>6. CASE CollectErrors
  <2>1. Same /\ \A r \in Ranks : pc[r] = "collect"
    BY <1>1, <1>6 DEF CollectErrors, SyncPc
  <2>2. CASE \E r \in Ranks : fatal[r]
    <3>0. /\ UNCHANGED <<it, t, dt, onemore, lastsnap, shift, pars, left, chan>>
          /\ pc' = [r \in Ranks |-> "die"]
          /\ \A r \in Ranks : pc[r] = "collect"
      BY <1>6, <2>2 DEF CollectErrors
    <3>1. Same1 /\ left' = left /\ chan' = chan /\ \A r \in Ranks : left[r] = "no"
      BY <2>1, <3>0
    <3> HIDE DEF Same1, Same
    <3> QED BY <1>2, <3>1
  <2>3. CASE ~ \E r \in Ranks : fatal[r]
    <3>0. /\ UNCHANGED <<t, dt, onemore, lastsnap, shift, pars, left, chan>>
          /\ pc' = [r \in Ranks |-> "top"] /\ it' = [r \in Ranks |-> it[r] + 1]
          /\ \A r \in Ranks : pc[r] = "collect"
      BY <1>6, <2>3 DEF CollectErrors
    <3>1. Same1 /\ left' = left /\ chan' = chan /\ \A r \in Ranks : left[r] = "no"
      BY <2>1, <3>0
    <3> HIDE DEF Same1, Same
    <3> QED BY <1>2, <3>1
  <2> QED BY <2>2, <2>3
<1>7. CASE MpiFinalize
  <2>1. Same /\ \A r \in Ranks : pc[r] \in {"finalize", "dying"}
    BY <1>1, <1>7 DEF MpiFinalize, SyncPc
  <2>2. Same1 /\ left' = left /\ chan' = chan
    BY <1>7, <2>1 DEF MpiFinalize
  <2>3. \A r \in Ranks : left[r] # "no" => pc'[r] = "done"
    BY <1>7, <2>1 DEF MpiFinalize
  <2> HIDE DEF Same1, Same
  <2> QED BY <1>2, <2>2, <2>3
<1> QED BY <1>3, <1>4, <1>5, <1>6, <1>7 DEF JointStep

\* Ranks that die with stop_it, or are killed, stay dying or killed.
LEMMA DieOn ==
  ASSUME TypeOK, Calm, AllDie, (\E r \in Ranks : RankStep(r)) \/ JointStep
  PROVE  AllDie' /\ LeftPc' /\ chan'[Root] = <<>>
<1> USE RootIsRank DEF TypeOK, Calm, AllDie, LeftPc
<1>1. ASSUME NEW r \in Ranks, RankStep(r) PROVE DieGracefully(r)
  <2>1. pc[r] \in {"die", "dying", "dead"}
    OBVIOUS
  <2> QED BY <1>1, <2>1 DEF RankStep, LoopTop, CheckStop, CheckResubmit, CheckReload,
       ReadRunPars, RemoveReload, CheckTMax, ComputeStep, CheckSave, OpenSnapshot,
       WriteSnapshot, CheckDtMin, CheckWallTime, FinishRun
<1>2. ASSUME NEW r \in Ranks, DieGracefully(r) PROVE AllDie' /\ LeftPc' /\ chan'[Root] = <<>>
  BY <1>2 DEF DieGracefully, Goto
<1>3. ASSUME JointStep PROVE MpiFinalize
  <2>1. pc[Root] \in {"die", "dying", "dead"}
    OBVIOUS
  <2> QED BY <1>3, <2>1 DEF JointStep, ReadSnapshot, SetDt, UpdateGhosts, CollectErrors
<1>4. ASSUME MpiFinalize PROVE AllDie' /\ LeftPc' /\ chan'[Root] = <<>>
  BY <1>4 DEF MpiFinalize
<1> QED BY <1>1, <1>2, <1>3, <1>4

LEMMA KilledOn ==
  ASSUME AllKilled PROVE ~(\E r \in Ranks : RankStep(r)) /\ ~JointStep
BY RootIsRank DEF AllKilled, RankStep, LoopTop, CheckStop, CheckResubmit, CheckReload,
   ReadRunPars, RemoveReload, CheckTMax, ComputeStep, CheckSave, OpenSnapshot,
   WriteSnapshot, CheckDtMin, CheckWallTime, FinishRun, DieGracefully,
   JointStep, ReadSnapshot, SetDt, UpdateGhosts, CollectErrors, MpiFinalize

\* What a rank that has left the loop says of the root.
LEMMA LeftAsRoot ==
  ASSUME TypeOK, LeftPc, AllFollow, NEW r \in Ranks, left[r] # "no"
  PROVE  /\ Comes(View(Root)).left = left[r] /\ Comes(View(Root)).it = it[r]
         /\ Comes(View(Root)).t = t[r] /\ Comes(View(Root)).lastsnap = lastsnap[r]
<1>1. pc[r] \in PastPc /\ View(r) \in Views /\ View(r).pc = pc[r] /\ View(r).left = left[r]
      /\ View(r).it = it[r] /\ View(r).t = t[r] /\ View(r).lastsnap = lastsnap[r]
  BY ViewType DEF LeftPc
<1>2. \/ Comes(View(r)) = View(r) /\ pc[r] \in {"ghosts", "finalize", "done", "killed"}
      \/ Comes(View(r)) = [View(r) EXCEPT !.pc = "finalize"]
  BY <1>1 DEF PastPc, Comes
<1>3. /\ Comes(View(r)).pc \notin BcastPc
      /\ Comes(View(r)).left = left[r] /\ Comes(View(r)).it = it[r]
      /\ Comes(View(r)).t = t[r] /\ Comes(View(r)).lastsnap = lastsnap[r]
  BY <1>1, <1>2 DEF Views, BcastPc, Ops
<1>4. Leads(Comes(View(r)), chan[r], Comes(View(Root))) /\ chan[r] \in Seq(Message)
  BY DEF AllFollow, Follows, TypeOK
<1>5. Comes(View(r)) = Comes(View(Root))
  BY <1>3, <1>4, LeadsNoFurther
<1> QED BY <1>3, <1>5

\* The ranks leave the loop together.
LEMMA AgreeLeaves ==
  ASSUME AgreeInv
  PROVE  LeaveTogether
<1> USE DEF AgreeInv, Calm
<1>0. CASE AllKilled
  BY <1>0 DEF AllKilled
<1>1. CASE AllDie
  BY <1>1 DEF AllDie, LeaveTogether
<1>2. CASE AllFollow
  <2> SUFFICES ASSUME NEW r \in Ranks, NEW s \in Ranks, left[r] # "no"
               PROVE  /\ pc[s] # "setdt"
                      /\ left[s] # "no" => /\ left[s] = left[r]
                                           /\ it[s] = it[r] /\ t[s] = t[r]
                                           /\ lastsnap[s] = lastsnap[r]
    BY DEF LeaveTogether
  <2> DEFINE w == Comes(View(Root))
  <2>1. ASSUME NEW q \in Ranks, left[q] # "no"
        PROVE  /\ w.left = left[q] /\ w.it = it[q] /\ w.t = t[q] /\ w.lastsnap = lastsnap[q]
    BY <1>2, <2>1, LeftAsRoot
  <2>2. ASSUME pc[s] = "setdt" PROVE FALSE
    <3>1. View(s).pc = "setdt" /\ View(s).left = left[s]
      BY <2>2, ViewType
    <3>2. Comes(View(s)) = View(s) /\ "setdt" \notin BcastPc
      BY <3>1, Quiet DEF SyncPc, BcastPc, Ops
    <3>3. Leads(View(s), chan[s], w) /\ chan[s] \in Seq(Message)
      BY <1>2, <3>2 DEF AllFollow, Follows, TypeOK
    <3>4. View(s) = w
      BY <3>1, <3>2, <3>3, LeadsNoFurther
    <3>5. left[s] = left[r]
      BY <2>1, <3>1, <3>4
    <3> QED BY <2>2, <3>5 DEF LeftPc, PastPc
  <2> HIDE DEF w
  <2> QED BY <2>1, <2>2
<1> QED BY <1>0, <1>1, <1>2

LEMMA AgreeEnvironment ==
  ASSUME ~Signals, AgreeInv, TypeOK', Environment PROVE AgreeInv'
<1>1. ASSUME NEW f \in ControlFiles, Touch(f) PROVE AgreeInv'
  <2>1. UNCHANGED rankvars /\ UNCHANGED chan
    BY <1>1 DEF Touch
  <2>2. \A r \in Ranks : View(r)' = View(r)
    BY <2>1 DEF rankvars, View
  <2>3. AllFollow => AllFollow'
    BY <2>1, <2>2, RootIsRank, FollowsNext DEF AllFollow, Follows
  <2> QED BY <2>1, <2>3 DEF AgreeInv, Calm, LeftPc, LeaveTogether, AllKilled, AllDie, rankvars
<1>2. CASE Kill
  <2>1. /\ pc' = [r \in Ranks |-> "killed"]
        /\ UNCHANGED <<it, t, emergency, lastsnap, left, chan>>
    BY <1>2 DEF Kill
  <2>2. LeaveTogether
    BY AgreeLeaves
  <2> QED BY <2>1, <2>2 DEF AgreeInv, Calm, LeftPc, PastPc, LeaveTogether, AllKilled
<1>3. CASE Launch
  <2>1. \A r \in Ranks : chan'[r] = <<>> /\ View(r)' = View(Root)'
    BY <1>3, RootIsRank DEF Launch, View
  <2>2. /\ \A r \in Ranks : left'[r] = "no" /\ ~emergency'[r]
        /\ chan'[Root] = <<>>
    BY <1>3, RootIsRank DEF Launch
  <2> QED BY <2>1, <2>2, AllTheSame DEF AgreeInv, Calm, LeftPc
<1> QED BY <1>1, <1>2, <1>3 DEF Environment, Signal

LEMMA AgreeSteps ==
  ASSUME AgreeInv, TypeOK', (\E r \in Ranks : RankStep(r)) \/ JointStep PROVE AgreeInv'
<1> USE DEF AgreeInv
<1>1. emergency' = emergency
  BY DEF RankStep, LoopTop, CheckStop, CheckResubmit, CheckReload,
   ReadRunPars, RemoveReload, CheckTMax, ComputeStep, CheckSave, OpenSnapshot,
   WriteSnapshot, CheckDtMin, CheckWallTime, FinishRun, DieGracefully,
   JointStep, ReadSnapshot, SetDt, UpdateGhosts, CollectErrors, MpiFinalize
<1>2. ~AllKilled
  BY KilledOn
<1>3. (AllKilled \/ AllDie \/ AllFollow)' /\ LeftPc' /\ chan'[Root] = <<>>
  <2>1. CASE AllDie
    BY <2>1, DieOn
  <2>2. ASSUME AllFollow, NEW r \in Ranks, RankStep(r)
        PROVE  AllFollow' /\ LeftPc' /\ chan'[Root] = <<>>
    <3>1. Local(r) \/ Told(r)
      BY <2>2, LocalSteps, BcastSteps DEF Calm, RankStep
    <3> QED BY <2>2, <3>1, LocalFollows, ToldFollows
  <2>3. CASE AllFollow /\ JointStep
    BY <2>3, JointFollows
  <2> QED BY <1>2, <2>1, <2>2, <2>3
<1> QED BY <1>1, <1>3 DEF Calm

LEMMA Agreement == ASSUME ~Signals PROVE Spec => []AgreeInv
<1>1. Init => AgreeInv
  <2> SUFFICES ASSUME Init PROVE AgreeInv
    OBVIOUS
  <2>1. \A r \in Ranks : chan[r] = <<>> /\ View(r) = View(Root)
    BY RootIsRank DEF Init, View
  <2>2. AllFollow
    BY <2>1, LeadsNowhere DEF AllFollow, Follows
  <2>3. Calm
    BY RootIsRank DEF Init, Calm, LeftPc
  <2> QED BY <2>2, <2>3, InitType DEF AgreeInv
<1>2. AgreeInv /\ TypeOK' /\ [Next]_vars => AgreeInv'
  <2> SUFFICES ASSUME AgreeInv, TypeOK', [Next]_vars PROVE AgreeInv'
    OBVIOUS
  <2>1. CASE UNCHANGED vars
    <3>1. UNCHANGED rankvars /\ UNCHANGED chan
      BY <2>1 DEF vars
    <3>2. \A r \in Ranks : View(r)' = View(r)
      BY <3>1 DEF rankvars, View
    <3>3. AllFollow => AllFollow'
      BY <3>1, <3>2, RootIsRank, FollowsNext DEF AllFollow, Follows
    <3> QED BY <3>1, <3>3 DEF AgreeInv, Calm, LeftPc, LeaveTogether, AllKilled, AllDie, rankvars
  <2>2. CASE Terminated
    BY <2>1, <2>2 DEF Terminated
  <2> QED BY <2>1, <2>2, AgreeSteps, AgreeEnvironment DEF Next
<1> QED BY <1>1, <1>2, TypeCorrect, PTL DEF Spec

\* As long as no rank catches a signal, the ranks leave Time_loop after the same
\* step, for the same reason and with the same save_lastsnap.
THEOREM RanksLeaveTogether == ASSUME ~Signals PROVE Spec => []LeaveTogether
<1>1. AgreeInv => LeaveTogether
  BY AgreeLeaves
<1> QED BY <1>1, Agreement, PTL

\* A rank that waits in a reduction or a barrier has caught up with the root.
LEMMA CaughtUp ==
  ASSUME AgreeInv, AllFollow, NEW r \in Ranks, pc[r] \in SyncPc
  PROVE  chan[r] = <<>> /\ View(r) = Comes(View(Root))
<1>1. View(r).pc \in SyncPc /\ chan[r] \in Seq(Message)
  BY ViewType DEF AgreeInv, TypeOK
<1>2. Comes(View(r)) = View(r) /\ View(r).pc \notin BcastPc
  BY <1>1, Quiet DEF BcastPc, Ops, SyncPc
<1>3. Leads(View(r), chan[r], Comes(View(Root)))
  BY <1>2 DEF AllFollow, Follows
<1> QED BY <1>1, <1>2, <1>3, LeadsNoFurther

\* ... and a rank computes no step with other run parameters than the other ranks.
THEOREM RanksUseTheSamePars == ASSUME ~Signals PROVE Spec => []ParsAgree
<1>1. AgreeInv => ParsAgree
  <2> SUFFICES ASSUME AgreeInv, NEW r \in Ranks, NEW s \in Ranks, pc[r] = "setdt", pc[s] = "setdt"
               PROVE  pars[r] = pars[s]
    BY DEF ParsAgree
  <2>1. AllFollow
    BY DEF AgreeInv, AllKilled, AllDie
  <2>2. View(r) = View(s)
    BY <2>1, CaughtUp DEF SyncPc
  <2> QED BY <2>2, ViewType DEF AgreeInv
<1> QED BY <1>1, Agreement, PTL

\* ... and every rank receives the broadcast it asks for, leaves none unread when
\* it enters a reduction or a barrier, and no two ranks wait in different ones.
THEOREM BroadcastsMatch == ASSUME ~Signals PROVE Spec => []CollectivesMatch
<1>1. AgreeInv => CollectivesMatch
  <2> SUFFICES ASSUME AgreeInv PROVE CollectivesMatch
    OBVIOUS
  <2>1. CASE AllKilled
    BY <2>1 DEF AllKilled, CollectivesMatch, BcastPc, Ops, SyncPc
  <2>2. CASE AllDie
    BY <2>2 DEF AllDie, CollectivesMatch, BcastPc, Ops, SyncPc
  <2>3. CASE AllFollow
    <3>1. ASSUME NEW r \in Ranks, pc[r] \in BcastPc, chan[r] # <<>>
          PROVE  Head(chan[r]).op = pc[r]
      <4>1. View(r).pc = pc[r] /\ chan[r] \in Seq(Message)
        BY ViewType DEF AgreeInv, TypeOK
      <4>2. Comes(View(r)) = View(r)
        BY <3>1, <4>1, Quiet
      <4>3. Leads(View(r), chan[r], Comes(View(Root)))
        BY <2>3, <4>2 DEF AllFollow, Follows
      <4> QED BY <3>1, <4>1, <4>3, LeadsFirst
    <3>2. ASSUME NEW r \in Ranks, pc[r] \in SyncPc PROVE chan[r] = <<>>
      BY <2>3, <3>2, CaughtUp
    <3>3. ASSUME NEW r \in Ranks, NEW s \in Ranks, pc[r] \in SyncPc, pc[s] \in SyncPc
          PROVE  pc[r] = pc[s]
      <4>1. View(r) = View(s)
        BY <2>3, <3>3, CaughtUp
      <4> QED BY <4>1, ViewType DEF AgreeInv
    <3> QED BY <3>1, <3>2, <3>3 DEF CollectivesMatch
  <2> QED BY <2>1, <2>2, <2>3 DEF AgreeInv
<1> QED BY <1>1, Agreement, PTL
-----------------------------------------------------------------------------
(***************************************************************************)
(* What one step of one rank does to its place in the program, to the      *)
(* control files, and to what the properties of errors and of STOP name.   *)
(***************************************************************************)
\* Where the places of Time_loop lead, other than out of it.
GoesTo(l) ==
  CASE l = "top"      -> {"stop", "tmax"}
    [] l = "stop"     -> {"resubmit", "reload"}
    [] l = "reload"   -> {"read", "tmax"}
    [] l = "read"     -> {"unreload"}
    [] l = "unreload" -> {"tmax"}
    [] l = "tmax"     -> {"step"}
    [] l = "step"     -> {"setdt"}
    [] l = "save"     -> {"ghosts", "dtmin"}
    [] l = "open"     -> {"write"}
    [] l = "write"    -> {"dtmin", "finish"}
    [] l = "dtmin"    -> {"wall", "collect"}
    [] l = "wall"     -> {"collect"}
    [] l = "finish"   -> {"finalize"}
    [] l = "die"      -> {"dying"}
    [] OTHER          -> {}

\* r goes on, or leaves the loop; nothing of another rank changes.
Places(r) ==
  /\ UNCHANGED <<it, t, stopAt>>
  /\ \A q \in Ranks \ {r} :
       /\ pc'[q] = pc[q] /\ left'[q] = left[q] /\ lastsnap'[q] = lastsnap[q]
       /\ dt'[q] = dt[q] /\ fatal'[q] = fatal[q]
  /\ \/ /\ left'[r] = left[r] /\ lastsnap'[r] = lastsnap[r] /\ pc'[r] \in GoesTo(pc[r])
     \/ /\ pc[r] \in {"top", "resubmit", "tmax", "dtmin", "wall"}
        /\ left'[r] # "no" /\ pc'[r] = "ghosts"
        /\ left'[r] = "dtmin" => pc[r] = "dtmin" /\ dt[r] < DtMin
  /\ pc[r] = "write" => pc'[r] = IF left[r] = "no" THEN "dtmin" ELSE "finish"
  /\ pc[r] # "read" => dt'[r] = dt[r]
  /\ pc[r] # "step" => fatal'[r] = fatal[r]

\* The files of StatusFilesTell and of StopWithinIt1.
Marks(r) ==
  /\ "ERROR" \in files' <=> "ERROR" \in files \/ pc[r] = "die"
  /\ "COMPLETED" \in files' => "COMPLETED" \in files \/ pc[r] = "finish"
  /\ "STOP" \in files' <=> "STOP" \in files /\ ~(r = Root /\ pc[r] = "stop")
  /\ r = Root /\ pc[r] = "stop" /\ "STOP" \in files => pc'[r] = "resubmit"
  /\ r = Root /\ pc[r] = "top" /\ LOut(it[r]) => pc'[r] \in {"stop", "ghosts"}

LEMMA RankPlaces ==
  ASSUME TypeOK, NEW r \in Ranks, RankStep(r) PROVE Places(r)
<1> USE DEF TypeOK, Places, GoesTo, Goto, Leave, envvars
<1>1. CASE LoopTop(r)
  BY <1>1 DEF LoopTop
<1>2. CASE CheckStop(r)
  BY <1>2 DEF CheckStop
<1>3. CASE CheckResubmit(r)
  BY <1>3 DEF CheckResubmit
<1>4. CASE CheckReload(r)
  BY <1>4 DEF CheckReload
<1>5. CASE ReadRunPars(r)
  BY <1>5 DEF ReadRunPars
<1>6. CASE RemoveReload(r)
  BY <1>6 DEF RemoveReload
<1>7. CASE CheckTMax(r)
  BY <1>7 DEF CheckTMax
<1>8. CASE ComputeStep(r)
  BY <1>8 DEF ComputeStep
<1>9. CASE CheckSave(r)
  BY <1>9 DEF CheckSave
<1>10. CASE OpenSnapshot(r)
  BY <1>10 DEF OpenSnapshot
<1>11. CASE WriteSnapshot(r)
  BY <1>11 DEF WriteSnapshot
<1>12. CASE CheckDtMin(r)
  BY <1>12 DEF CheckDtMin
<1>13. CASE CheckWallTime(r)
  BY <1>13 DEF CheckWallTime
<1>14. CASE FinishRun(r)
  BY <1>14 DEF FinishRun
<1>15. CASE DieGracefully(r)
  BY <1>15 DEF DieGracefully
<1> QED BY <1>1, <1>2, <1>3, <1>4, <1>5, <1>6, <1>7, <1>8,
           <1>9, <1>10, <1>11, <1>12, <1>13, <1>14, <1>15 DEF RankStep

LEMMA RankMarks ==
  ASSUME TypeOK, NEW r \in Ranks, RankStep(r) PROVE Marks(r)
<1> USE DEF TypeOK, Marks, Goto, Leave, Delete, Bcast, diskvars, ControlFiles, StatusFiles, ReloadFiles
<1>1. CASE LoopTop(r)
  BY <1>1 DEF LoopTop
<1>2. CASE CheckStop(r)
  BY <1>2 DEF CheckStop
<1>3. CASE CheckResubmit(r)
  BY <1>3 DEF CheckResubmit
<1>4. CASE CheckReload(r)
  BY <1>4 DEF CheckReload
<1>5. CASE ReadRunPars(r)
  BY <1>5 DEF ReadRunPars
<1>6. CASE RemoveReload(r)
  BY <1>6 DEF RemoveReload
<1>7. CASE CheckTMax(r)
  BY <1>7 DEF CheckTMax
<1>8. CASE ComputeStep(r)
  BY <1>8 DEF ComputeStep
<1>9. CASE CheckSave(r)
  BY <1>9 DEF CheckSave
<1>10. CASE OpenSnapshot(r)
  BY <1>10 DEF OpenSnapshot
<1>11. CASE WriteSnapshot(r)
  BY <1>11 DEF WriteSnapshot
<1>12. CASE CheckDtMin(r)
  BY <1>12 DEF CheckDtMin
<1>13. CASE CheckWallTime(r)
  BY <1>13 DEF CheckWallTime
<1>14. CASE FinishRun(r)
  BY <1>14 DEF FinishRun
<1>15. CASE DieGracefully(r)
  BY <1>15 DEF DieGracefully
<1> QED BY <1>1, <1>2, <1>3, <1>4, <1>5, <1>6, <1>7, <1>8,
           <1>9, <1>10, <1>11, <1>12, <1>13, <1>14, <1>15 DEF RankStep

\* A rank that has left the loop is past it, one that is past the final snapshot
\* or is not to write any has left the loop, and the ranks count the same steps.
LeftOut == \A r \in Ranks : /\ left[r] # "no" => pc[r] \in PastPc
                            /\ pc[r] \in OverPc \/ ~lastsnap[r] => left[r] # "no"
OneIt   == \A r \in Ranks : it[r] = it[Root]
PlaceInv == TypeOK /\ LeftOut /\ OneIt

LEMMA PlaceRank ==
  ASSUME PlaceInv, NEW r \in Ranks, RankStep(r) PROVE LeftOut' /\ OneIt'
<1>1. Places(r)
  BY RankPlaces DEF PlaceInv
<1>2. OneIt'
  BY <1>1 DEF Places, PlaceInv, OneIt
<1>3. LeftOut'
  BY <1>1 DEF Places, GoesTo, PlaceInv, LeftOut, PastPc, OverPc
<1> QED BY <1>2, <1>3

LEMMA PlaceJoint ==
  ASSUME PlaceInv, JointStep PROVE LeftOut' /\ OneIt'
<1> USE RootIsRank DEF PlaceInv, TypeOK, LeftOut, OneIt, PastPc, OverPc
<1>1. CASE ReadSnapshot
  BY <1>1 DEF ReadSnapshot
<1>2. CASE SetDt
  BY <1>2 DEF SetDt
<1>3. CASE UpdateGhosts
  BY <1>3 DEF UpdateGhosts
<1>4. CASE CollectErrors
  <2>1. /\ \A r \in Ranks : pc[r] = "collect" /\ pc'[r] \in {"die", "top"}
        /\ UNCHANGED <<left, lastsnap>>
        /\ it' = it \/ it' = [r \in Ranks |-> it[r] + 1]
    BY <1>4 DEF CollectErrors
  <2>2. OneIt'
    BY <2>1
  <2> QED BY <2>1, <2>2
<1>5. CASE MpiFinalize
  BY <1>5 DEF MpiFinalize
<1> QED BY <1>1, <1>2, <1>3, <1>4, <1>5 DEF JointStep

LEMMA PlaceInvariance == Spec => []PlaceInv
<1>1. Init => PlaceInv
  BY InitType, RootIsRank DEF Init, PlaceInv, LeftOut, OneIt, OverPc
<1>2. PlaceInv /\ TypeOK' /\ [Next]_vars => PlaceInv'
  <2> SUFFICES ASSUME PlaceInv, TypeOK', [Next]_vars PROVE LeftOut' /\ OneIt'
    BY DEF PlaceInv
  <2> USE RootIsRank DEF PlaceInv, LeftOut, OneIt, PastPc, OverPc
  <2>1. CASE UNCHANGED vars
    BY <2>1 DEF vars, rankvars
  <2>2. CASE Terminated
    BY <2>1, <2>2 DEF Terminated
  <2>3. ASSUME NEW f \in ControlFiles, Touch(f) PROVE LeftOut' /\ OneIt'
    BY <2>3 DEF Touch, rankvars
  <2>4. ASSUME NEW r \in Ranks, Signal(r) PROVE LeftOut' /\ OneIt'
    BY <2>4 DEF Signal
  <2>5. CASE Kill
    BY <2>5 DEF Kill, TypeOK
  <2>6. CASE Launch
    BY <2>6 DEF Launch
  <2> QED BY <2>1, <2>2, <2>3, <2>4, <2>5, <2>6, PlaceRank, PlaceJoint DEF Next, Environment
<1> QED BY <1>1, <1>2, TypeCorrect, PTL DEF Spec
-----------------------------------------------------------------------------
(***************************************************************************)
(* ERROR and COMPLETED.                                                    *)
(***************************************************************************)
\* Unless the job was killed, the files are those of a rank that is where it
\* has touched them, or past it.
FilesTell ==
  /\ \/ \A r \in Ranks : pc[r] = "killed"
     \/ /\ "ERROR" \in files => \E r \in Ranks : pc[r] \in {"dying", "dead"}
        /\ "COMPLETED" \in files => \E r \in Ranks : pc[r] \in {"finalize", "done"}
  /\ \A r \in Ranks : pc[r] \in {"dying", "dead"} => "ERROR" \in files

LEMMA FilesRank ==
  ASSUME TypeOK, FilesTell, NEW r \in Ranks, RankStep(r) PROVE FilesTell'
<1>1. Places(r) /\ Marks(r)
  BY RankPlaces, RankMarks
<1>2. pc'[r] \in Pcs /\ pc[r] \notin {"killed", "finalize", "done", "dying", "dead"}
  BY <1>1 DEF Places, GoesTo, Pcs, BcastPc, Ops, SyncPc, LocalPc, EndedPc
<1>3. /\ pc'[r] = "dying" <=> pc[r] = "die"
      /\ pc'[r] # "dead"
      /\ pc[r] = "finish" => pc'[r] = "finalize"
  BY <1>1 DEF Places, GoesTo
<1>4. \A q \in Ranks \ {r} : pc'[q] = pc[q]
  BY <1>1 DEF Places
<1>5. /\ "ERROR" \in files' <=> "ERROR" \in files \/ pc[r] = "die"
      /\ "COMPLETED" \in files' => "COMPLETED" \in files \/ pc[r] = "finish"
  BY <1>1 DEF Marks
<1> QED BY <1>2, <1>3, <1>4, <1>5 DEF FilesTell

LEMMA FilesJoint ==
  ASSUME TypeOK, FilesTell, JointStep PROVE FilesTell'
<1> USE RootIsRank DEF FilesTell, TypeOK, diskvars
<1>1. CASE ReadSnapshot
  BY <1>1 DEF ReadSnapshot
<1>2. CASE SetDt
  BY <1>2 DEF SetDt
<1>3. CASE UpdateGhosts
  BY <1>3 DEF UpdateGhosts
<1>4. CASE CollectErrors
  BY <1>4 DEF CollectErrors
<1>5. CASE MpiFinalize
  BY <1>5 DEF MpiFinalize
<1> QED BY <1>1, <1>2, <1>3, <1>4, <1>5 DEF JointStep

LEMMA FilesInvariance == Spec => []FilesTell
<1>1. Init => FilesTell
  BY DEF Init, FilesTell
<1>2. TypeOK /\ FilesTell /\ [Next]_vars => FilesTell'
  <2> SUFFICES ASSUME TypeOK, FilesTell, [Next]_vars PROVE FilesTell'
    OBVIOUS
  <2>1. CASE UNCHANGED vars
    BY <2>1 DEF vars, rankvars, diskvars, FilesTell
  <2>2. CASE Terminated
    BY <2>1, <2>2 DEF Terminated
  <2>3. ASSUME NEW f \in ControlFiles, Touch(f) PROVE FilesTell'
    BY <2>3 DEF Touch, rankvars, FilesTell, ControlFiles, ReloadFiles
  <2>4. ASSUME NEW r \in Ranks, Signal(r) PROVE FilesTell'
    BY <2>4 DEF Signal, diskvars, FilesTell
  <2>5. CASE Kill
    BY <2>5 DEF Kill, diskvars, FilesTell
  <2>6. CASE Launch
    BY <2>6 DEF Launch, FilesTell
  <2> QED BY <2>1, <2>2, <2>3, <2>4, <2>5, <2>6, FilesRank, FilesJoint DEF Next, Environment
<1> QED BY <1>1, <1>2, TypeCorrect, PTL DEF Spec

\* When the job has ended by itself, ERROR is there exactly if it died, and then
\* COMPLETED is not: no rank finishes while another one dies.
THEOREM FilesTellTheEnd == ASSUME ~Signals PROVE Spec => []StatusFilesTell
<1>1. AgreeInv /\ FilesTell => StatusFilesTell
  <2> SUFFICES ASSUME AgreeInv, FilesTell, \A r \in Ranks : pc[r] \in {"done", "dead"}
               PROVE  /\ ("ERROR" \in files <=> \E r \in Ranks : pc[r] = "dead")
                      /\ ~({"ERROR", "COMPLETED"} \subseteq files)
    BY DEF StatusFilesTell
  <2>1. (\A r \in Ranks : pc[r] = "done") \/ (\A r \in Ranks : pc[r] = "dead")
    <3>1. CASE AllKilled
      BY <3>1, RootIsRank DEF AllKilled
    <3>2. CASE AllDie
      BY <3>2 DEF AllDie
    <3>3. CASE AllFollow
      <4>1. ASSUME NEW r \in Ranks PROVE pc[r] = pc[Root]
        <5>1. View(r).pc \in EndedPc /\ View(Root).pc \in EndedPc /\ chan[r] \in Seq(Message)
          BY ViewType, RootIsRank DEF AgreeInv, TypeOK, EndedPc
        <5>2. Comes(View(r)) = View(r) /\ Comes(View(Root)) = View(Root)
              /\ View(r).pc \notin BcastPc
          BY <5>1, Quiet DEF EndedPc, BcastPc, Ops
        <5>3. Leads(View(r), chan[r], View(Root))
          BY <3>3, <5>2 DEF AllFollow, Follows
        <5>4. View(r) = View(Root)
          BY <5>1, <5>2, <5>3, LeadsNoFurther
        <5> QED BY <5>4, ViewType, RootIsRank DEF AgreeInv
      <4> QED BY <4>1, RootIsRank
    <3> QED BY <3>1, <3>2, <3>3 DEF AgreeInv
  <2>2. "ERROR" \in files <=> \E r \in Ranks : pc[r] = "dead"
    BY <2>1, RootIsRank DEF FilesTell
  <2>3. ~("ERROR" \in files /\ "COMPLETED" \in files)
    BY <2>1, RootIsRank DEF FilesTell
  <2> QED BY <2>2, <2>3
<1> QED BY <1>1, Agreement, FilesInvariance, PTL
-----------------------------------------------------------------------------
(***************************************************************************)
(* Errors only one rank has noticed.  A rank notices its error in a step   *)
(* the root has begun as well, or will begin before it waits; from there   *)
(* on the root comes to the collection, unless dt has become too short.    *)
(***************************************************************************)
\* Past the last place of a step from which the loop is left with a snapshot.
Late(v) == /\ v.pc \notin (Ops \ {"save"}) \cup {"rsnap"}
           /\ v.left = "no" \/ (v.left = "dtmin" /\ ~v.lastsnap)

RootLate == (\E s \in Ranks : fatal[s]) => Late(Comes(View(Root)))
CleanEnd == (\A r \in Ranks : pc[r] = "killed") => FinalSnapshotClean
CleanInv == AgreeInv /\ PlaceInv /\ RootLate /\ CleanEnd

LEMMA CleanWhenLate ==
  ASSUME CleanInv PROVE FinalSnapshotClean
<1>1. CASE AllKilled
  BY <1>1 DEF AllKilled, CleanInv, CleanEnd
<1>2. CASE AllDie
  BY <1>2 DEF AllDie, FinalSnapshotClean
<1>3. CASE AllFollow
  <2> SUFFICES ASSUME NEW r \in Ranks, NEW s \in Ranks, left[r] # "no", lastsnap[r], fatal[s]
               PROVE  FALSE
    BY DEF FinalSnapshotClean
  <2>1. Late(Comes(View(Root)))
    BY DEF CleanInv, RootLate
  <2>2. Comes(View(Root)).left = left[r] /\ Comes(View(Root)).lastsnap = lastsnap[r]
    BY <1>3, LeftAsRoot DEF CleanInv, AgreeInv, Calm
  <2> QED BY <2>1, <2>2 DEF Late
<1> QED BY <1>1, <1>2, <1>3 DEF CleanInv, AgreeInv

\* Without a wall time limit the test of dtmin leads to the collection, or out
\* of the loop without a snapshot.
LEMMA LateDtMin ==
  ASSUME ~MaxWall, NEW v \in Views, v.left = "no" PROVE Late(FromDtMin(v))
<1>1. /\ Out(v, "dtmin", FALSE).pc = "ghosts" /\ Out(v, "dtmin", FALSE).left = "dtmin"
      /\ Out(v, "dtmin", FALSE).lastsnap = FALSE
      /\ [v EXCEPT !.pc = "collect"].pc = "collect" /\ [v EXCEPT !.pc = "collect"].left = "no"
  BY DEF Views, Out
<1> QED BY <1>1 DEF FromDtMin, Late, Ops

\* From where a rank computes its step on, up to the end.
LateFrom(v) ==
  /\ v.pc \in {"step", "setdt", "save", "ghosts", "open", "write", "dtmin", "collect",
               "finish", "finalize", "done", "die", "dying", "dead", "killed"}
  /\ v.left = "no" \/ (v.left = "dtmin" /\ ~v.lastsnap)
  /\ v.pc \in {"step", "dtmin"} => v.left = "no"

LEMMA LateOn ==
  ASSUME ~MaxWall, NEW v \in Views, LateFrom(v) PROVE Late(Comes(v))
<1>1. CASE v.pc \in {"open", "write", "dtmin"} /\ v.left = "no"
  BY <1>1, LateDtMin DEF Comes
<1>2. CASE v.pc \in {"open", "write", "finish"} /\ v.left # "no"
  <2>1. Comes(v) = [v EXCEPT !.pc = "finalize"]
    BY <1>2 DEF Comes
  <2> QED BY <1>2, <2>1 DEF Views, Late, LateFrom, Ops
<1>3. CASE v.pc \in {"step", "finish", "die"} /\ v.left = "no"
  <2>1. PICK l \in {"setdt", "finalize", "dying"} : Comes(v) = [v EXCEPT !.pc = l]
    BY <1>3 DEF Comes
  <2> QED BY <1>3, <2>1 DEF Views, Late, Ops
<1>4. CASE v.pc = "die" /\ v.left # "no"
  <2>1. Comes(v) = [v EXCEPT !.pc = "dying"]
    BY <1>4 DEF Comes
  <2> QED BY <1>4, <2>1 DEF Views, Late, LateFrom, Ops
<1>5. CASE v.pc \in {"setdt", "save", "ghosts", "collect", "finalize", "done", "dying", "dead", "killed"}
  <2>1. Comes(v) = v
    BY <1>5, Quiet DEF BcastPc, Ops, SyncPc, EndedPc
  <2> QED BY <1>5, <2>1 DEF Late, LateFrom, Ops
<1> QED BY <1>1, <1>2, <1>3, <1>4, <1>5 DEF LateFrom

LEMMA LateRank ==
  ASSUME ~MaxWall, CleanInv, TypeOK', NEW r \in Ranks, RankStep(r)
  PROVE  RootLate' /\ CleanEnd'
<1> USE RootIsRank
<1>1. Places(r)
  BY RankPlaces DEF CleanInv, PlaceInv
<1>2. ~AllKilled
  BY KilledOn
<1>3. CleanEnd'
  <2>1. pc'[r] # "killed"
    BY <1>1 DEF Places, GoesTo
  <2> QED BY <2>1 DEF CleanEnd
<1>4. /\ View(Root)' \in Views /\ View(Root)'.pc = pc'[Root]
      /\ View(Root)'.left = left'[Root] /\ View(Root)'.lastsnap = lastsnap'[Root]
  BY ViewTypeNext
<1>5. /\ View(r) \in Views /\ View(r).pc = pc[r] /\ View(r).left = left[r]
      /\ View(Root).pc = pc[Root] /\ View(Root).left = left[Root]
  BY ViewType DEF CleanInv, AgreeInv
<1>6. ASSUME LateFrom(View(Root)') PROVE RootLate'
  <2>1. Late(Comes(View(Root)'))
    BY <1>4, <1>6, LateOn
  <2> QED BY <2>1 DEF RootLate
<1>7. CASE AllDie
  <2>1. pc'[Root] \in {"die", "dying", "dead"} /\ left'[Root] = "no"
    BY <1>1, <1>7 DEF Places, GoesTo, AllDie
  <2>2. LateFrom(View(Root)')
    BY <1>4, <2>1 DEF LateFrom
  <2> QED BY <1>3, <1>6, <2>2
<1>8. CASE AllFollow
  <2> SUFFICES ASSUME NEW s \in Ranks, fatal'[s] PROVE RootLate'
    BY <1>3 DEF RootLate
  <2>1. Local(r) \/ Told(r)
    BY LocalSteps, BcastSteps DEF CleanInv, AgreeInv, Calm, RankStep
  <2>2. r # Root => View(Root)' = View(Root)
    BY <2>1 DEF Local, Told
  <2>3. Local(r) => Comes(View(Root)') = Comes(View(Root))
    BY <2>2 DEF Local
  <2>4. CASE fatal[s]
    <3>1. Late(Comes(View(Root)))
      BY <2>4 DEF CleanInv, RootLate
    <3>2. CASE Local(r) \/ r # Root
      <4>1. Late(Comes(View(Root)'))
        BY <2>2, <2>3, <3>1, <3>2
      <4> QED BY <4>1 DEF RootLate
    <3>3. CASE Told(r) /\ r = Root
      <4>1. pc[Root] \in Ops
        BY <1>5, <3>3 DEF Told
      <4>2. Comes(View(Root)) = View(Root)
        BY <1>5, <4>1, Quiet DEF BcastPc
      <4>3. pc[Root] = "save"
        BY <1>5, <3>1, <4>1, <4>2 DEF Late
      <4>4. left[Root] = "no"
        BY <4>3 DEF CleanInv, PlaceInv, LeftOut, PastPc
      <4>5. pc'[Root] \in {"ghosts", "dtmin"} /\ left'[Root] = "no"
        BY <1>1, <3>3, <4>3, <4>4 DEF Places, GoesTo
      <4>6. LateFrom(View(Root)')
        BY <1>4, <4>5 DEF LateFrom
      <4> QED BY <1>6, <4>6
    <3> QED BY <2>1, <3>2, <3>3
  <2>5. CASE ~fatal[s]
    <3>1. s = r /\ pc[r] = "step"
      BY <1>1, <2>5 DEF Places
    <3>2. Local(r)
      BY <1>5, <2>1, <3>1 DEF Told, Ops
    <3>3. left[r] = "no"
      BY <3>1 DEF CleanInv, PlaceInv, LeftOut, PastPc
    <3>4. Comes(View(r)) = [View(r) EXCEPT !.pc = "setdt"]
      BY <1>5, <3>1 DEF Comes
    <3>5. Comes(View(r)).pc = "setdt" /\ Comes(View(r)).left = "no"
      BY <1>5, <3>3, <3>4 DEF Views
    <3>6. Leads(Comes(View(r)), chan[r], Comes(View(Root))) /\ chan[r] \in Seq(Message)
      BY <1>8 DEF AllFollow, Follows, CleanInv, AgreeInv, TypeOK
    <3>7. Comes(View(r)) = Comes(View(Root))
      BY <3>5, <3>6, LeadsNoFurther DEF BcastPc, Ops
    <3>8. Late(Comes(View(Root)'))
      BY <2>3, <3>2, <3>5, <3>7 DEF Late, Ops
    <3> QED BY <3>8 DEF RootLate
  <2> QED BY <2>4, <2>5
<1> QED BY <1>2, <1>7, <1>8 DEF CleanInv, AgreeInv

LEMMA LateJoint ==
  ASSUME ~MaxWall, CleanInv, TypeOK', JointStep
  PROVE  RootLate' /\ CleanEnd'
<1> USE RootIsRank DEF TypeOK
<1>0. TypeOK /\ LeftOut /\ RootLate /\ FinalSnapshotClean
  BY CleanWhenLate DEF CleanInv, PlaceInv
<1>1. CleanEnd'
  <2>1. UNCHANGED <<left, lastsnap>> /\ \A s \in Ranks : fatal'[s] => fatal[s]
    BY <1>0 DEF JointStep, ReadSnapshot, SetDt, UpdateGhosts, CollectErrors, MpiFinalize
  <2> QED BY <1>0, <2>1 DEF CleanEnd, FinalSnapshotClean
<1>2. /\ View(Root)' \in Views /\ View(Root)'.pc = pc'[Root]
      /\ View(Root)'.left = left'[Root] /\ View(Root)'.lastsnap = lastsnap'[Root]
  BY ViewTypeNext
<1>3. View(Root) \in Views /\ View(Root).pc = pc[Root] /\ View(Root).left = left[Root]
      /\ View(Root).lastsnap = lastsnap[Root]
  BY <1>0, ViewType
<1>4. ASSUME LateFrom(View(Root)') PROVE RootLate'
  <2>1. Late(Comes(View(Root)'))
    BY <1>2, <1>4, LateOn
  <2> QED BY <2>1 DEF RootLate
<1>5. pc[Root] \in SyncPc
  BY DEF JointStep, ReadSnapshot, SetDt, UpdateGhosts, CollectErrors, MpiFinalize, SyncPc
<1>6. Comes(View(Root)) = View(Root)
  BY <1>3, <1>5, Quiet
<1> SUFFICES ASSUME NEW s \in Ranks, fatal'[s] PROVE RootLate'
  BY <1>1 DEF RootLate
<1>7. fatal[s]
  BY <1>0 DEF JointStep, ReadSnapshot, SetDt, UpdateGhosts, CollectErrors, MpiFinalize
<1>8. /\ pc[Root] # "rsnap"
      /\ left[Root] = "no" \/ (left[Root] = "dtmin" /\ ~lastsnap[Root])
  BY <1>0, <1>3, <1>6, <1>7 DEF RootLate, Late
<1>9. left'[Root] = left[Root] /\ lastsnap'[Root] = lastsnap[Root]
  BY <1>0 DEF JointStep, ReadSnapshot, SetDt, UpdateGhosts, CollectErrors, MpiFinalize
<1>10. pc'[Root] \in {"save", "open", "finish", "die", "done", "dead"}
  <2>1. CASE SetDt
    BY <1>0, <2>1 DEF SetDt
  <2>2. CASE UpdateGhosts
    BY <1>0, <2>2 DEF UpdateGhosts
  <2>3. CASE CollectErrors
    BY <1>0, <1>7, <2>3 DEF CollectErrors
  <2>4. CASE MpiFinalize
    BY <1>0, <2>4 DEF MpiFinalize
  <2> QED BY <1>8, <2>1, <2>2, <2>3, <2>4 DEF JointStep, ReadSnapshot
<1>11. LateFrom(View(Root)')
  BY <1>2, <1>8, <1>9, <1>10 DEF LateFrom
<1> QED BY <1>4, <1>11

LEMMA Cleanness == ASSUME ~Signals, ~MaxWall PROVE Spec => [](RootLate /\ CleanEnd)
<1>1. Init => RootLate /\ CleanEnd
  BY DEF Init, RootLate, CleanEnd, FinalSnapshotClean
<1>2. /\ AgreeInv /\ PlaceInv /\ RootLate /\ CleanEnd /\ TypeOK' /\ [Next]_vars
      => RootLate' /\ CleanEnd'
  <2> SUFFICES ASSUME CleanInv, TypeOK', [Next]_vars PROVE RootLate' /\ CleanEnd'
    BY DEF CleanInv
  <2>0. FinalSnapshotClean /\ RootLate /\ CleanEnd /\ TypeOK
    BY CleanWhenLate DEF CleanInv, PlaceInv
  <2>1. ASSUME UNCHANGED rankvars PROVE RootLate' /\ CleanEnd'
    <3>1. View(Root)' = View(Root) /\ UNCHANGED <<pc, fatal, left, lastsnap>>
      BY <2>1 DEF rankvars, View
    <3> QED BY <2>0, <3>1 DEF RootLate, CleanEnd, FinalSnapshotClean
  <2>2. CASE UNCHANGED vars
    BY <2>1, <2>2 DEF vars
  <2>3. CASE Terminated
    BY <2>1, <2>3 DEF Terminated, vars
  <2>4. ASSUME NEW f \in ControlFiles, Touch(f) PROVE RootLate' /\ CleanEnd'
    BY <2>1, <2>4 DEF Touch
  <2>5. CASE Kill
    <3>1. /\ pc'[Root] = "killed" /\ UNCHANGED <<fatal, left, lastsnap>>
      BY <2>5, RootIsRank DEF Kill
    <3>2. CleanEnd'
      BY <2>0, <3>1 DEF CleanEnd, FinalSnapshotClean
    <3> SUFFICES ASSUME NEW s \in Ranks, fatal'[s] PROVE RootLate'
      BY <3>2 DEF RootLate
    <3>3. /\ View(Root)' \in Views /\ View(Root)'.pc = pc'[Root]
          /\ View(Root)'.left = left'[Root] /\ View(Root)'.lastsnap = lastsnap'[Root]
      BY ViewTypeNext, RootIsRank
    <3>4. ASSUME left[Root] # "no" PROVE left[Root] = "dtmin" /\ ~lastsnap[Root]
      <4>1. /\ pc[Root] \in PastPc /\ View(Root) \in Views /\ View(Root).pc = pc[Root]
            /\ View(Root).left = left[Root] /\ View(Root).lastsnap = lastsnap[Root]
        BY <2>0, <3>4, ViewType, RootIsRank DEF CleanInv, PlaceInv, LeftOut
      <4>2. Comes(View(Root)) = View(Root) \/ Comes(View(Root)) = [View(Root) EXCEPT !.pc = "finalize"]
        BY <3>4, <4>1 DEF PastPc, Comes
      <4>3. Comes(View(Root)).left = left[Root] /\ Comes(View(Root)).lastsnap = lastsnap[Root]
        BY <4>1, <4>2 DEF Views
      <4>4. Late(Comes(View(Root)))
        BY <2>0, <3>1 DEF RootLate
      <4> QED BY <3>4, <4>3, <4>4 DEF Late
    <3>5. LateFrom(View(Root)')
      BY <3>1, <3>3, <3>4 DEF LateFrom
    <3> QED BY <3>3, <3>5, LateOn DEF RootLate
  <2>6. CASE Launch
    BY <2>6 DEF Launch, RootLate, CleanEnd, FinalSnapshotClean
  <2> QED BY <2>2, <2>3, <2>4, <2>5, <2>6, LateRank, LateJoint DEF Next, Environment, Signal
<1> QED BY <1>1, <1>2, TypeCorrect, Agreement, PlaceInvariance, PTL DEF Spec

\* Unless it runs out of wall time or catches a signal, run.x writes no final
\* var.dat over an error that some rank has registered and nobody has collected.
THEOREM SnapshotOfNoError == ASSUME ~Signals, ~MaxWall PROVE Spec => []FinalSnapshotClean
<1>1. AgreeInv /\ PlaceInv /\ RootLate /\ CleanEnd => FinalSnapshotClean
  BY CleanWhenLate DEF CleanInv
<1> QED BY <1>1, Agreement, PlaceInvariance, Cleanness, PTL

\* A time step that is never shorter than dtmin never ends the loop.
LongSteps == \A r \in Ranks : /\ left[r] # "dtmin"
                              /\ pc[r] \in {"save", "ghosts", "open", "write", "dtmin"}
                                 /\ left[r] = "no" => dt[r] >= DtMin

LEMMA DtMinNeverLeft == ASSUME \A d \in DtValues : d >= DtMin PROVE Spec => []LongSteps
<1>1. Init => LongSteps
  BY DEF Init, LongSteps
<1>2. PlaceInv /\ LongSteps /\ [Next]_vars => LongSteps'
  <2> SUFFICES ASSUME PlaceInv, LongSteps, [Next]_vars PROVE LongSteps'
    OBVIOUS
  <2> USE DEF LongSteps
  <2>0. TypeOK
    BY DEF PlaceInv
  <2>1. CASE UNCHANGED vars
    BY <2>1 DEF vars, rankvars
  <2>2. CASE Terminated
    BY <2>1, <2>2 DEF Terminated
  <2>3. ASSUME NEW f \in ControlFiles, Touch(f) PROVE LongSteps'
    BY <2>3 DEF Touch, rankvars
  <2>4. ASSUME NEW r \in Ranks, Signal(r) PROVE LongSteps'
    BY <2>4 DEF Signal
  <2>5. CASE Kill
    BY <2>5 DEF Kill
  <2>6. CASE Launch
    BY <2>6 DEF Launch
  <2>7. ASSUME NEW r \in Ranks, RankStep(r) PROVE LongSteps'
    <3>1. Places(r) /\ dt[r] \in Nat /\ DtMin \in Nat
      BY <2>0, <2>7, RankPlaces, ConstAssumption DEF TypeOK
    <3>2. left[r] # "no" => pc[r] \in PastPc
      BY DEF PlaceInv, LeftOut
    <3> QED BY <3>1, <3>2 DEF Places, GoesTo, PastPc
  <2>8. CASE JointStep
    BY <2>0, <2>8, RootIsRank, ZenonT(40) DEF JointStep, ReadSnapshot, SetDt, UpdateGhosts, CollectErrors,
         MpiFinalize, TypeOK
  <2> QED BY <2>1, <2>2, <2>3, <2>4, <2>5, <2>6, <2>7, <2>8 DEF Next, Environment
<1> QED BY <1>1, <1>2, PlaceInvariance, PTL DEF Spec

\* Where dt stays at or above dtmin as well, the run ends only when all ranks have
\* been told of all errors: no rank comes to the end with one left to collect.
THEOREM ErrorsAreTold ==
  ASSUME ~Signals, ~MaxWall, \A d \in DtValues : d >= DtMin
  PROVE  Spec => []ErrorsToldBeforeStop
<1>1. AgreeInv /\ PlaceInv /\ RootLate /\ LongSteps => ErrorsToldBeforeStop
  <2> SUFFICES ASSUME AgreeInv, PlaceInv, RootLate, LongSteps,
                      NEW r \in Ranks, NEW s \in Ranks, pc[r] = "done", fatal[s]
               PROVE  FALSE
    BY DEF ErrorsToldBeforeStop
  <2>1. AllFollow /\ left[r] # "no"
    BY DEF AgreeInv, AllKilled, AllDie, PlaceInv, LeftOut, OverPc
  <2>2. Comes(View(Root)).left = left[r]
    BY <2>1, LeftAsRoot DEF AgreeInv, Calm
  <2>3. Late(Comes(View(Root)))
    BY DEF RootLate
  <2> QED BY <2>1, <2>2, <2>3 DEF Late, LongSteps
<1> QED BY <1>1, Agreement, PlaceInvariance, Cleanness, DtMinNeverLeft, PTL
-----------------------------------------------------------------------------
(***************************************************************************)
(* Remainders: of which steps every it1-th, and every isave-th, is one.    *)
(***************************************************************************)
LEMMA ModRange ==
  ASSUME NEW x \in Int, NEW n \in Nat \ {0}
  PROVE  x % n \in 0 .. n - 1
OBVIOUS

LEMMA DivMod ==
  ASSUME NEW x \in Int, NEW n \in Nat \ {0}
  PROVE  x = n * (x \div n) + (x % n) /\ x \div n \in Int
OBVIOUS

LEMMA ModIs ==
  ASSUME NEW n \in Nat \ {0}, NEW q \in Int, NEW r \in 0 .. n - 1, NEW x \in Int, x = n * q + r
  PROVE  x % n = r
<1> DEFINE p == x \div n
           s == x % n
<1>1. x = n * p + s /\ p \in Int
  BY DivMod
<1>2. s \in 0 .. n - 1
  BY ModRange
<1> HIDE DEF p, s
<1>3. n * (p - q) = r - s
  BY <1>1, <1>2
<1>4. p - q \in Int /\ r - s < n /\ r - s > -n
  BY <1>1, <1>2
<1>5. p - q <= 0
  <2>1. ASSUME p - q >= 1 PROVE FALSE
    <3>1. n * (p - q) >= n
      BY <1>4, <2>1
    <3> QED BY <1>3, <1>4, <3>1
  <2> QED BY <1>4, <2>1
<1>6. p - q >= 0
  <2>1. ASSUME p - q <= -1 PROVE FALSE
    <3>1. n * (p - q) <= -n
      BY <1>4, <2>1
    <3> QED BY <1>3, <1>4, <3>1, <1>2
  <2> QED BY <1>4, <2>1
<1>7. p = q
  BY <1>1, <1>5, <1>6
<1>8. r = s
  BY <1>1, <1>2, <1>7
<1> QED BY <1>8 DEF s

LEMMA ModStep ==
  ASSUME NEW x \in Int, NEW n \in Nat \ {0}
  PROVE  (x + 1) % n = IF x % n = n - 1 THEN 0 ELSE (x % n) + 1
<1> DEFINE q == x \div n
           r == x % n
<1>1. x = n * q + r /\ q \in Int /\ r \in 0 .. n - 1
  BY DivMod, ModRange
<1> HIDE DEF q, r
<1>2. CASE r = n - 1
  <2>1. x + 1 = n * (q + 1) + 0 /\ q + 1 \in Int /\ 0 \in 0 .. n - 1
    BY <1>1, <1>2
  <2>2. (x + 1) % n = 0
    BY <1>1, <2>1, ModIs
  <2> QED BY <1>2, <2>2 DEF r
<1>3. CASE r # n - 1
  <2>1. x + 1 = n * q + (r + 1) /\ r + 1 \in 0 .. n - 1
    BY <1>1, <1>3
  <2>2. (x + 1) % n = r + 1
    BY <1>1, <2>1, ModIs
  <2> QED BY <1>3, <2>2 DEF r
<1> QED BY <1>2, <1>3

LEMMA ModShift ==
  ASSUME NEW x \in Int, NEW n \in Nat \ {0}
  PROVE  (x - ((x + n) % n)) % n = 0
<1> DEFINE q == x \div n
           r == x % n
<1>1. x = n * q + r /\ q \in Int /\ r \in 0 .. n - 1
  BY DivMod, ModRange
<1> HIDE DEF q, r
<1>2. (x + n) % n = r
  <2>1. x + n = n * (q + 1) + r /\ q + 1 \in Int
    BY <1>1
  <2> QED BY <1>1, <2>1, ModIs
<1>3. x - r = n * q + 0 /\ 0 \in 0 .. n - 1
  BY <1>1
<1>4. (x - r) % n = 0
  BY <1>1, <1>3, ModIs
<1> QED BY <1>2, <1>4
-----------------------------------------------------------------------------
(***************************************************************************)
(* STOP: as long as the root has not looked at the control files since     *)
(* STOP was touched, it has not come further than it1 steps after that,    *)
(* or after it1start.                                                      *)
(***************************************************************************)
Later(i) == IF i > It1Start THEN i ELSE It1Start

StopSeen ==
  stopAt > 0 =>
    /\ it[Root] - Later(stopAt) <= It1
    /\ \/ pc[Root] \in {"resubmit", "killed"} \/ left[Root] # "no"
       \/ /\ "STOP" \in files
          /\ \/ it[Root] - Later(stopAt) <= (it[Root] - 1) % It1
             \/ pc[Root] \in {"top", "stop"} /\ LOut(it[Root])

LEMMA StopRank ==
  ASSUME PlaceInv, StopSeen, NEW r \in Ranks, RankStep(r) PROVE StopSeen'
<1>1. Places(r) /\ Marks(r)
  BY RankPlaces, RankMarks DEF PlaceInv
<1>2. it' = it /\ stopAt' = stopAt
  BY <1>1 DEF Places
<1>3. CASE r # Root
  <2>1. pc'[Root] = pc[Root] /\ left'[Root] = left[Root] /\ ("STOP" \in files' <=> "STOP" \in files)
    BY <1>1, <1>3, RootIsRank DEF Places, Marks
  <2> QED BY <1>2, <2>1 DEF StopSeen
<1>4. CASE r = Root
  <2>1. CASE left'[Root] # "no"
    BY <1>2, <2>1 DEF StopSeen
  <2>2. CASE left'[Root] = "no"
    <3>1. left[Root] = "no" /\ pc'[Root] \in GoesTo(pc[Root])
      BY <1>1, <1>4, <2>2 DEF Places
    <3>2. pc[Root] \notin {"resubmit", "killed"}
      BY <3>1 DEF GoesTo
    <3>3. /\ "STOP" \in files' <=> "STOP" \in files /\ pc[Root] # "stop"
          /\ pc[Root] = "stop" /\ "STOP" \in files => pc'[Root] = "resubmit"
          /\ pc[Root] = "top" /\ LOut(it[Root]) => pc'[Root] = "stop"
      BY <1>1, <1>4, <3>1 DEF Marks, GoesTo
    <3> QED BY <1>2, <3>1, <3>2, <3>3 DEF StopSeen
  <2> QED BY <2>1, <2>2
<1> QED BY <1>3, <1>4

LEMMA StopJoint ==
  ASSUME PlaceInv, StopSeen, JointStep PROVE StopSeen'
<1> USE RootIsRank DEF PlaceInv, TypeOK, diskvars, envvars
<1>0. /\ it[Root] \in Nat \ {0} /\ stopAt \in Nat /\ It1 \in Nat \ {0}
      /\ (it[Root] - 1) % It1 \in 0 .. It1 - 1
  <2>1. it[Root] \in Nat \ {0} /\ it[Root] - 1 \in Int /\ stopAt \in Nat /\ It1 \in Nat \ {0}
    BY ConstAssumption
  <2> QED BY <2>1, ModRange
<1>1. ASSUME it' = it, stopAt' = stopAt, files' = files, left' = left,
             pc[Root] \notin {"top", "stop", "resubmit", "killed"}
      PROVE  StopSeen'
  BY <1>1 DEF StopSeen
<1>2. CASE ReadSnapshot
  BY <1>1, <1>2 DEF ReadSnapshot
<1>3. CASE SetDt
  BY <1>1, <1>3 DEF SetDt
<1>4. CASE UpdateGhosts
  BY <1>1, <1>4 DEF UpdateGhosts
<1>5. CASE CollectErrors
  <2>1. CASE it' = it
    BY <1>1, <1>5, <2>1 DEF CollectErrors
  <2>2. CASE it' # it
    <3>1. /\ it'[Root] = it[Root] + 1 /\ pc'[Root] = "top" /\ pc[Root] = "collect"
          /\ UNCHANGED <<stopAt, files, left>>
      BY <1>5, <2>2 DEF CollectErrors
    <3>2. left[Root] = "no"
      BY <3>1 DEF LeftOut, PastPc
    <3>3. (it'[Root] - 1) % It1 =
            IF (it[Root] - 1) % It1 = It1 - 1 THEN 0 ELSE ((it[Root] - 1) % It1) + 1
      <4>1. it[Root] - 1 \in Int /\ it'[Root] - 1 = (it[Root] - 1) + 1
        BY <1>0, <3>1, SMTT(20)
      <4> QED BY <1>0, <4>1, ModStep
    <3> DEFINE m == (it[Root] - 1) % It1
               n == (it'[Root] - 1) % It1
    <3>4. LOut(it'[Root]) <=> n = 0 /\ it'[Root] > It1Start
      BY DEF LOut
    <3> DEFINE late == Later(stopAt)
    <3>9. late \in Nat /\ late >= It1Start /\ It1Start \in Nat
      BY <1>0, ConstAssumption DEF Later
    <3>5. m \in 0 .. It1 - 1 /\ n = IF m = It1 - 1 THEN 0 ELSE m + 1
      BY <1>0, <3>3
    <3>6. stopAt > 0 => "STOP" \in files /\ it[Root] - late <= m
      BY <3>1, <3>2 DEF StopSeen
    <3>7. stopAt > 0 => /\ it'[Root] - late <= It1 /\ "STOP" \in files'
                        /\ \/ it'[Root] - late <= n
                           \/ n = 0 /\ it'[Root] > It1Start
      <4> HIDE DEF m, n, late
      <4> QED BY <1>0, <3>1, <3>5, <3>6, <3>9, SMTT(20)
    <3>8. Later(stopAt)' = late
      BY <3>1 DEF Later
    <3> QED BY <3>1, <3>4, <3>7, <3>8 DEF StopSeen
  <2> QED BY <2>1, <2>2
<1>6. CASE MpiFinalize
  BY <1>1, <1>6 DEF MpiFinalize
<1> QED BY <1>2, <1>3, <1>4, <1>5, <1>6 DEF JointStep

\* After STOP is touched in step i, step i + it1 (or it1start + it1) is the last begun,
\* even if other reasons end the loop first or a rank catches a signal.
THEOREM StopsInTime == Spec => []StopWithinIt1
<1>1. Init => StopSeen
  BY DEF Init, StopSeen
<1>2. PlaceInv /\ TypeOK' /\ StopSeen /\ [Next]_vars => StopSeen'
  <2> SUFFICES ASSUME PlaceInv, TypeOK', StopSeen, [Next]_vars PROVE StopSeen'
    OBVIOUS
  <2>0. /\ it[Root] \in Nat \ {0} /\ It1 \in Nat \ {0}
        /\ (it[Root] - 1) % It1 \in 0 .. It1 - 1
    <3>1. it[Root] \in Nat \ {0} /\ it[Root] - 1 \in Int /\ It1 \in Nat \ {0}
      BY RootIsRank, ConstAssumption DEF PlaceInv, TypeOK
    <3> QED BY <3>1, ModRange
  <2>1. CASE UNCHANGED vars
    BY <2>1 DEF vars, rankvars, diskvars, envvars, StopSeen
  <2>2. CASE Terminated
    BY <2>1, <2>2 DEF Terminated
  <2>3. ASSUME NEW f \in ControlFiles, Touch(f) PROVE StopSeen'
    <3>1. CASE f = "STOP" /\ f \notin files
      <4>1. stopAt' = it[Root] /\ "STOP" \in files' /\ it' = it
        BY <2>3, <3>1 DEF Touch, rankvars
      <4>2. Later(stopAt)' \in Nat /\ Later(stopAt)' >= it[Root]
        BY <2>0, <4>1, ConstAssumption DEF Later
      <4> QED BY <2>0, <4>1, <4>2 DEF StopSeen
    <3>2. CASE ~(f = "STOP" /\ f \notin files)
      BY <2>3, <3>2 DEF Touch, rankvars, StopSeen
    <3> QED BY <3>1, <3>2
  <2>4. ASSUME NEW r \in Ranks, Signal(r) PROVE StopSeen'
    BY <2>4 DEF Signal, diskvars, envvars, StopSeen
  <2>5. CASE Kill
    BY <2>5, RootIsRank DEF Kill, diskvars, envvars, StopSeen
  <2>6. CASE Launch
    BY <2>6 DEF Launch, StopSeen
  <2> QED BY <2>1, <2>2, <2>3, <2>4, <2>5, <2>6, StopRank, StopJoint DEF Next, Environment
<1>3. PlaceInv /\ StopSeen => StopWithinIt1
  <2> SUFFICES ASSUME PlaceInv, StopSeen, stopAt > 0, NEW r \in Ranks PROVE it[r] <= stopAt + It1 \/ it[r] <= It1Start + It1
    BY DEF StopWithinIt1
  <2>1. it[r] = it[Root] /\ it[Root] \in Nat /\ stopAt \in Nat /\ It1 \in Nat /\ It1Start \in Nat
    BY RootIsRank, ConstAssumption DEF PlaceInv, TypeOK, OneIt
  <2> QED BY <2>1 DEF StopSeen, Later
<1> QED BY <1>1, <1>2, <1>3, TypeCorrect, PlaceInvariance, PTL DEF Spec
-----------------------------------------------------------------------------
(***************************************************************************)
(* isave_shift: how many steps of what length lie behind the last var.dat. *)
(***************************************************************************)
\* What the step of one rank does to var.dat and isave_shift.
Saves(r) ==
  /\ \A q \in Ranks \ {r} : shift'[q] = shift[q] /\ vardat'[q] = vardat[q]
  /\ pc[r] # "save" => shift'[r] = shift[r]
  /\ pc[r] \notin {"open", "write"} => vardat'[r] = vardat[r]
  /\ pc[r] = "write" => vardat'[r] = t[r]
  /\ pc[r] = "save" =>
       \/ /\ pc'[r] = "ghosts" /\ ~(r = Root /\ "SAVE" \notin files)
          /\ shift'[r] = ((it[r] + Isave - shift[r]) % Isave) + shift[r]
       \/ /\ pc'[r] = IF (it[r] - shift[r]) % Isave = 0 THEN "ghosts" ELSE "dtmin"
          /\ shift'[r] = shift[r]

LEMMA RankSaves ==
  ASSUME TypeOK, NEW r \in Ranks, RankStep(r) PROVE Saves(r)
<1> USE DEF TypeOK, Saves, Goto, Leave, diskvars
<1>1. CASE LoopTop(r)
  BY <1>1 DEF LoopTop
<1>2. CASE CheckStop(r)
  BY <1>2 DEF CheckStop
<1>3. CASE CheckResubmit(r)
  BY <1>3 DEF CheckResubmit
<1>4. CASE CheckReload(r)
  BY <1>4 DEF CheckReload
<1>5. CASE ReadRunPars(r)
  BY <1>5 DEF ReadRunPars
<1>6. CASE RemoveReload(r)
  BY <1>6 DEF RemoveReload
<1>7. CASE CheckTMax(r)
  BY <1>7 DEF CheckTMax
<1>8. CASE ComputeStep(r)
  BY <1>8 DEF ComputeStep
<1>9. CASE CheckSave(r)
  <2>1. PICK lsave \in BOOLEAN :
          /\ Bcast(r, "save", "SAVE" \in files, lsave)
          /\ Goto(r, IF lsave \/ (it[r] - shift[r]) % Isave = 0 THEN "ghosts" ELSE "dtmin")
          /\ shift' = [shift EXCEPT ![r] =
                         IF lsave THEN ((it[r] + Isave - @) % Isave) + @ ELSE @]
    BY <1>9 DEF CheckSave
  <2>2. r = Root /\ "SAVE" \notin files => lsave = FALSE
    BY <2>1 DEF Bcast
  <2>3. pc[r] = "save" /\ vardat' = vardat
    BY <1>9 DEF CheckSave
  <2>4. CASE lsave
    BY <2>1, <2>2, <2>3, <2>4
  <2>5. CASE ~lsave
    BY <2>1, <2>3, <2>5
  <2> QED BY <2>4, <2>5
<1>10. CASE OpenSnapshot(r)
  BY <1>10 DEF OpenSnapshot
<1>11. CASE WriteSnapshot(r)
  BY <1>11 DEF WriteSnapshot
<1>12. CASE CheckDtMin(r)
  BY <1>12 DEF CheckDtMin
<1>13. CASE CheckWallTime(r)
  BY <1>13 DEF CheckWallTime
<1>14. CASE FinishRun(r)
  BY <1>14 DEF FinishRun
<1>15. CASE DieGracefully(r)
  BY <1>15 DEF DieGracefully
<1> QED BY <1>1, <1>2, <1>3, <1>4, <1>5, <1>6, <1>7, <1>8,
           <1>9, <1>10, <1>11, <1>12, <1>13, <1>14, <1>15 DEF RankStep

\* n steps of at least MinDt and at most MaxDt since the root's var.dat.
StepsSince(n) ==
  /\ vardat[Root] # Torn
  /\ n * MinDt <= t[Root] - vardat[Root] /\ t[Root] - vardat[Root] <= n * MaxDt

BeforePc == {"top", "stop", "resubmit", "reload", "read", "unreload", "tmax", "step", "setdt"}
AfterPc  == {"dtmin", "wall", "collect"}

Spacing ==
  /\ pc[Root] = "rsnap" => it[Root] = 1 /\ shift[Root] = 0
  /\ pc[Root] \in BeforePc => StepsSince((it[Root] - 1 - shift[Root]) % Isave)
  /\ pc[Root] = "save"     => StepsSince(((it[Root] - 1 - shift[Root]) % Isave) + 1)
  /\ pc[Root] \in AfterPc  => StepsSince((it[Root] - shift[Root]) % Isave)
  /\ pc[Root] \in {"ghosts", "open", "write"} /\ left[Root] = "no"
       => (it[Root] - shift[Root]) % Isave = 0

SomeDt == \E lo, hi \in DtValues : \A d \in DtValues : lo <= d /\ d <= hi

LEMMA DtBounds ==
  ASSUME SomeDt
  PROVE  /\ MinDt \in Nat /\ MaxDt \in Nat
         /\ \A d \in DtValues : d \in Nat /\ MinDt <= d /\ d <= MaxDt
BY ConstAssumption DEF SomeDt, MinDt, MaxDt

LEMMA StepsNone == ASSUME SomeDt, vardat[Root] # Torn, t[Root] = vardat[Root], t[Root] \in Nat
                   PROVE  StepsSince(0)
BY DtBounds DEF StepsSince

LEMMA RootTimes == ASSUME TypeOK PROVE t[Root] \in Nat /\ vardat[Root] \in Int
BY RootIsRank DEF TypeOK, Torn

\* ... which one more step makes n + 1.
LEMMA OneStepMore ==
  ASSUME SomeDt, TypeOK, NEW n \in Nat, StepsSince(n), NEW d \in DtValues,
         t'[Root] = t[Root] + d, vardat'[Root] = vardat[Root]
  PROVE  StepsSince(n + 1)'
<1>1. /\ d \in Nat /\ MinDt \in Nat /\ MaxDt \in Nat /\ MinDt <= d /\ d <= MaxDt
      /\ t[Root] \in Nat /\ vardat[Root] \in Int
  BY DtBounds, RootTimes
<1>2. (n + 1) * MinDt = n * MinDt + MinDt /\ (n + 1) * MaxDt = n * MaxDt + MaxDt
      /\ n * MinDt \in Nat /\ n * MaxDt \in Nat
  BY <1>1
<1> DEFINE a == n * MinDt
           b == n * MaxDt
<1>3. /\ vardat'[Root] # Torn
      /\ (n + 1) * MinDt <= t'[Root] - vardat'[Root] /\ t'[Root] - vardat'[Root] <= (n + 1) * MaxDt
  <2>1. a <= t[Root] - vardat[Root] /\ t[Root] - vardat[Root] <= b /\ vardat[Root] # Torn
    BY DEF StepsSince
  <2>2. a \in Nat /\ b \in Nat /\ (n + 1) * MinDt = a + MinDt /\ (n + 1) * MaxDt = b + MaxDt
    BY <1>2
  <2> HIDE DEF a, b
  <2> QED BY <1>1, <2>1, <2>2
<1> QED BY <1>3 DEF StepsSince, MinDt, MaxDt

LEMMA Remainders ==
  ASSUME TypeOK
  PROVE  /\ it[Root] \in Nat /\ shift[Root] \in Int /\ Isave \in Nat \ {0}
         /\ (it[Root] - 1 - shift[Root]) % Isave \in 0 .. Isave - 1
         /\ (it[Root] - shift[Root]) % Isave =
              IF (it[Root] - 1 - shift[Root]) % Isave = Isave - 1 THEN 0
              ELSE ((it[Root] - 1 - shift[Root]) % Isave) + 1
<1>1. /\ it[Root] \in Nat /\ shift[Root] \in Int /\ Isave \in Nat \ {0}
      /\ it[Root] - 1 - shift[Root] \in Int
      /\ it[Root] - shift[Root] = (it[Root] - 1 - shift[Root]) + 1
  BY RootIsRank, ConstAssumption DEF TypeOK
<1> QED BY <1>1, ModRange, ModStep

\* What SpacingInv and the property say of a root that reads no var.dat and takes no step.
LEMMA SpacingRank ==
  ASSUME SomeDt, PlaceInv, Spacing, NEW r \in Ranks, RankStep(r)
  PROVE  /\ Spacing'
         /\ pc[Root] = "save" /\ pc'[Root] = "ghosts" /\ "SAVE" \notin files => StepsSince(Isave)
<1>1. Places(r) /\ Saves(r)
  BY RankPlaces, RankSaves DEF PlaceInv
<1>2. it' = it /\ t' = t
  BY <1>1 DEF Places
<1>3. CASE r # Root
  <2>1. /\ pc'[Root] = pc[Root] /\ left'[Root] = left[Root]
        /\ shift'[Root] = shift[Root] /\ vardat'[Root] = vardat[Root]
    BY <1>1, <1>3, RootIsRank DEF Places, Saves
  <2>2. \A n : StepsSince(n)' <=> StepsSince(n)
    BY <1>2, <2>1 DEF StepsSince, MinDt, MaxDt
  <2> QED BY <1>2, <2>1, <2>2 DEF Spacing
<1>4. CASE r = Root
  <2> DEFINE k == (it[Root] - 1 - shift[Root]) % Isave
             p == (it[Root] - shift[Root]) % Isave
             x == it[Root] - shift[Root]
  <2>0. /\ it[Root] \in Nat /\ shift[Root] \in Int /\ Isave \in Nat \ {0}
        /\ k \in 0 .. Isave - 1 /\ p = IF k = Isave - 1 THEN 0 ELSE k + 1
    BY Remainders DEF PlaceInv
  <2>1. CASE pc[Root] \in BeforePc
    <3>1. /\ pc'[Root] \in BeforePc \cup {"ghosts"}
          /\ pc'[Root] = "ghosts" => left'[Root] # "no"
          /\ shift'[Root] = shift[Root] /\ vardat'[Root] = vardat[Root]
      BY <1>1, <1>4, <2>1 DEF Places, GoesTo, Saves, BeforePc
    <3>2. \A n : StepsSince(n)' <=> StepsSince(n)
      BY <1>2, <3>1 DEF StepsSince, MinDt, MaxDt
    <3> QED BY <1>2, <2>1, <3>1, <3>2 DEF Spacing, BeforePc, AfterPc
  <2>2. CASE pc[Root] = "save"
    <3>0. left'[Root] = left[Root] /\ pc'[Root] \in {"ghosts", "dtmin"}
          /\ vardat'[Root] = vardat[Root]
      BY <1>1, <1>4, <2>2 DEF Places, GoesTo, Saves
    <3>1. \A n : StepsSince(n)' <=> StepsSince(n)
      BY <1>2, <3>0 DEF StepsSince, MinDt, MaxDt
    <3>2. StepsSince(k + 1)
      BY <2>2 DEF Spacing
    <3>3. CASE /\ pc'[Root] = "ghosts" /\ "SAVE" \in files
               /\ shift'[Root] = ((it[Root] + Isave - shift[Root]) % Isave) + shift[Root]
      <4>1. (x - ((x + Isave) % Isave)) % Isave = 0
        <5>1. x \in Int
          BY <2>0
        <5> HIDE DEF x
        <5> QED BY <2>0, <5>1, ModShift, SMTT(20)
      <4>2. /\ (x + Isave) % Isave \in Int /\ x + Isave = it[Root] + Isave - shift[Root]
        BY <2>0, ModRange
      <4>3. it'[Root] - shift'[Root] = x - ((x + Isave) % Isave)
        BY <1>2, <2>0, <3>3, <4>2
      <4>4. (it'[Root] - shift'[Root]) % Isave = 0
        BY <4>1, <4>3
      <4> QED BY <3>3, <4>4 DEF Spacing, BeforePc, AfterPc
    <3>4. CASE /\ pc'[Root] = IF (it[Root] - shift[Root]) % Isave = 0 THEN "ghosts" ELSE "dtmin"
               /\ shift'[Root] = shift[Root]
      <4>1. CASE p = 0
        <5>1. pc'[Root] = "ghosts" /\ k + 1 = Isave
          BY <2>0, <3>4, <4>1
        <5>2. StepsSince(Isave)
          BY <3>2, <5>1
        <5>3. (it'[Root] - shift'[Root]) % Isave = 0
          BY <1>2, <3>4, <4>1
        <5> QED BY <5>1, <5>2, <5>3 DEF Spacing, BeforePc, AfterPc
      <4>2. CASE p # 0
        <5>1. pc'[Root] = "dtmin" /\ k + 1 = p
          BY <2>0, <3>4, <4>2
        <5>2. (it'[Root] - shift'[Root]) % Isave = k + 1
          BY <1>2, <3>4, <5>1
        <5>3. StepsSince((it[Root] - shift[Root]) % Isave)'
          BY <3>1, <3>2, <5>2
        <5> QED BY <5>1, <5>3 DEF Spacing, BeforePc, AfterPc
      <4> QED BY <4>1, <4>2
    <3> QED BY <1>1, <1>4, <2>2, <3>3, <3>4 DEF Saves
  <2>3. CASE pc[Root] \in AfterPc
    <3>1. /\ pc'[Root] \in AfterPc \cup {"ghosts"}
          /\ pc'[Root] = "ghosts" => left'[Root] # "no"
          /\ shift'[Root] = shift[Root] /\ vardat'[Root] = vardat[Root]
      BY <1>1, <1>4, <2>3 DEF Places, GoesTo, Saves, AfterPc
    <3>2. \A n : StepsSince(n)' <=> StepsSince(n)
      BY <1>2, <3>1 DEF StepsSince, MinDt, MaxDt
    <3> QED BY <1>2, <2>3, <3>1, <3>2 DEF Spacing, BeforePc, AfterPc
  <2>4. CASE pc[Root] \in {"open", "write"}
    <3>1. shift'[Root] = shift[Root] /\ left'[Root] = left[Root]
      BY <1>1, <1>4, <2>4 DEF Places, GoesTo, Saves
    <3>2. CASE pc'[Root] \in {"write", "finish"}
      BY <1>1, <1>2, <1>4, <2>4, <3>1, <3>2 DEF Spacing, BeforePc, AfterPc, Places, GoesTo
    <3>3. CASE pc'[Root] = "dtmin"
      <4>1. /\ pc[Root] = "write" /\ left[Root] = "no" /\ vardat'[Root] = t[Root]
            /\ t[Root] \in Nat
        BY <1>1, <1>4, <2>4, <3>3, RootIsRank DEF Places, GoesTo, Saves, PlaceInv, TypeOK
      <4>2. 0 * MinDt = 0 /\ 0 * MaxDt = 0 /\ vardat'[Root] # Torn /\ t'[Root] - vardat'[Root] = 0
        BY <1>2, <4>1, DtBounds DEF Torn
      <4>3. StepsSince(0)'
        BY <4>2 DEF StepsSince, MinDt, MaxDt
      <4>4. (it'[Root] - shift'[Root]) % Isave = 0
        BY <1>2, <2>4, <3>1, <4>1 DEF Spacing
      <4>5. StepsSince((it[Root] - shift[Root]) % Isave)'
        BY <4>3, <4>4
      <4> QED BY <3>3, <4>1, <4>5 DEF Spacing, BeforePc, AfterPc
    <3> QED BY <1>1, <1>4, <2>4, <3>2, <3>3 DEF Places, GoesTo
  <2>5. CASE pc[Root] \in {"finish", "die"}
    BY <1>1, <1>4, <2>5 DEF Places, GoesTo, Spacing, BeforePc, AfterPc
  <2>6. pc[Root] \in BeforePc \cup AfterPc \cup {"save", "open", "write", "finish", "die"}
    BY <1>1, <1>4 DEF Places, GoesTo, BeforePc, AfterPc
  <2> QED BY <2>1, <2>2, <2>3, <2>4, <2>5, <2>6
<1> QED BY <1>3, <1>4

LEMMA SpacingJoint ==
  ASSUME SomeDt, IresetTstart = 0, PlaceInv, TypeOK', Spacing, JointStep PROVE Spacing'
<1> USE RootIsRank
<1>0. /\ TypeOK
      /\ left[Root] # "no" => pc[Root] \in PastPc
      /\ pc[Root] \in OverPc \/ ~lastsnap[Root] => left[Root] # "no"
  BY DEF PlaceInv, LeftOut
<1> DEFINE k == (it[Root] - 1 - shift[Root]) % Isave
           p == (it[Root] - shift[Root]) % Isave
<1>1. CASE ReadSnapshot
  <2>1. pc[Root] = "rsnap" /\ pc'[Root] \in {"killed", "die", "top"}
    BY <1>0, <1>1 DEF ReadSnapshot, TypeOK
  <2>2. CASE pc'[Root] = "top"
    <3>1. vardat[Root] # Torn /\ t'[Root] = vardat'[Root] /\ vardat' = vardat
          /\ it'[Root] = 1 /\ shift'[Root] = 0
      BY <1>0, <1>1, <2>1, <2>2 DEF ReadSnapshot, diskvars, Spacing, TypeOK
    <3>2. /\ vardat'[Root] # Torn /\ t'[Root] - vardat'[Root] = 0
          /\ 0 * MinDt = 0 /\ 0 * MaxDt = 0
      BY <1>0, <3>1, DtBounds DEF Torn, TypeOK
    <3>3. StepsSince(0)'
      BY <3>2 DEF StepsSince, MinDt, MaxDt
    <3>4. (it'[Root] - 1 - shift'[Root]) % Isave = 0
      <4>1. 0 = Isave * 0 + 0 /\ 0 \in 0 .. Isave - 1 /\ Isave \in Nat \ {0}
        BY ConstAssumption
      <4>2. 0 % Isave = 0
        BY <4>1, ModIs
      <4> QED BY <3>1, <4>2
    <3>5. StepsSince((it[Root] - 1 - shift[Root]) % Isave)'
      BY <3>3, <3>4
    <3> QED BY <2>2, <3>5 DEF Spacing, BeforePc, AfterPc
  <2> QED BY <2>1, <2>2 DEF Spacing, BeforePc, AfterPc
<1>2. CASE SetDt
  <2>1. PICK d \in DtValues : t' = [r \in Ranks |-> t[r] + d]
    BY <1>2 DEF SetDt
  <2>2. /\ pc[Root] = "setdt" /\ pc'[Root] = "save" /\ t'[Root] = t[Root] + d
        /\ vardat' = vardat /\ it' = it /\ shift' = shift
    BY <1>0, <1>2, <2>1 DEF SetDt, diskvars, TypeOK
  <2>3. k \in Nat /\ StepsSince(k)
    <3>1. k \in 0 .. Isave - 1 /\ Isave \in Nat
      BY <1>0, Remainders
    <3>2. StepsSince(k)
      BY <2>2 DEF Spacing, BeforePc
    <3> HIDE DEF k
    <3> QED BY <3>1, <3>2
  <2>4. PICK n \in Nat : n = k
    BY <2>3
  <2>5. StepsSince(n + 1)'
    <3>1. StepsSince(n) /\ vardat'[Root] = vardat[Root]
      BY <2>2, <2>3, <2>4
    <3> QED BY <1>0, <2>2, <3>1, OneStepMore
  <2>6. ((it'[Root] - 1 - shift'[Root]) % Isave) + 1 = n + 1
    BY <2>2, <2>4
  <2>7. StepsSince(((it[Root] - 1 - shift[Root]) % Isave) + 1)'
    BY <2>5, <2>6
  <2> QED BY <2>2, <2>7 DEF Spacing, BeforePc, AfterPc
<1>3. CASE UpdateGhosts
  <2>1. /\ pc[Root] = "ghosts" /\ pc'[Root] \in {"open", "finish"}
        /\ left' = left /\ it' = it /\ shift' = shift
    BY <1>0, <1>3 DEF UpdateGhosts, TypeOK
  <2> QED BY <2>1 DEF Spacing, BeforePc, AfterPc
<1>4. CASE CollectErrors
  <2>1. /\ pc[Root] = "collect" /\ UNCHANGED <<t, shift, vardat>>
        /\ pc'[Root] = "die" \/ (pc'[Root] = "top" /\ it'[Root] = it[Root] + 1)
    BY <1>0, <1>4 DEF CollectErrors, diskvars, TypeOK
  <2>2. CASE pc'[Root] = "top" /\ it'[Root] = it[Root] + 1
    <3>1. StepsSince(p)
      BY <2>1 DEF Spacing, AfterPc
    <3>2. PICK n : n = p
      OBVIOUS
    <3>3. StepsSince(n)'
      BY <2>1, <3>1, <3>2 DEF StepsSince, MinDt, MaxDt
    <3>4. it'[Root] - 1 - shift'[Root] = it[Root] - shift[Root]
      <4>1. it[Root] \in Nat /\ shift[Root] \in Int /\ shift' = shift
        BY <1>0, <2>1 DEF TypeOK
      <4> QED BY <2>2, <4>1
    <3>5. (it'[Root] - 1 - shift'[Root]) % Isave = n
      BY <3>2, <3>4
    <3>6. StepsSince((it[Root] - 1 - shift[Root]) % Isave)'
      BY <3>3, <3>5
    <3> QED BY <2>2, <3>6 DEF Spacing, BeforePc, AfterPc
  <2> QED BY <2>1, <2>2 DEF Spacing, BeforePc, AfterPc
<1>5. CASE MpiFinalize
  <2>1. pc'[Root] \in {"done", "dead"}
    BY <1>0, <1>5 DEF MpiFinalize, TypeOK
  <2> QED BY <2>1 DEF Spacing, BeforePc, AfterPc
<1> QED BY <1>1, <1>2, <1>3, <1>4, <1>5 DEF JointStep

LEMMA SpacingEnvironment ==
  ASSUME PlaceInv, Spacing, Environment PROVE Spacing'
<1> USE RootIsRank
<1>1. ASSUME UNCHANGED <<t, it, shift, left, vardat>>, pc'[Root] = pc[Root] PROVE Spacing'
  BY <1>1 DEF Spacing, StepsSince, MinDt, MaxDt
<1>2. ASSUME NEW f \in ControlFiles, Touch(f) PROVE Spacing'
  BY <1>1, <1>2 DEF Touch, rankvars
<1>3. ASSUME NEW r \in Ranks, Signal(r) PROVE Spacing'
  BY <1>1, <1>3 DEF Signal, diskvars
<1>4. CASE Kill
  BY <1>4 DEF Kill, Spacing, BeforePc, AfterPc
<1>5. CASE Launch
  BY <1>5 DEF Launch, Spacing, BeforePc, AfterPc
<1> QED BY <1>2, <1>3, <1>4, <1>5 DEF Environment

\* An automatic var.dat comes isave steps after the last one, whether that one
\* was automatic, asked for by SAVE, or the one the job was started from; also
\* with signals, with STOP and RELOAD, and however often the job was killed.
THEOREM AutosavesAreSpaced == ASSUME SomeDt, IresetTstart = 0 PROVE Spec => AutosaveSpacing
<1> DEFINE A == pc[Root] = "save" /\ pc'[Root] = "ghosts" /\ "SAVE" \notin files
                => /\ t[Root] - vardat[Root] >= Isave * MinDt
                   /\ t[Root] - vardat[Root] <= Isave * MaxDt
<1>1. Init => Spacing
  BY RootIsRank DEF Init, Spacing, BeforePc, AfterPc
<1>2. PlaceInv /\ TypeOK' /\ Spacing /\ [Next]_vars => Spacing' /\ [A]_vars
  <2> SUFFICES ASSUME PlaceInv, TypeOK', Spacing, [Next]_vars PROVE Spacing' /\ [A]_vars
    OBVIOUS
  <2>1. CASE UNCHANGED vars
    BY <2>1 DEF vars, rankvars, diskvars, Spacing, StepsSince, MinDt, MaxDt
  <2>2. CASE Terminated
    BY <2>1, <2>2 DEF Terminated
  <2>3. ASSUME NEW r \in Ranks, RankStep(r) PROVE Spacing' /\ A
    <3>1. /\ Spacing'
          /\ pc[Root] = "save" /\ pc'[Root] = "ghosts" /\ "SAVE" \notin files => StepsSince(Isave)
      BY <2>3, SpacingRank
    <3>2. StepsSince(Isave) => /\ t[Root] - vardat[Root] >= Isave * MinDt
                               /\ t[Root] - vardat[Root] <= Isave * MaxDt
      <4>1. t[Root] \in Nat /\ vardat[Root] \in Int
        BY RootTimes DEF PlaceInv
      <4>2. Isave * MinDt \in Int /\ Isave * MaxDt \in Int
        <5>1. Isave \in Nat /\ MinDt \in Nat /\ MaxDt \in Nat
          BY ConstAssumption, DtBounds
        <5> QED BY <5>1
      <4> QED BY <4>1, <4>2 DEF StepsSince
    <3> QED BY <3>1, <3>2
  <2>4. CASE JointStep
    <3>1. pc[Root] # "save"
      BY <2>4, RootIsRank DEF JointStep, ReadSnapshot, SetDt, UpdateGhosts, CollectErrors, MpiFinalize
    <3> QED BY <2>4, <3>1, SpacingJoint
  <2>5. CASE Environment
    <3>1. pc'[Root] = "ghosts" => pc[Root] = "ghosts"
      BY <2>5, RootIsRank DEF Environment, Touch, Signal, Kill, Launch, rankvars
    <3> QED BY <2>5, <3>1, SpacingEnvironment
  <2> QED BY <2>1, <2>2, <2>3, <2>4, <2>5 DEF Next
<1>3. Spec => [][A]_vars
  BY <1>1, <1>2, TypeCorrect, PlaceInvariance, PTL DEF Spec
<1> QED BY <1>3 DEF AutosaveSpacing
-----------------------------------------------------------------------------
(***************************************************************************)
(* A restart with ireset_tstart = 0: nobody computes on data of a time     *)
(* other than that of the job.                                             *)
(***************************************************************************)
Fresh == \A r \in Ranks : BeforeFirstStep(r) => vardat[r] = t[r]

LEMMA FreshRank ==
  ASSUME PlaceInv, Fresh, NEW r \in Ranks, RankStep(r) PROVE Fresh'
<1>1. Places(r) /\ Saves(r)
  BY RankPlaces, RankSaves DEF PlaceInv
<1> SUFFICES ASSUME NEW q \in Ranks, BeforeFirstStep(q)' PROVE vardat'[q] = t'[q]
  BY DEF Fresh
<1>2. it' = it /\ t' = t
  BY <1>1 DEF Places
<1>3. CASE q # r
  BY <1>1, <1>2, <1>3 DEF Fresh, BeforeFirstStep, Places, Saves
<1>4. CASE q = r
  <2>1. pc'[r] \in GoesTo(pc[r])
    BY <1>1, <1>4 DEF Places, BeforeFirstStep
  <2>2. pc[r] \in {"top", "stop", "resubmit", "reload", "read", "unreload", "tmax", "step"}
    BY <1>4, <2>1 DEF GoesTo, BeforeFirstStep
  <2>3. vardat'[r] = vardat[r] /\ BeforeFirstStep(r)
    BY <1>1, <1>2, <1>4, <2>2 DEF Saves, BeforeFirstStep
  <2> QED BY <1>2, <1>4, <2>3 DEF Fresh
<1> QED BY <1>3, <1>4

LEMMA FreshJoint ==
  ASSUME IresetTstart = 0, TypeOK, Fresh, JointStep PROVE Fresh'
<1> SUFFICES ASSUME NEW q \in Ranks, BeforeFirstStep(q)' PROVE vardat'[q] = t'[q]
  BY DEF Fresh
<1> USE DEF BeforeFirstStep
<1>1. CASE ReadSnapshot
  <2>1. pc' = [r \in Ranks |-> "top"] /\ vardat' = vardat
    BY <1>1 DEF ReadSnapshot, diskvars
  <2>2. \A r \in Ranks : vardat[r] = vardat[Root] /\ t'[r] = vardat[Root]
    BY <1>1, <2>1, RootIsRank DEF ReadSnapshot
  <2> QED BY <2>1, <2>2
<1>2. CASE SetDt
  BY <1>2 DEF SetDt
<1>3. CASE UpdateGhosts
  BY <1>3 DEF UpdateGhosts
<1>4. CASE CollectErrors
  <2>1. it[q] \in Nat \ {0} /\ (pc'[q] = "die" \/ it'[q] = it[q] + 1)
    BY <1>4 DEF CollectErrors, TypeOK
  <2> QED BY <2>1
<1>5. CASE MpiFinalize
  BY <1>5 DEF MpiFinalize
<1> QED BY <1>1, <1>2, <1>3, <1>4, <1>5 DEF JointStep

\* With ireset_tstart = 0, whenever and however often the job is killed while
\* var.dat is written: a run that gets past rsnap starts from data of one time.
THEOREM RestartIsConsistent == ASSUME IresetTstart = 0 PROVE Spec => []SameData
<1>1. Init => Fresh
  BY DEF Init, Fresh, BeforeFirstStep
<1>2. PlaceInv /\ Fresh /\ [Next]_vars => Fresh'
  <2> SUFFICES ASSUME PlaceInv, Fresh, [Next]_vars PROVE Fresh'
    OBVIOUS
  <2>1. CASE UNCHANGED vars
    BY <2>1 DEF vars, rankvars, diskvars, Fresh, BeforeFirstStep
  <2>2. CASE Terminated
    BY <2>1, <2>2 DEF Terminated
  <2>3. CASE Environment
    BY <2>3 DEF Environment, Touch, Signal, Kill, Launch, rankvars, diskvars, Fresh, BeforeFirstStep
  <2>4. TypeOK
    BY DEF PlaceInv
  <2> QED BY <2>1, <2>2, <2>3, <2>4, FreshRank, FreshJoint DEF Next
<1>3. SnapInv /\ Fresh => SameData
  <2>1. \A l \in InLoop : l \notin {"die", "dying", "dead", "killed"}
    BY DEF InLoop, BcastPc, Ops, LocalPc, SyncPc
  <2> QED BY <2>1 DEF SnapInv, OneTime, SameData, Fresh, DyingPc
<1> QED BY <1>1, <1>2, <1>3, SnapInvariance, PlaceInvariance, PTL DEF Spec
=============================================================================
