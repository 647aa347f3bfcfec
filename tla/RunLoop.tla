------------------------------ MODULE RunLoop ------------------------------
(***************************************************************************)
(* The time loop of run.x (src/src/run.f90) as NP single-program MPI ranks *)
(* execute it, with the control files a user touches, the var.dat each     *)
(* rank writes with io_dist, fatal errors that only one rank notices       *)
(* (messages.f90), and a batch system that kills and relaunches the job.   *)
(*                                                                         *)
(* Every rank has its own program counter and its own copy of the          *)
(* replicated variables.  A broadcast is eager: the root appends to one    *)
(* FIFO per receiver and goes on.  An all-reduce, a barrier, and the       *)
(* reduce-then-broadcast of fatal_error_local_collect cannot complete      *)
(* before every rank has entered them; they are one action of all ranks.   *)
(***************************************************************************)
EXTENDS Integers, Sequences

CONSTANTS
  NP,           \* number of ranks, ncpus
  NtOf,         \* the value of nt in each version of run.in, a sequence
  It1,          \* a diagnostic (and control file) step every it1 steps ...
  It1Start,     \* ... after step it1start
  DueTimes,     \* the times at which a slice or a 2D average is due (lvideo, l2davg):
                \* t only grows during a job, so update_snaptime picks some set of times
  Isave,        \* var.dat every isave steps
  TMax,         \* tmax, in units of time
  DtValues,     \* the time steps the Courant condition may ask for
  DtMin,        \* dtmin
  MaxWall,      \* is max_walltime > 0 ?
  IresetTstart, \* ireset_tstart (0, MINT or at least MAXT), with tstart unspecified
  FatalErrors,  \* may a rank call fatal_error_local during a step?
  Signals,      \* may a rank catch one of the signals of sigval?
  Touchable,    \* control files the user touches
  MaxTouch,     \* bound on the number of touches
  MaxRuns       \* bound on the number of launches; > 1 allows Kill

Root  == 0
Ranks == 0 .. NP - 1
MINT  == 1             \* the default of ireset_tstart is MAXT, 2
Torn  == -1            \* a var.dat that was opened anew but not closed

ReloadFiles  == {"RELOAD", "RELOAD_ALWAYS"}
ControlFiles == {"STOP", "SAVE", "RESUBMIT"} \cup ReloadFiles
StatusFiles  == {"ERROR", "COMPLETED", "ENDTIME"}

ASSUME ConstAssumption ==
  /\ NP \in Nat \ {0}
  /\ NtOf \in Seq(Nat) /\ NtOf # <<>>
  /\ It1 \in Nat \ {0} /\ Isave \in Nat \ {0}
  /\ It1Start \in Nat /\ DueTimes \subseteq Nat
  /\ TMax \in Nat /\ DtMin \in Nat /\ IresetTstart \in Nat
  /\ DtValues \subseteq Nat \ {0}
  /\ MaxWall \in BOOLEAN /\ FatalErrors \in BOOLEAN /\ Signals \in BOOLEAN
  /\ Touchable \subseteq ControlFiles
  /\ MaxTouch \in Nat /\ MaxRuns \in Nat \ {0}

VARIABLES
  pc,         \* where each rank is
  it,         \* its step number
  t,          \* its simulation time
  dt,         \* its time step
  onemore,    \* lonemorestep
  fatal,      \* fatal_errors > 0: registered, not yet collected
  emergency,  \* emergency_stop of signal_handling.f90
  lastsnap,   \* save_lastsnap
  shift,      \* isave_shift
  pars,       \* the version of run.in it works with
  left,       \* why it left the time loop ("no" while inside)
  chan,       \* broadcasts of the root each other rank has not yet received
  files,      \* control and status files in the run directory
  runin,      \* the version of run.in on disk
  vardat,     \* the time of the var.dat each rank has on disk, or Torn
  touches, runs, \* bounded counters of the environment
  stopAt      \* history: the step the root was in when STOP was touched

rankvars == <<pc, it, t, dt, onemore, fatal, emergency, lastsnap, shift, pars, left>>
diskvars == <<files, runin, vardat>>
envvars  == <<touches, runs, stopAt>>
vars     == <<rankvars, chan, diskvars, envvars>>

Ops        == {"stop", "resubmit", "reload", "read", "unreload", "save", "wall"}
Reasons    == {"no", "nt", "stop", "tmax", "dtmin", "wall"}
BcastPc    == Ops
SyncPc     == {"rsnap", "setdt", "ghosts", "collect", "finalize", "dying"}
LocalPc    == {"top", "tmax", "step", "open", "write", "dtmin", "finish", "die"}
EndedPc    == {"done", "dead", "killed"}
Pcs        == BcastPc \cup SyncPc \cup LocalPc \cup EndedPc
Ended      == \A r \in Ranks : pc[r] \in EndedPc

Goto(r, l) == pc' = [pc EXCEPT ![r] = l]

\* Mutant of LOut: a diagnostic step every it1*it1 steps.
LOutRare(i) == (i - 1) % (It1 * It1) = 0 /\ i > It1Start

\* lout: control files are looked at, and diagnostics printed, in these steps.
LOut(i) == (i - 1) % It1 = 0 /\ i > It1Start

\* lout .or. lvideo .or. l2davg: does this step produce diagnostic output?
OutputDue(i, time) == LOut(i) \/ time \in DueTimes

(***************************************************************************)
(* MPI_BCAST from the root.  own is what the root has to say; v is what    *)
(* this rank gets to know.  MPI pairs the n-th broadcast of the root with   *)
(* the n-th one of the receiver, whatever each of them is about: only the  *)
(* data types (logical or text) have to agree.                             *)
(***************************************************************************)
Bcast(r, op, own, v) ==
  IF r = Root
  THEN /\ v = own
       /\ chan' = [s \in Ranks |-> IF s = Root THEN <<>>
                                   ELSE Append(chan[s], [op |-> op, val |-> v])]
  ELSE /\ chan[r] # <<>>
       /\ (Head(chan[r]).op = "read") = (op = "read")
       /\ v = Head(chan[r]).val
       /\ chan' = [chan EXCEPT ![r] = Tail(@)]

\* file_exists(file, DELETE=.true.) happens on the root only.
Delete(r, f) == files' = IF r = Root THEN files \ {f} ELSE files

\* Mutant of Leave: no final snapshot when var.dat has just been written.
LeaveUnlessJustSaved(r, why) ==
  /\ left' = [left EXCEPT ![r] = why]
  /\ Goto(r, IF (it[r] - shift[r]) % Isave = 0 THEN "finish" ELSE "ghosts")

\* Leaving Time_loop: on to the final snapshot.
Leave(r, why) ==
  /\ left' = [left EXCEPT ![r] = why]
  /\ Goto(r, "ghosts")
-----------------------------------------------------------------------------
Init ==
  /\ pc        = [r \in Ranks |-> "rsnap"]
  /\ it        = [r \in Ranks |-> 1]
  /\ t         = [r \in Ranks |-> 0]
  /\ dt        = [r \in Ranks |-> 0]
  /\ onemore   = [r \in Ranks |-> FALSE]
  /\ fatal     = [r \in Ranks |-> FALSE]
  /\ emergency = [r \in Ranks |-> FALSE]
  /\ lastsnap  = [r \in Ranks |-> TRUE]
  /\ shift     = [r \in Ranks |-> 0]
  /\ left      = [r \in Ranks |-> "no"]
  /\ chan      = [r \in Ranks |-> <<>>]
  /\ pars      = [r \in Ranks |-> 1]
  /\ files     = {}
  /\ runin     = 1
  /\ vardat    = [r \in Ranks |-> 0]     \* written by start.x
  /\ touches   = 0
  /\ runs      = 1
  /\ stopAt    = 0

\* The time to go on from: the least or the greatest of the time stamps.
ResetTime(time) ==
  \A r \in Ranks : IF IresetTstart = MINT THEN time <= vardat[r] ELSE time >= vardat[r]

\* Mutant of ReadSnapshot: the time stamps are not compared.
ReadSnapshotUnchecked ==
  /\ \A r \in Ranks : pc[r] = "rsnap"
  /\ pc' = [r \in Ranks |-> IF \E s \in Ranks : vardat[s] = Torn THEN "killed" ELSE "top"]
  /\ t' = [r \in Ranks |-> IF vardat[r] = Torn THEN 0 ELSE vardat[r]]
  /\ UNCHANGED <<it, dt, onemore, fatal, emergency, lastsnap, shift, pars, left,
                 chan, diskvars, envvars>>

(***************************************************************************)
(* rsnap with io_dist: every rank reads its own var.dat.  A torn file is a *)
(* Fortran run-time error, which brings the whole MPI job down.  Otherwise *)
(* the time stamps are compared (broadcast, then all-reduce).  When they   *)
(* differ, every rank calls stop_it if ireset_tstart is 0; else a further  *)
(* all-reduce gives all the same t, and each goes on with its own data.    *)
(***************************************************************************)
ReadSnapshot ==
  /\ \A r \in Ranks : pc[r] = "rsnap"
  /\ \/ /\ \E r \in Ranks : vardat[r] = Torn
        /\ pc' = [r \in Ranks |-> "killed"]
        /\ t' = t
     \/ /\ \A r \in Ranks : vardat[r] # Torn
        /\ IresetTstart = 0 /\ \E r \in Ranks : vardat[r] # vardat[Root]
        /\ pc' = [r \in Ranks |-> "die"]
        /\ t' = t
     \/ /\ \A r \in Ranks : vardat[r] # Torn
        /\ IresetTstart = 0 => \A r \in Ranks : vardat[r] = vardat[Root]
        /\ pc' = [r \in Ranks |-> "top"]
        /\ \E time \in {vardat[r] : r \in Ranks} :
             ResetTime(time) /\ t' = [r \in Ranks |-> time]
  /\ UNCHANGED <<it, dt, onemore, fatal, emergency, lastsnap, shift, pars, left,
                 chan, diskvars, envvars>>

\* do while (it<=nt), and whether this step looks at the control files.
LoopTop(r) ==
  /\ pc[r] = "top"
  /\ IF it[r] > NtOf[pars[r]]
     THEN Leave(r, "nt")
     ELSE /\ Goto(r, IF LOut(it[r]) \/ emergency[r] THEN "stop" ELSE "tmax")
          /\ UNCHANGED left
  /\ UNCHANGED <<it, t, dt, onemore, fatal, emergency, lastsnap, shift, pars,
                 chan, diskvars, envvars>>

\* lstop=control_file_exists('STOP',DELETE=.true.)
CheckStop(r) ==
  /\ pc[r] = "stop"
  /\ \E lstop \in BOOLEAN :
       /\ Bcast(r, "stop", "STOP" \in files, lstop)
       /\ Goto(r, IF lstop \/ emergency[r] THEN "resubmit" ELSE "reload")
  /\ Delete(r, "STOP")
  /\ UNCHANGED <<it, t, dt, onemore, fatal, emergency, lastsnap, shift, pars, left,
                 runin, vardat, envvars>>

\* resubmit=control_file_exists('RESUBMIT',DELETE=.true.), then exit Time_loop.
CheckResubmit(r) ==
  /\ pc[r] = "resubmit"
  /\ \E resubmit \in BOOLEAN : Bcast(r, "resubmit", "RESUBMIT" \in files, resubmit)
  /\ Delete(r, "RESUBMIT")
  /\ Leave(r, "stop")
  /\ UNCHANGED <<it, t, dt, onemore, fatal, emergency, lastsnap, shift, pars,
                 runin, vardat, envvars>>

\* lreloading: is there a RELOAD or a RELOAD_ALWAYS?  Both files stay for now.
CheckReload(r) ==
  /\ pc[r] = "reload"
  /\ \E lreloading \in BOOLEAN :
       /\ Bcast(r, "reload", ReloadFiles \cap files # {}, lreloading)
       /\ Goto(r, IF lreloading THEN "read" ELSE "tmax")
  /\ UNCHANGED <<it, t, dt, onemore, fatal, emergency, lastsnap, shift, pars, left,
                 diskvars, envvars>>

\* Mutant of ReadRunPars: only the root removes RELOAD afterwards.
ReadRunParsRootRemoves(r) ==
  /\ pc[r] = "read"
  /\ \E v \in DOMAIN NtOf :
       /\ Bcast(r, "read", runin, v)
       /\ pars' = [pars EXCEPT ![r] = v]
  /\ dt' = [dt EXCEPT ![r] = 0]
  /\ Goto(r, IF r = Root THEN "unreload" ELSE "tmax")
  /\ UNCHANGED <<it, t, onemore, fatal, emergency, lastsnap, shift, left,
                 diskvars, envvars>>

\* Mutant of ReadRunPars: every rank opens run.in by itself.
ReadRunParsAlone(r) ==
  /\ pc[r] = "read"
  /\ pars' = [pars EXCEPT ![r] = runin]
  /\ dt' = [dt EXCEPT ![r] = 0]
  /\ Goto(r, "unreload")
  /\ UNCHANGED <<it, t, onemore, fatal, emergency, lastsnap, shift, left,
                 chan, diskvars, envvars>>

\* dt=0.0 and read_all_run_pars: the root reads run.in and broadcasts it.
ReadRunPars(r) ==
  /\ pc[r] = "read"
  /\ \E v \in DOMAIN NtOf :
       /\ Bcast(r, "read", runin, v)
       /\ pars' = [pars EXCEPT ![r] = v]
  /\ dt' = [dt EXCEPT ![r] = 0]
  /\ Goto(r, "unreload")
  /\ UNCHANGED <<it, t, onemore, fatal, emergency, lastsnap, shift, left,
                 diskvars, envvars>>

\* lreload_file=control_file_exists('RELOAD',DELETE=.true.) after the reading.
RemoveReload(r) ==
  /\ pc[r] = "unreload"
  /\ \E lreload \in BOOLEAN : Bcast(r, "unreload", "RELOAD" \in files, lreload)
  /\ Delete(r, "RELOAD")
  /\ Goto(r, "tmax")
  /\ UNCHANGED <<it, t, dt, onemore, fatal, emergency, lastsnap, shift, pars, left,
                 runin, vardat, envvars>>

\* Mutant of CheckTMax: cycle instead of exit.
CheckTMaxCycles(r) ==
  /\ pc[r] = "tmax"
  /\ Goto(r, IF t[r] >= TMax /\ ~OutputDue(it[r], t[r]) THEN "top" ELSE "step")
  /\ UNCHANGED <<it, t, dt, onemore, fatal, emergency, lastsnap, shift, pars, left,
                 chan, diskvars, envvars>>

\* overtmax: one extra step when diagnostics are due.
CheckTMax(r) ==
  /\ pc[r] = "tmax"
  /\ IF t[r] >= TMax /\ (onemore[r] \/ ~OutputDue(it[r], t[r]))
     THEN Leave(r, "tmax") /\ UNCHANGED onemore
     ELSE /\ onemore' = [onemore EXCEPT ![r] = @ \/ t[r] >= TMax]
          /\ Goto(r, "step")
          /\ UNCHANGED left
  /\ UNCHANGED <<it, t, dt, fatal, emergency, lastsnap, shift, pars,
                 chan, diskvars, envvars>>

\* The rank's own share of time_step; it may register an error of its own.
ComputeStep(r) ==
  /\ pc[r] = "step"
  /\ \E bad \in BOOLEAN :
       /\ bad => FatalErrors
       /\ fatal' = [fatal EXCEPT ![r] = @ \/ bad]
  /\ Goto(r, "setdt")
  /\ UNCHANGED <<it, t, dt, onemore, emergency, lastsnap, shift, pars, left,
                 chan, diskvars, envvars>>

\* set_dt: the all-reduce gives every rank the same dt, by which t advances.
SetDt ==
  /\ \A r \in Ranks : pc[r] = "setdt"
  /\ \E d \in DtValues :
       /\ dt' = [r \in Ranks |-> d]
       /\ t'  = [r \in Ranks |-> t[r] + d]
  /\ pc' = [r \in Ranks |-> "save"]
  /\ UNCHANGED <<it, onemore, fatal, emergency, lastsnap, shift, pars, left,
                 chan, diskvars, envvars>>

\* Mutant of CheckSave: isave_shift = mod(it+isave-isave_shift, isave).
CheckSaveShift(r) ==
  /\ pc[r] = "save"
  /\ \E lsave \in BOOLEAN :
       /\ Bcast(r, "save", "SAVE" \in files, lsave)
       /\ Goto(r, IF lsave \/ (it[r] - shift[r]) % Isave = 0 THEN "ghosts" ELSE "dtmin")
       /\ shift' = [shift EXCEPT ![r] = IF lsave THEN (it[r] + Isave - @) % Isave ELSE @]
  /\ Delete(r, "SAVE")
  /\ UNCHANGED <<it, t, dt, onemore, fatal, emergency, lastsnap, pars, left,
                 runin, vardat, envvars>>

\* Mutant of CheckSave: automatic snapshots only in the steps with diagnostics.
CheckSaveRarely(r) ==
  /\ pc[r] = "save"
  /\ \E lsave \in BOOLEAN :
       /\ Bcast(r, "save", "SAVE" \in files, lsave)
       /\ Goto(r, IF lsave \/ (LOut(it[r]) /\ (it[r] - shift[r]) % Isave = 0)
                  THEN "ghosts" ELSE "dtmin")
       /\ shift' = [shift EXCEPT ![r] =
                      IF lsave THEN ((it[r] + Isave - @) % Isave) + @ ELSE @]
  /\ Delete(r, "SAVE")
  /\ UNCHANGED <<it, t, dt, onemore, fatal, emergency, lastsnap, pars, left,
                 runin, vardat, envvars>>

\* lsave=control_file_exists('SAVE',DELETE=.true.); is var.dat due?
CheckSave(r) ==
  /\ pc[r] = "save"
  /\ \E lsave \in BOOLEAN :
       /\ Bcast(r, "save", "SAVE" \in files, lsave)
       /\ Goto(r, IF lsave \/ (it[r] - shift[r]) % Isave = 0 THEN "ghosts" ELSE "dtmin")
       /\ shift' = [shift EXCEPT ![r] =
                      IF lsave THEN ((it[r] + Isave - @) % Isave) + @ ELSE @]
  /\ Delete(r, "SAVE")
  /\ UNCHANGED <<it, t, dt, onemore, fatal, emergency, lastsnap, pars, left,
                 runin, vardat, envvars>>

\* update_ghosts in wsnap ends with a barrier: nobody writes before all came.
UpdateGhosts ==
  /\ \A r \in Ranks : pc[r] = "ghosts"
  /\ pc' = [r \in Ranks |-> IF lastsnap[r] THEN "open" ELSE "finish"]
  /\ UNCHANGED <<it, t, dt, onemore, fatal, emergency, lastsnap, shift, pars, left,
                 chan, diskvars, envvars>>

\* output_snap deletes the old file and opens a new one ...
OpenSnapshot(r) ==
  /\ pc[r] = "open"
  /\ vardat' = [vardat EXCEPT ![r] = Torn]
  /\ Goto(r, "write")
  /\ UNCHANGED <<it, t, dt, onemore, fatal, emergency, lastsnap, shift, pars, left,
                 chan, files, runin, envvars>>

\* ... and output_snap_finalize closes it, complete with its time stamp.
WriteSnapshot(r) ==
  /\ pc[r] = "write"
  /\ vardat' = [vardat EXCEPT ![r] = t[r]]
  /\ Goto(r, IF left[r] = "no" THEN "dtmin" ELSE "finish")
  /\ UNCHANGED <<it, t, dt, onemore, fatal, emergency, lastsnap, shift, pars, left,
                 chan, files, runin, envvars>>

\* Mutant of CheckDtMin: save_lastsnap stays true.
CheckDtMinSaves(r) ==
  /\ pc[r] = "dtmin"
  /\ IF it[r] < NtOf[pars[r]] /\ dt[r] < DtMin
     THEN Leave(r, "dtmin")
     ELSE Goto(r, IF MaxWall THEN "wall" ELSE "collect") /\ UNCHANGED left
  /\ UNCHANGED <<it, t, dt, onemore, fatal, emergency, lastsnap, shift, pars,
                 chan, diskvars, envvars>>

\* Mutant of CheckDtMin: save_lastsnap is cleared on the root only.
CheckDtMinRoot(r) ==
  /\ pc[r] = "dtmin"
  /\ IF it[r] < NtOf[pars[r]] /\ dt[r] < DtMin
     THEN /\ lastsnap' = [lastsnap EXCEPT ![r] = r # Root /\ @]
          /\ Leave(r, "dtmin")
     ELSE /\ Goto(r, IF MaxWall THEN "wall" ELSE "collect")
          /\ UNCHANGED <<lastsnap, left>>
  /\ UNCHANGED <<it, t, dt, onemore, fatal, emergency, shift, pars,
                 chan, diskvars, envvars>>

\* The time step has become too short: leave without saving.
CheckDtMin(r) ==
  /\ pc[r] = "dtmin"
  /\ IF it[r] < NtOf[pars[r]] /\ dt[r] < DtMin
     THEN /\ lastsnap' = [lastsnap EXCEPT ![r] = FALSE]
          /\ Leave(r, "dtmin")
     ELSE /\ Goto(r, IF MaxWall THEN "wall" ELSE "collect")
          /\ UNCHANGED <<lastsnap, left>>
  /\ UNCHANGED <<it, t, dt, onemore, fatal, emergency, shift, pars,
                 chan, diskvars, envvars>>

\* Only the root looks at the wall clock; timeover is broadcast.
CheckWallTime(r) ==
  /\ pc[r] = "wall"
  /\ \E over, timeover \in BOOLEAN :
       /\ Bcast(r, "wall", over, timeover)
       /\ IF timeover THEN Leave(r, "wall")
          ELSE Goto(r, "collect") /\ UNCHANGED left
  /\ UNCHANGED <<it, t, dt, onemore, fatal, emergency, lastsnap, shift, pars,
                 diskvars, envvars>>

\* Mutant of CollectErrors: the errors of the root alone count.
CollectRootErrors ==
  /\ \A r \in Ranks : pc[r] = "collect"
  /\ IF fatal[Root]
     THEN /\ pc' = [r \in Ranks |-> "die"]
          /\ UNCHANGED <<it, fatal>>
     ELSE /\ pc' = [r \in Ranks |-> "top"]
          /\ it' = [r \in Ranks |-> it[r] + 1]
          /\ fatal' = [r \in Ranks |-> FALSE]
  /\ UNCHANGED <<t, dt, onemore, emergency, lastsnap, shift, pars, left,
                 chan, diskvars, envvars>>

\* Mutant of CollectErrors: collected together with the diagnostics only.
CollectErrorsRarely ==
  /\ \A r \in Ranks : pc[r] = "collect"
  /\ IF \E r \in Ranks : fatal[r] /\ LOut(it[r])
     THEN pc' = [r \in Ranks |-> "die"] /\ UNCHANGED it
     ELSE /\ pc' = [r \in Ranks |-> "top"]
          /\ it' = [r \in Ranks |-> it[r] + 1]
  /\ UNCHANGED <<t, dt, onemore, fatal, emergency, lastsnap, shift, pars, left,
                 chan, diskvars, envvars>>

\* fatal_error_local_collect, and it=it+1 when there were no errors.
CollectErrors ==
  /\ \A r \in Ranks : pc[r] = "collect"
  /\ IF \E r \in Ranks : fatal[r]
     THEN /\ pc' = [r \in Ranks |-> "die"]
          /\ UNCHANGED <<it, fatal>>
     ELSE /\ pc' = [r \in Ranks |-> "top"]
          /\ it' = [r \in Ranks |-> it[r] + 1]
          /\ fatal' = [r \in Ranks |-> FALSE]
  /\ UNCHANGED <<t, dt, onemore, emergency, lastsnap, shift, pars, left,
                 chan, diskvars, envvars>>

\* After the final snapshot: COMPLETED and ENDTIME, touched by every rank.
FinishRun(r) ==
  /\ pc[r] = "finish"
  /\ files' = files \cup
       (IF it[r] > NtOf[pars[r]] \/ t[r] > TMax THEN {"COMPLETED"} ELSE {}) \cup
       (IF t[r] > TMax THEN {"ENDTIME"} ELSE {})
  /\ Goto(r, "finalize")
  /\ UNCHANGED <<it, t, dt, onemore, fatal, emergency, lastsnap, shift, pars, left,
                 chan, runin, vardat, envvars>>

\* die_gracefully: touch ERROR, then mpifinalize.
DieGracefully(r) ==
  /\ pc[r] = "die"
  /\ files' = files \cup {"ERROR"}
  /\ Goto(r, "dying")
  /\ UNCHANGED <<it, t, dt, onemore, fatal, emergency, lastsnap, shift, pars, left,
                 chan, runin, vardat, envvars>>

\* mpifinalize starts with a barrier, whichever way a rank came to it.
MpiFinalize ==
  /\ \A r \in Ranks : pc[r] \in {"finalize", "dying"}
  /\ pc' = [r \in Ranks |-> IF pc[r] = "finalize" THEN "done" ELSE "dead"]
  /\ UNCHANGED <<it, t, dt, onemore, fatal, emergency, lastsnap, shift, pars, left,
                 chan, diskvars, envvars>>
-----------------------------------------------------------------------------
(***************************************************************************)
(* The environment: the user, the operating system, the batch system.      *)
(***************************************************************************)
\* touch a control file; for a reload the user has edited run.in before.
Touch(f) ==
  /\ f \in Touchable
  /\ touches < MaxTouch
  /\ touches' = touches + 1
  /\ files' = files \cup {f}
  /\ runin' = IF f \in ReloadFiles THEN (runin % Len(NtOf)) + 1 ELSE runin
  /\ stopAt' = IF f = "STOP" /\ f \notin files THEN it[Root] ELSE stopAt
  /\ UNCHANGED <<rankvars, chan, vardat, runs>>

\* regexit, the handler installed by signal_prepare, runs on one rank.
Signal(r) ==
  /\ Signals
  /\ pc[r] \notin EndedPc \cup {"rsnap"}
  /\ ~emergency[r]
  /\ emergency' = [emergency EXCEPT ![r] = TRUE]
  /\ UNCHANGED <<pc, it, t, dt, onemore, fatal, lastsnap, shift, pars, left,
                 chan, diskvars, envvars>>

\* The batch system (or a node failure) ends the job at any point.
Kill ==
  /\ runs < MaxRuns
  /\ ~Ended
  /\ pc' = [r \in Ranks |-> "killed"]
  /\ UNCHANGED <<it, t, dt, onemore, fatal, emergency, lastsnap, shift, pars, left,
                 chan, diskvars, envvars>>

\* run.csh once more: remove old control files, start run.x.
Launch ==
  /\ Ended
  /\ runs < MaxRuns
  /\ runs' = runs + 1
  /\ files' = files \ {"STOP", "RELOAD", "ERROR", "COMPLETED"}
  /\ pc'        = [r \in Ranks |-> "rsnap"]
  /\ it'        = [r \in Ranks |-> 1]
  /\ t'         = [r \in Ranks |-> 0]
  /\ dt'        = [r \in Ranks |-> 0]
  /\ onemore'   = [r \in Ranks |-> FALSE]
  /\ fatal'     = [r \in Ranks |-> FALSE]
  /\ emergency' = [r \in Ranks |-> FALSE]
  /\ lastsnap'  = [r \in Ranks |-> TRUE]
  /\ shift'     = [r \in Ranks |-> 0]
  /\ left'      = [r \in Ranks |-> "no"]
  /\ chan'      = [r \in Ranks |-> <<>>]
  /\ pars' = [r \in Ranks |-> runin]
  /\ stopAt' = 0
  /\ UNCHANGED <<runin, vardat, touches>>

\* The job is over and stays over.
Terminated == Ended /\ runs = MaxRuns /\ UNCHANGED vars

RankStep(r) ==
  \/ LoopTop(r) \/ CheckStop(r) \/ CheckResubmit(r) \/ CheckReload(r)
  \/ ReadRunPars(r) \/ RemoveReload(r) \/ CheckTMax(r) \/ ComputeStep(r)
  \/ CheckSave(r) \/ OpenSnapshot(r) \/ WriteSnapshot(r) \/ CheckDtMin(r)
  \/ CheckWallTime(r) \/ FinishRun(r) \/ DieGracefully(r)

JointStep ==
  \/ ReadSnapshot \/ SetDt \/ UpdateGhosts \/ CollectErrors \/ MpiFinalize

Environment ==
  \/ \E f \in ControlFiles : Touch(f)
  \/ \E r \in Ranks : Signal(r)
  \/ Kill \/ Launch

Next ==
  \/ \E r \in Ranks : RankStep(r)
  \/ JointStep
  \/ Environment
  \/ Terminated

Spec == Init /\ [][Next]_vars

\* Every rank is scheduled and MPI completes a collective all have entered.
Fairness == /\ \A r \in Ranks : WF_vars(RankStep(r))
            /\ WF_vars(JointStep)

FairSpec == Spec /\ Fairness
-----------------------------------------------------------------------------
(***************************************************************************)
(* Properties.                                                             *)
(***************************************************************************)
MaxDt == CHOOSE d \in DtValues : \A e \in DtValues : e <= d
MinDt == CHOOSE d \in DtValues : \A e \in DtValues : d <= e

Message == [op : Ops \ {"read"}, val : BOOLEAN]
             \cup [op : {"read"}, val : DOMAIN NtOf]

\* Every variable of run.x keeps the type and range its declaration gives it.
TypeOK ==
  /\ pc \in [Ranks -> Pcs]
  /\ it \in [Ranks -> Nat \ {0}] /\ t \in [Ranks -> Nat] /\ dt \in [Ranks -> Nat]
  /\ onemore \in [Ranks -> BOOLEAN] /\ fatal \in [Ranks -> BOOLEAN]
  /\ emergency \in [Ranks -> BOOLEAN] /\ lastsnap \in [Ranks -> BOOLEAN]
  /\ shift \in [Ranks -> Int] /\ pars \in [Ranks -> DOMAIN NtOf]
  /\ left \in [Ranks -> Reasons]
  /\ chan \in [Ranks -> Seq(Message)]
  /\ files \subseteq ControlFiles \cup StatusFiles
  /\ runin \in DOMAIN NtOf
  /\ vardat \in [Ranks -> Nat \cup {Torn}]
  /\ touches \in Nat /\ runs \in Nat /\ stopAt \in Nat

InLoop == (BcastPc \cup LocalPc \cup SyncPc) \ {"rsnap", "die", "dying"}

\* The broadcast a rank is about to receive is the one it asks for, nothing is
\* left unread when it enters a synchronising collective, and two ranks never
\* wait in different ones (control_file_exists, mpibcast_*, the reductions).
CollectivesMatch ==
  /\ \A r \in Ranks :
       /\ pc[r] \in BcastPc /\ chan[r] # <<>> => Head(chan[r]).op = pc[r]
       /\ pc[r] \in SyncPc => chan[r] = <<>>
  /\ \A r, s \in Ranks :
       pc[r] \in SyncPc /\ pc[s] \in SyncPc
         => pc[r] = pc[s] \/ {pc[r], pc[s]} = {"finalize", "dying"}

\* All ranks leave Time_loop for the same reason, after the same step, with the
\* same opinion on save_lastsnap; once one has left nobody enters a new step.
LeaveTogether ==
  \A r, s \in Ranks :
    left[r] # "no" =>
      /\ pc[s] # "setdt"
      /\ left[s] # "no" => /\ left[s] = left[r]
                           /\ it[s] = it[r] /\ t[s] = t[r]
                           /\ lastsnap[s] = lastsnap[r]

\* No step is computed on run parameters that differ between the ranks
\* (read_all_run_pars after RELOAD; nt among them).
ParsAgree ==
  \A r, s \in Ranks : pc[r] = "setdt" /\ pc[s] = "setdt" => pars[r] = pars[s]

\* Until its first step changes them, a rank works on the data of its own var.dat.
BeforeFirstStep(r) ==
  it[r] = 1 /\ pc[r] \in {"top", "stop", "resubmit", "reload", "read", "unreload",
                          "tmax", "step", "setdt"}

\* With ireset_tstart = 0, the data all ranks go on from are of one and the same
\* time, that of the job, also after a restart from the var.dat files an
\* interrupted job left behind (read_snap_single); and the ranks keep one time.
SameData ==
  \A r, s \in Ranks : pc[r] \in InLoop /\ pc[s] \in InLoop =>
    /\ t[r] = t[s]
    /\ BeforeFirstStep(r) => vardat[r] = t[s]

\* With any ireset_tstart but 0 a job may go on from the var.dat of several times:
\* after n launches they are at most n times isave steps apart.
StampsNear ==
  \A r, s \in Ranks : vardat[r] # Torn /\ vardat[s] # Torn =>
    vardat[r] - vardat[s] <= runs * Isave * MaxDt

\* What SameData and FinalSnapshotConsistent rest on: the ranks share one time
\* unless all of them are dying; past the final snapshot var.dat has that time.
DyingPc == {"die", "dying", "dead", "killed"}
OverPc  == {"finish", "finalize", "done"}
OneTime ==
  \/ \A r, s \in Ranks : t[r] = t[s]
  \/ \A r \in Ranks : pc[r] \in DyingPc
Written == \A r \in Ranks : pc[r] \in OverPc /\ lastsnap[r] => vardat[r] = t[r]
SnapInv == TypeOK /\ OneTime /\ Written

\* A final var.dat is never written over an error nobody has collected
\* (fatal_error_local, save_lastsnap).
FinalSnapshotClean ==
  \A r, s \in Ranks : left[r] # "no" /\ lastsnap[r] => ~fatal[s]

\* "all processors must be informed about the problem before the code can stop"
\* (run.f90, above fatal_error_local_collect).
ErrorsToldBeforeStop ==
  \A r, s \in Ranks : pc[r] = "done" => ~fatal[s]

\* When the job has ended by itself with save_lastsnap, the var.dat of all ranks
\* are whole, with one time stamp, and that is the time the run has reached.
FinalSnapshotConsistent ==
  (\A r \in Ranks : pc[r] = "done" /\ lastsnap[r])
    => \A r \in Ranks : vardat[r] = t[Root] /\ t[r] = t[Root]

\* When the job has ended by itself, ERROR is there exactly if it died, and then
\* COMPLETED is not (die_gracefully, touch_file; run.csh exits 16 on ERROR).
StatusFilesTell ==
  (\A r \in Ranks : pc[r] \in {"done", "dead"}) =>
    /\ ("ERROR" \in files <=> \E r \in Ranks : pc[r] = "dead")
    /\ ~({"ERROR", "COMPLETED"} \subseteq files)

\* isave_shift, with ireset_tstart = 0: an automatic var.dat comes isave steps after the last one, whether
\* that one was automatic, asked for by SAVE, or the one the job started from.
AutosaveSpacing ==
  [][pc[Root] = "save" /\ pc'[Root] = "ghosts" /\ "SAVE" \notin files
       => /\ t[Root] - vardat[Root] >= Isave * MinDt
          /\ t[Root] - vardat[Root] <= Isave * MaxDt]_vars

\* After STOP is touched in step i, step i + it1 is the last any rank begins, or
\* it1start + it1 when that is later (lout stays false up to it1start).
StopWithinIt1 ==
  stopAt > 0 => \A r \in Ranks : \/ it[r] <= stopAt + It1
                                \/ it[r] <= It1Start + It1

\* Every run comes to an end: nt is finite, no rank waits for ever.
Termination == <>Ended

\* An error only one rank has noticed ends the whole job, with the file ERROR
\* ("The code will die at the end of the time-step", messages.f90).
ErrorKillsAll ==
  (\E r \in Ranks : fatal[r]) ~> ("ERROR" \in files /\ \A r \in Ranks : pc[r] = "dead")
=============================================================================
