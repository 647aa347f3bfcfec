----------------------------- MODULE Snapshots -----------------------------
(***************************************************************************)
(* The numbered snapshots.  In the step in which the time passes tsnap     *)
(* every rank writes its part of VARn; tsnap.dat, written by the root, has *)
(* the time and the number of the next one.  var.dat, from which a run is  *)
(* continued, is written independently of them.  A run may be killed at    *)
(* any time and started again.                                             *)
(*                                                                         *)
(* Meanwhile somebody reads a snapshot with the Python package, or copies  *)
(* one to another run that is to start from it.                            *)
(***************************************************************************)
EXTENDS DataCube

CONSTANTS
  Root,
  DtValues,    \* the time steps
  DSnap,       \* dsnap
  Isave,
  Nt,          \* the steps of one run
  MaxRuns,     \* bound on the runs
  IresetTstart, \* ireset_tstart: 0, MINT = 1, or MAXT = 2, the default; tstart is not given
  Asked        \* the numbers of the snapshots read by the Python package

ASSUME SnapshotsAssumption ==
  /\ Root \in Procs
  /\ DtValues \subseteq Nat \ {0} /\ DtValues # {} /\ DSnap \in Nat \ {0}
  /\ Isave \in Nat \ {0} /\ Nt \in Nat /\ MaxRuns \in Nat /\ IresetTstart \in Nat
  /\ Asked \subseteq Nat \ {0}

VARIABLES
  tsnapdat,    \* tsnap.dat: the time and the number of the next VARn
  var,         \* var[n][r]: VARn of rank r
  vardat,      \* var.dat of every rank
  pc, t, it,
  tsnap, nsnap,
  runs, kills,
  call,        \* the call that is made: [op, n]
  copied,      \* the processors whose files have been copied to the other run
  dest         \* var.dat of the other run

disk  == <<tsnapdat, var, vardat>>
clock == <<t, it, tsnap, nsnap>>
py    == <<call, cube, copied, dest>>
vars  == <<disk, pc, clock, runs, kills, py>>

\* A file that is being written.
Torn == [t |-> -2, run |-> 0]
Whole(c) == c.t >= 0
Own == [t |-> 0, run |-> -1]     \* what start.x has written in the other run
NoFile    == [tout |-> 0, nout |-> -1]
EmptyFile == [tout |-> 0, nout |-> -2]
Now == [t |-> t, run |-> runs]

MaxT == MaxRuns * Nt * Max(DtValues)
Numbers == 1 .. (MaxT \div DSnap) + 1
Everywhere(c) == [r \in Procs |-> c]
Ended == \A r \in Procs : pc[r] \in {"over", "killed", "failed"}

Init ==
  /\ tsnapdat = NoFile
  /\ var = [n \in Numbers |-> Everywhere(None)]
  /\ vardat = Everywhere([t |-> 0, run |-> 0])      \* written by start.x
  /\ pc = Everywhere("first") /\ t = 0 /\ it = 0
  /\ tsnap = 0 /\ nsnap = 0 /\ runs = 1 /\ kills = 0
  /\ call = [op |-> "none", n |-> 0]
  /\ copied = {} /\ dest \in {Everywhere(None), Everywhere(Own)}
  /\ CubeInit
-----------------------------------------------------------------------------
(* The run *)

Due == t >= tsnap
SaveDue == it % Isave = 0 \/ it = Nt

\* One time step of all ranks.
TakeStep ==
  /\ \A r \in Procs : pc[r] = "step"
  /\ \E dt \in DtValues : t' = t + dt
  /\ it' = it + 1
  /\ pc' = Everywhere("snaptime")
  /\ UNCHANGED <<disk, tsnap, nsnap, runs, kills, py>>

\* Mutant of ReadSnaptime: every run begins with a new tsnap.dat.
ReadSnaptimeAnew ==
  /\ \A r \in Procs : pc[r] = "first"
  /\ tsnapdat # NoFile
  /\ tsnapdat' = [tout |-> t + DSnap - (t % DSnap), nout |-> 1]
  /\ tsnap' = tsnapdat'.tout /\ nsnap' = 1
  /\ pc' = Everywhere("step")
  /\ UNCHANGED <<var, vardat, t, it, runs, kills, py>>

\* Mutant of ReadSnaptime: the number that is read is taken for that of the last snapshot.
ReadSnaptimePlusOne ==
  /\ \A r \in Procs : pc[r] = "first"
  /\ tsnapdat # NoFile
  /\ IF tsnapdat = EmptyFile
     THEN pc' = Everywhere("failed") /\ UNCHANGED <<tsnap, nsnap>>
     ELSE /\ tsnap' = tsnapdat.tout /\ nsnap' = tsnapdat.nout + 1
          /\ pc' = Everywhere("step")
  /\ UNCHANGED <<disk, t, it, runs, kills, py>>

\* The first call of wsnap: the root reads tsnap.dat and tells the others.  An empty file
\* ends the run.  (The call is in the first step, t0 the time before it.)
ReadSnaptime ==
  /\ \A r \in Procs : pc[r] = "first"
  /\ tsnapdat # NoFile
  /\ IF tsnapdat = EmptyFile
     THEN pc' = Everywhere("failed") /\ UNCHANGED <<tsnap, nsnap>>
     ELSE /\ tsnap' = tsnapdat.tout /\ nsnap' = tsnapdat.nout
          /\ pc' = Everywhere("step")
  /\ UNCHANGED <<disk, t, it, runs, kills, py>>

\* Without a tsnap.dat the root opens a new one, which is empty ...
OpenSnaptime ==
  /\ \A r \in Procs : pc[r] = "first"
  /\ tsnapdat = NoFile
  /\ tsnapdat' = EmptyFile
  /\ pc' = [pc EXCEPT ![Root] = "create"]
  /\ UNCHANGED <<var, vardat, clock, runs, kills, py>>

\* ... and writes the time and the number of the first snapshot, while the others wait.
CreateSnaptime ==
  /\ pc[Root] = "create"
  /\ tsnapdat' = [tout |-> t + DSnap - (t % DSnap), nout |-> 1]
  /\ tsnap' = tsnapdat'.tout /\ nsnap' = tsnapdat'.nout
  /\ pc' = Everywhere("step")
  /\ UNCHANGED <<var, vardat, t, it, runs, kills, py>>

\* update_snaptime.  The root opens tsnap.dat, which empties it ...
UpdateSnaptime(r) ==
  /\ pc[r] = "snaptime"
  /\ pc' = [pc EXCEPT ![r] = IF ~Due THEN "save" ELSE IF r = Root THEN "tsnap" ELSE "ghosts"]
  /\ tsnapdat' = IF Due /\ r = Root THEN EmptyFile ELSE tsnapdat
  /\ UNCHANGED <<var, vardat, clock, runs, kills, py>>

\* ... and writes the time and the number of the next snapshot.
WriteSnaptime ==
  /\ pc[Root] = "tsnap"
  /\ tsnapdat' = [tout |-> tsnap + DSnap, nout |-> nsnap + 1]
  /\ pc' = [pc EXCEPT ![Root] = "ghosts"]
  /\ UNCHANGED <<var, vardat, clock, runs, kills, py>>

\* update_ghosts: a rank sends to its neighbours, receives, and waits in mpibarrier until all
\* ranks have come.
OthersCame(r, before) == \A q \in Procs \ {r} : pc[q] \notin before

\* Mutant of Ghosts: the ranks receive before they send.
GhostsReceiveFirst(r) ==
  /\ pc[r] = "ghosts" /\ OthersCame(r, {"snaptime", "tsnap", "ghosts"})
  /\ pc' = [pc EXCEPT ![r] = "open"]
  /\ UNCHANGED <<disk, clock, runs, kills, py>>

Ghosts(r) ==
  /\ pc[r] = "ghosts" /\ OthersCame(r, {"snaptime", "tsnap"})
  /\ pc' = [pc EXCEPT ![r] = "open"]
  /\ UNCHANGED <<disk, clock, runs, kills, py>>

\* output_snap deletes the file and opens it; when it is closed it is whole.
OpenVar(r) ==
  /\ pc[r] = "open"
  /\ var' = [var EXCEPT ![nsnap][r] = Torn]
  /\ pc' = [pc EXCEPT ![r] = "write"]
  /\ UNCHANGED <<tsnapdat, vardat, clock, runs, kills, py>>
WriteVar(r) ==
  /\ pc[r] = "write"
  /\ var' = [var EXCEPT ![nsnap][r] = Now]
  /\ pc' = [pc EXCEPT ![r] = "save"]
  /\ UNCHANGED <<tsnapdat, vardat, clock, runs, kills, py>>

\* var.dat, every Isave steps and at the end.
Save(r) ==
  /\ pc[r] = "save"
  /\ pc' = [pc EXCEPT ![r] = IF SaveDue THEN "saveghosts" ELSE "stepped"]
  /\ UNCHANGED <<disk, clock, runs, kills, py>>
SaveGhosts(r) ==
  /\ pc[r] = "saveghosts"
  /\ OthersCame(r, {"snaptime", "tsnap", "ghosts", "open", "write", "save"})
  /\ vardat' = [vardat EXCEPT ![r] = Torn]
  /\ pc' = [pc EXCEPT ![r] = "savewrite"]
  /\ UNCHANGED <<tsnapdat, var, clock, runs, kills, py>>
SaveWrite(r) ==
  /\ pc[r] = "savewrite"
  /\ vardat' = [vardat EXCEPT ![r] = Now]
  /\ pc' = [pc EXCEPT ![r] = "stepped"]
  /\ UNCHANGED <<tsnapdat, var, clock, runs, kills, py>>

\* Mutant of EndStep: the number is that of tsnap.dat when the run began.
EndStepKeepsNumber ==
  /\ \A r \in Procs : pc[r] = "stepped"
  /\ tsnap' = IF Due THEN tsnap + DSnap ELSE tsnap
  /\ nsnap' = nsnap
  /\ pc' = Everywhere(IF it = Nt THEN "over" ELSE "step")
  /\ UNCHANGED <<disk, t, it, runs, kills, py>>

\* The variables of update_snaptime, alike on all ranks, for the next step.
EndStep ==
  /\ \A r \in Procs : pc[r] = "stepped"
  /\ tsnap' = IF Due THEN tsnap + DSnap ELSE tsnap
  /\ nsnap' = IF Due THEN nsnap + 1 ELSE nsnap
  /\ pc' = Everywhere(IF it = Nt THEN "over" ELSE "step")
  /\ UNCHANGED <<disk, t, it, runs, kills, py>>

Kill ==
  /\ ~Ended /\ runs < MaxRuns
  /\ pc' = Everywhere("killed")
  /\ kills' = kills + 1
  /\ UNCHANGED <<disk, clock, runs, py>>

\* Mutant of Accepted: the times are not compared.
AcceptedAnyTime(d, ireset) == \A r \in Procs : Whole(d[r])

\* What read_snap_single goes on from: the var.dat of all ranks have to be whole, and with
\* ireset_tstart = 0 of the same time.
Accepted(d, ireset) ==
  /\ \A r \in Procs : Whole(d[r])
  /\ ireset = 0 => \A r \in Procs : d[r].t = d[Root].t

\* The time all ranks take: that of their var.dat, or the least or the greatest of them.
StartTime(time) ==
  \A r \in Procs : IF IresetTstart = 1 THEN time <= vardat[r].t ELSE time >= vardat[r].t

\* run.x again: it goes on from var.dat, or stops.
Launch ==
  /\ Ended /\ runs < MaxRuns
  /\ runs' = runs + 1
  /\ it' = 0
  /\ \/ /\ Accepted(vardat, IresetTstart) /\ pc' = Everywhere("first")
        /\ \E r \in Procs : StartTime(vardat[r].t) /\ t' = vardat[r].t
     \/ ~Accepted(vardat, IresetTstart) /\ pc' = Everywhere("failed") /\ t' = t
  /\ UNCHANGED <<disk, tsnap, nsnap, kills, py>>

Rank(r) ==
  \/ UpdateSnaptime(r) \/ Ghosts(r) \/ OpenVar(r) \/ WriteVar(r)
  \/ Save(r) \/ SaveGhosts(r) \/ SaveWrite(r)
Run ==
  \/ ReadSnaptime \/ OpenSnaptime \/ CreateSnaptime
  \/ TakeStep \/ WriteSnaptime \/ EndStep \/ \E r \in Procs : Rank(r)
-----------------------------------------------------------------------------
(* The Python package *)

Idle == call.op = "none"
Return(op) == call' = [call EXCEPT !.op = op]

\* DataCube.read of VARn: one processor after the other.
BeginRead(n) ==
  /\ Idle
  /\ call' = [op |-> "read", n |-> n]
  /\ BeginCube
  /\ UNCHANGED <<disk, pc, clock, runs, kills, copied, dest>>

\* Mutant of ReadProc: a processor without the file is left out.
ReadProcOrSkip(p) ==
  /\ call.op = "read" /\ IsNext(p)
  /\ LET c == var[call.n][p]
     IN \/ c # Torn /\ StoreBlock(p, c) /\ UNCHANGED call
        \/ c = Torn /\ Return("error") /\ UNCHANGED cube
  /\ UNCHANGED <<disk, pc, clock, runs, kills, copied, dest>>

\* A file that is missing, or ends too early, raises an exception.
ReadProc(p) ==
  /\ call.op = "read" /\ IsNext(p)
  /\ LET c == var[call.n][p]
     IN \/ Whole(c) /\ StoreBlock(p, c) /\ UNCHANGED call
        \/ ~Whole(c) /\ Return("error") /\ UNCHANGED cube
  /\ UNCHANGED <<disk, pc, clock, runs, kills, copied, dest>>
EndRead ==
  /\ call.op = "read" /\ todo = {}
  /\ Return("cube")
  /\ UNCHANGED <<disk, pc, clock, runs, kills, cube, copied, dest>>

\* resume_from_var to a run whose var.dat are those of start.x, or that has none; the
\* numbers of the snapshots are those the root has.
BeginResume(n) ==
  /\ Idle
  /\ call' = [op |-> IF var[n][Root] = None THEN "error" ELSE "resume", n |-> n]
  /\ UNCHANGED <<disk, pc, clock, runs, kills, cube, copied, dest>>

\* VARn of one processor is the other run's var.dat; one that does not exist is not copied.
CopyProc(p) ==
  /\ call.op = "resume" /\ p \notin copied
  /\ copied' = copied \cup {p}
  /\ dest' = [dest EXCEPT ![p] = IF var[call.n][p] = None THEN @ ELSE var[call.n][p]]
  /\ UNCHANGED <<disk, pc, clock, runs, kills, call, cube>>
EndResume ==
  /\ call.op = "resume" /\ copied = Procs
  /\ Return("resumed")
  /\ UNCHANGED <<disk, pc, clock, runs, kills, cube, copied, dest>>

Python ==
  \/ \E n \in Asked \cap Numbers : BeginRead(n) \/ BeginResume(n)
  \/ \E p \in Procs : ReadProc(p) \/ CopyProc(p)
  \/ EndRead \/ EndResume

Next == Run \/ Kill \/ Launch \/ Python

\* Every rank goes on until its run has ended.
Spec == Init /\ [][Next]_vars /\ WF_vars(Run)
-----------------------------------------------------------------------------
(* Properties *)

\* The number tells the time, in whichever run a snapshot was written: VARn is the first
\* state at or after n times dsnap.
NumberTellsTime ==
  \A n \in Numbers, r \in Procs :
    Whole(var[n][r]) => n * DSnap <= var[n][r].t /\ var[n][r].t < (n + 1) * DSnap

\* VARn is of one state of one run when all ranks have it.
OneState(c) == \A p, q \in Procs : c[p] = c[q]
VarWhole == \A n \in Numbers : (\A r \in Procs : Whole(var[n][r])) => OneState(var[n])

\* A run that is killed costs at most one number.
Lost == {n \in Numbers : /\ n < tsnapdat.nout
                         /\ \E r \in Procs : ~Whole(var[n][r])}
LostToKills == \A r \in Procs : pc[r] = "step" => Cardinality(Lost) <= kills

\* What is read is one state, although the run goes on, is killed and starts again.
ReadOneState ==
  call.op = "cube" => \A b, c \in Cells : Whole(f[c].of) /\ f[b].of = f[c].of

\* The run that resume_from_var was called for, if its ireset_tstart is 0, only starts from
\* one state: not from a VARn that not all ranks have, beside older files.
ResumeOneState == call.op = "resumed" /\ Accepted(dest, 0) => OneState(dest)

\* Every run ends: no rank waits for ever for the ghost zones of another.
RunsEnd == []<>Ended
=============================================================================
