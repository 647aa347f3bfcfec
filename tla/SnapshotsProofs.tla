-------------------------- MODULE SnapshotsProofs --------------------------
(***************************************************************************)
(* The numbered snapshots, over any number of runs, kills and restarts:    *)
(* the number of one tells the time, all ranks that have it have it of one *)
(* state, no kill loses more than one number, and what Python reads of it  *)
(* is one state, put together by DataCube.read from the owners of the      *)
(* cells.  The first rests on tsnap.dat being ahead of var.dat and of the  *)
(* VARn; the last on the directories being read in the order of their      *)
(* numbers.                                                                *)
(***************************************************************************)
EXTENDS Snapshots, TLAPS, FiniteSetTheorems

InStep  == {"snaptime", "tsnap", "ghosts", "open", "write", "save", "saveghosts",
            "savewrite", "stepped"}
Updated == InStep \ {"snaptime", "tsnap"}
Stopped == {"over", "killed", "failed"}
Labels  == InStep \cup Stopped \cup {"first", "create", "step"}
Content == [t : Int, run : Int]

NumberTypes ==
  /\ t \in Nat /\ tsnap \in Int /\ nsnap \in Int /\ runs \in Int
  /\ tsnapdat \in [tout : Int, nout : Int]
  /\ var \in [Numbers -> [Procs -> Content]]
  /\ vardat \in [Procs -> Content]
  /\ pc \in [Procs -> Labels]

\* All ranks are in the same part of the program, and only the root writes tsnap.dat.
Together ==
  /\ \/ \A r \in Procs : pc[r] \in {"first", "create"}
     \/ \A r \in Procs : pc[r] = "step"
     \/ \A r \in Procs : pc[r] \in InStep
     \/ \A r \in Procs : pc[r] \in Stopped
  /\ \A r \in Procs : pc[r] \in {"tsnap", "create"} => r = Root

\* What tsnap.dat says, also in the course of a step.
At(n) == [tout |-> n * DSnap, nout |-> n]
Regular == tsnapdat.nout >= 1
FileSays ==
  /\ tsnapdat = NoFile \/ tsnapdat = EmptyFile \/ (Regular /\ tsnapdat = At(tsnapdat.nout))
  /\ tsnapdat = NoFile \/ pc[Root] = "create" => t = 0 /\ \A r \in Procs : vardat[r].t = 0
  /\ pc[Root] = "create" => tsnapdat = EmptyFile
  /\ tsnapdat = NoFile => /\ \A r \in Procs : pc[r] \in Stopped \cup {"first"}
  /\ pc[Root] \in InStep \cup {"step"} => nsnap >= 1 /\ tsnap = nsnap * DSnap
  /\ pc[Root] \in {"step", "snaptime"} => tsnapdat = At(nsnap)
  /\ pc[Root] = "tsnap" => tsnapdat = EmptyFile
  /\ pc[Root] \in Updated => tsnapdat = At(IF Due THEN nsnap + 1 ELSE nsnap)
  /\ \A r \in Procs : pc[r] \in {"tsnap", "ghosts", "open", "write"} => Due

FileInv == NumberTypes /\ Together /\ FileSays

LEMMA NumberOfTime ==
  ASSUME NEW n \in Int
  PROVE  n * DSnap \in Int /\ (n + 1) * DSnap = n * DSnap + DSnap
BY SnapshotsAssumption

\* The first snapshot of all is number 1.
LEMMA FirstNumber == 0 + DSnap - (0 % DSnap) = DSnap /\ 1 * DSnap = DSnap
BY SnapshotsAssumption

\* The time a run begins with is that of a var.dat.
LEMMA StartsFromWhole ==
  ASSUME FileInv, Launch
  PROVE  \/ /\ pc' = Everywhere("first")
            /\ \E r \in Procs : Whole(vardat[r]) /\ t' = vardat[r].t /\ t' \in Nat
         \/ pc' = Everywhere("failed") /\ t' = t
BY DEF FileInv, NumberTypes, Content, Launch, Accepted, Whole

\* A file of one snapshot and one rank changes, or none does.
LEMMA OneFileChanges ==
  ASSUME FileInv, NEW r \in Procs, NEW c \in Content, var' = [var EXCEPT ![nsnap][r] = c]
  PROVE  /\ var' \in [Numbers -> [Procs -> Content]]
         /\ \A n \in Numbers, q \in Procs :
              var'[n][q] = IF n = nsnap /\ q = r THEN c ELSE var[n][q]
<1>1. var \in [Numbers -> [Procs -> Content]]
  BY DEF FileInv, NumberTypes
<1>2. var' = [n \in Numbers |-> IF n = nsnap THEN [var[n] EXCEPT ![r] = c] ELSE var[n]]
  BY <1>1
<1>3. \A n \in Numbers : var[n] \in [Procs -> Content]
  BY <1>1
<1>4. ASSUME NEW n \in Numbers
      PROVE  /\ var'[n] \in [Procs -> Content]
             /\ \A q \in Procs : var'[n][q] = IF n = nsnap /\ q = r THEN c ELSE var[n][q]
  BY <1>2, <1>3
<1> QED
  BY <1>2, <1>4

LEMMA FilesAreContent == Torn \in Content /\ (FileInv => Now \in Content)
BY DEF Torn, Now, Content, FileInv, NumberTypes

LEMMA InitFile == Init => FileInv
<1> SUFFICES ASSUME Init PROVE FileInv
  OBVIOUS
<1> USE SnapshotsAssumption DEF Init, Everywhere, None, NoFile
<1>1. NumberTypes
  BY DEF NumberTypes, Content, Labels
<1>2. Together
  BY DEF Together
<1>3. \A r \in Procs : pc[r] = "first" /\ vardat[r] = [t |-> 0, run |-> 0]
  OBVIOUS
<1>4. FileSays
  BY <1>3 DEF FileSays, InStep, Updated, Stopped
<1> QED
  BY <1>1, <1>2, <1>4 DEF FileInv

\* One step for each action; those that open and write a VARn change no more than that.
LEMMA NextFile == ASSUME FileInv, [Next]_vars PROVE FileInv'
<1> USE SnapshotsAssumption DEF FileInv, disk, clock, Everywhere, InStep, Updated, Stopped
<1>a. ASSUME UNCHANGED <<disk, pc, clock, runs>> PROVE FileInv'
  BY <1>a DEF NumberTypes, Together, FileSays, Regular, At, Due
<1>1. CASE TakeStep
  BY <1>1 DEF TakeStep, NumberTypes, Labels, Together, FileSays, Regular, At, Due, NoFile
<1>2. CASE ReadSnaptime
  <2>1. CASE tsnapdat = EmptyFile
    BY <1>2, <2>1 DEF ReadSnaptime, NumberTypes, Labels, Together, FileSays, Regular, NoFile, EmptyFile
  <2>2. CASE tsnapdat # EmptyFile
    BY <1>2, <2>2 DEF ReadSnaptime, NumberTypes, Labels, Together, FileSays, Regular, At, NoFile, EmptyFile
  <2> QED
    BY <2>1, <2>2
<1>13. CASE OpenSnaptime
  BY <1>13 DEF OpenSnaptime, NumberTypes, Labels, Together, FileSays, Regular, NoFile, EmptyFile
<1>14. CASE CreateSnaptime
  <2>1. /\ tsnapdat' = At(1) /\ tsnap' = 1 * DSnap /\ nsnap' = 1
        /\ pc' = Everywhere("step") /\ UNCHANGED <<var, vardat, t, it, runs>>
    BY <1>14, FirstNumber DEF CreateSnaptime, FileSays, At
  <2> QED
    BY <2>1, FirstNumber DEF NumberTypes, Labels, Together, FileSays, Regular, At, NoFile, EmptyFile
<1>3. CASE WriteSnaptime
  BY <1>3, NumberOfTime
     DEF WriteSnaptime, NumberTypes, Labels, Together, FileSays, Regular, At, Due, NoFile, EmptyFile
<1>4. CASE EndStep
  BY <1>4, NumberOfTime
     DEF EndStep, NumberTypes, Labels, Together, FileSays, Regular, At, Due, NoFile, EmptyFile
<1>5. ASSUME NEW r \in Procs, UpdateSnaptime(r) PROVE FileInv'
  BY <1>5 DEF UpdateSnaptime, NumberTypes, Labels, Together, FileSays, Regular, At, Due, NoFile, EmptyFile
<1>6. ASSUME NEW r \in Procs, Ghosts(r) \/ Save(r) PROVE FileInv'
  BY <1>6 DEF Ghosts, Save, NumberTypes, Labels, Together, FileSays, Regular, At, Due, NoFile
<1>7. ASSUME NEW r \in Procs, OpenVar(r) \/ WriteVar(r) PROVE FileInv'
  <2>1. var' \in [Numbers -> [Procs -> Content]]
    BY <1>7, OneFileChanges, FilesAreContent DEF OpenVar, WriteVar
  <2> QED
    BY <1>7, <2>1 DEF OpenVar, WriteVar, NumberTypes, Labels, Together, FileSays, Regular, At, Due, NoFile
<1>8. ASSUME NEW r \in Procs, SaveGhosts(r) \/ SaveWrite(r) PROVE FileInv'
  BY <1>8, FilesAreContent
     DEF SaveGhosts, SaveWrite, NumberTypes, Labels, Together, FileSays, Regular, At, Due, NoFile
<1>9. CASE Kill
  BY <1>9 DEF Kill, NumberTypes, Labels, Together, FileSays, Regular, At, NoFile
<1>10. CASE Launch
  <2>1. t' \in Nat /\ (tsnapdat = NoFile => t' = 0)
    BY <1>10, StartsFromWhole DEF NumberTypes, FileSays
  <2> QED
    BY <1>10, <2>1 DEF Launch, NumberTypes, Labels, Together, FileSays, Regular, At, NoFile
<1>11. CASE Python
  BY <1>11, <1>a DEF Python, BeginRead, ReadProc, EndRead, BeginResume, CopyProc, EndResume
<1>12. CASE UNCHANGED vars
  BY <1>12, <1>a DEF vars
<1> QED
  BY <1>1, <1>2, <1>3, <1>4, <1>5, <1>6, <1>7, <1>8, <1>9, <1>10, <1>11, <1>12,
     <1>13, <1>14 DEF Next, Run, Rank

LEMMA RunsInFile == Spec => []FileInv
BY InitFile, NextFile, PTL DEF Spec

-----------------------------------------------------------------------------
(* The time *)

\* Where the time is between two snapshots, and what tsnap.dat is ahead of.
FileAhead ==
  /\ Regular => \A r \in Procs : Whole(vardat[r]) => vardat[r].t < tsnapdat.tout
  /\ pc[Root] = "first" /\ Regular => t < tsnapdat.tout
  /\ pc[Root] = "step" => t < tsnap
  /\ pc[Root] \in InStep => t < tsnap + DSnap
  /\ pc[Root] = "tsnap" => \A r \in Procs : Whole(vardat[r]) => vardat[r].t < tsnap
\* Nobody writes var.dat of a step before the root has updated tsnap.dat in it.
SavedAfter == \A r \in Procs : pc[r] = "savewrite" => pc[Root] \in Updated
TimeInv == FileAhead /\ SavedAfter /\ NumberTellsTime

\* Who writes a VARn writes it at a time between n and n + 1 times dsnap.
LEMMA WrittenInTime ==
  ASSUME FileInv, TimeInv, NEW r \in Procs, pc[r] = "write"
  PROVE  nsnap * DSnap <= t /\ t < (nsnap + 1) * DSnap
<1>1. pc[Root] \in InStep
  BY SnapshotsAssumption DEF FileInv, Together, InStep, Stopped
<1>2. Due /\ tsnap = nsnap * DSnap /\ t < tsnap + DSnap
  BY <1>1 DEF FileInv, FileSays, TimeInv, FileAhead
<1> QED
  BY <1>2, NumberOfTime DEF FileInv, NumberTypes, Due

\* What tsnap.dat says is ahead of the time, once the root has updated it.
LEMMA AheadOfTime ==
  ASSUME FileInv, FileAhead, pc[Root] \in Updated
  PROVE  t < tsnapdat.tout
<1>1. /\ t < tsnap + DSnap /\ tsnap = nsnap * DSnap
      /\ tsnapdat = At(IF Due THEN nsnap + 1 ELSE nsnap)
  BY SnapshotsAssumption DEF FileInv, FileSays, FileAhead, InStep, Updated
<1>2. CASE Due
  BY <1>1, <1>2, NumberOfTime DEF At, FileInv, NumberTypes
<1>3. CASE ~Due
  BY <1>1, <1>3 DEF At, Due, FileInv, NumberTypes
<1> QED
  BY <1>2, <1>3

LEMMA NextSaved ==
  ASSUME FileInv, SavedAfter, [Next]_vars
  PROVE  SavedAfter'
<1> USE SnapshotsAssumption
    DEF FileInv, NumberTypes, SavedAfter, clock, Everywhere, InStep, Updated, Stopped
<1>1. ASSUME UNCHANGED pc PROVE SavedAfter'
  BY <1>1
<1>2. CASE TakeStep \/ ReadSnaptime \/ CreateSnaptime \/ EndStep \/ Kill \/ Launch
  BY <1>2 DEF TakeStep, ReadSnaptime, CreateSnaptime, EndStep, Kill, Launch
<1>3. CASE OpenSnaptime
  BY <1>3 DEF OpenSnaptime
<1>4. CASE WriteSnaptime
  BY <1>4 DEF WriteSnaptime
<1>5. ASSUME NEW r \in Procs, UpdateSnaptime(r) PROVE SavedAfter'
  BY <1>5 DEF UpdateSnaptime
<1>6. ASSUME NEW r \in Procs,
             Ghosts(r) \/ OpenVar(r) \/ WriteVar(r) \/ Save(r) \/ SaveWrite(r)
      PROVE  SavedAfter'
  BY <1>6 DEF Ghosts, OpenVar, WriteVar, Save, SaveWrite
<1>7. ASSUME NEW r \in Procs, SaveGhosts(r) PROVE SavedAfter'
  BY <1>7 DEF SaveGhosts, OthersCame, Together
<1>8. CASE Python \/ UNCHANGED vars
  BY <1>1, <1>8 DEF Python, BeginRead, ReadProc, EndRead, BeginResume, CopyProc, EndResume, vars
<1> QED
  BY <1>2, <1>3, <1>4, <1>5, <1>6, <1>7, <1>8 DEF Next, Run, Rank

LEMMA NextTime ==
  ASSUME FileInv, FileInv', TimeInv, [Next]_vars, \A dt \in DtValues : dt <= DSnap
  PROVE  TimeInv'
<1>0. SavedAfter'
  BY NextSaved DEF TimeInv
<1> USE <1>0,  SnapshotsAssumption
    DEF FileInv, TimeInv, disk, clock, Everywhere, InStep, Updated, Stopped
<1>a. ASSUME UNCHANGED var PROVE NumberTellsTime'
  BY <1>a DEF NumberTellsTime
<1>b. ASSUME UNCHANGED <<disk, pc, clock, runs>> PROVE TimeInv'
  BY <1>b DEF FileAhead, NumberTellsTime, Regular
<1>1. CASE TakeStep
  BY <1>1, <1>a DEF TakeStep, NumberTypes, Together, FileAhead, Regular
<1>2. CASE ReadSnaptime
  <2>1. CASE tsnapdat = EmptyFile
    BY <1>2, <1>a, <2>1 DEF ReadSnaptime, NumberTypes, FileAhead, Regular, EmptyFile
  <2>2. CASE tsnapdat # EmptyFile
    <3>1. /\ UNCHANGED <<tsnapdat, var, vardat, t>> /\ tsnap' = tsnapdat.tout
          /\ pc[Root] = "first" /\ pc'[Root] = "step" /\ Regular
      BY <1>2, <2>2 DEF ReadSnaptime, FileSays
    <3> QED
      BY <1>a, <3>1 DEF FileAhead, Regular
  <2> QED
    BY <2>1, <2>2
<1>14. CASE OpenSnaptime
  BY <1>14, <1>a DEF OpenSnaptime, NumberTypes, FileAhead, Regular, EmptyFile
<1>15. CASE CreateSnaptime
  <2>1. /\ tsnapdat'.tout = DSnap /\ tsnap' = DSnap /\ t = 0 /\ \A r \in Procs : vardat[r].t = 0
        /\ pc'[Root] = "step" /\ UNCHANGED <<var, vardat, t>>
    BY <1>15, FirstNumber DEF CreateSnaptime, FileSays
  <2> QED
    BY <1>a, <2>1 DEF FileAhead
<1>3. CASE WriteSnaptime
  BY <1>3, <1>a DEF WriteSnaptime, NumberTypes, Content, FileAhead, Regular
<1>4. CASE EndStep
  BY <1>4, <1>a DEF EndStep, NumberTypes, Together, FileAhead, Regular, Due
<1>5. ASSUME NEW r \in Procs, UpdateSnaptime(r) PROVE TimeInv'
  BY <1>5, <1>a DEF UpdateSnaptime, NumberTypes, Content, FileSays, FileAhead, Regular, At, EmptyFile
<1>6. ASSUME NEW r \in Procs, Ghosts(r) \/ Save(r) PROVE TimeInv'
  BY <1>6, <1>a DEF Ghosts, Save, NumberTypes, FileAhead, Regular
<1>7. ASSUME NEW r \in Procs, OpenVar(r) \/ WriteVar(r) PROVE TimeInv'
  <2>0. /\ UNCHANGED <<tsnapdat, vardat, t, tsnap>>
        /\ \A q \in Procs : pc'[q] = pc[q] \/ (pc[q] \in Updated /\ pc'[q] \in Updated)
    BY <1>7 DEF OpenVar, WriteVar, NumberTypes
  <2>1. FileAhead'
    BY <2>0 DEF FileAhead, Regular
  <2>2. CASE OpenVar(r)
    BY <2>1, <2>2, OneFileChanges, FilesAreContent DEF OpenVar, NumberTellsTime, Torn, Whole
  <2>3. CASE WriteVar(r)
    BY <2>1, <2>3, OneFileChanges, FilesAreContent, WrittenInTime DEF WriteVar, NumberTellsTime, Now
  <2> QED
    BY <1>7, <2>2, <2>3
<1>8. ASSUME NEW r \in Procs, SaveGhosts(r) PROVE TimeInv'
  BY <1>8, <1>a DEF SaveGhosts, NumberTypes, FileAhead, Regular, Torn, Whole
<1>9. ASSUME NEW r \in Procs, SaveWrite(r) PROVE TimeInv'
  <2>1. /\ vardat' = [vardat EXCEPT ![r] = Now] /\ pc' = [pc EXCEPT ![r] = "stepped"]
        /\ UNCHANGED <<tsnapdat, var, t, tsnap>> /\ pc[r] = "savewrite"
    BY <1>9 DEF SaveWrite
  <2>2. pc[Root] \in Updated /\ t < tsnapdat.tout
    BY <2>1, AheadOfTime DEF SavedAfter
  <2>3. pc'[Root] \in Updated
    BY <2>1, <2>2 DEF NumberTypes
  <2>4. \A q \in Procs : vardat'[q].t = IF q = r THEN t ELSE vardat[q].t
    BY <2>1 DEF Now, NumberTypes
  <2>5. \A q \in Procs : Whole(vardat'[q]) /\ q # r => Whole(vardat[q])
    BY <2>4 DEF Whole
  <2> QED
    BY <1>a, <2>1, <2>2, <2>3, <2>4, <2>5 DEF FileAhead, Regular
<1>10. CASE Kill
  BY <1>10, <1>a DEF Kill, NumberTypes, FileAhead, Regular
<1>11. CASE Launch
  <2>1. UNCHANGED <<disk, tsnap>> /\ pc'[Root] \in {"first", "failed"}
        /\ (pc'[Root] = "first" => \E r \in Procs : Whole(vardat[r]) /\ t' = vardat[r].t)
    BY <1>11, StartsFromWhole DEF Launch
  <2> QED
    BY <1>a, <2>1 DEF FileAhead, Regular
<1>12. CASE Python
  BY <1>12, <1>b DEF Python, BeginRead, ReadProc, EndRead, BeginResume, CopyProc, EndResume
<1>13. CASE UNCHANGED vars
  BY <1>13, <1>b DEF vars
<1> QED
  BY <1>1, <1>2, <1>3, <1>4, <1>5, <1>6, <1>7, <1>8, <1>9, <1>10, <1>11, <1>12, <1>13,
     <1>14, <1>15 DEF Next, Run, Rank

\* VARn is the first state at or after n times dsnap, in whichever run it was written and
\* wherever the runs before were killed (read_snaptime and update_snaptime, sub.f90), if no
\* time step is longer than dsnap.
THEOREM NumberIsTime ==
  ASSUME \A dt \in DtValues : dt <= DSnap
  PROVE  Spec => []NumberTellsTime
<1>1. Init => TimeInv
  BY SnapshotsAssumption
     DEF Init, TimeInv, FileAhead, SavedAfter, NumberTellsTime, Everywhere, None, NoFile, Regular, Whole,
         InStep, Numbers
<1>2. FileInv /\ FileInv' /\ TimeInv /\ [Next]_vars => TimeInv'
  BY NextTime
<1>3. TimeInv => NumberTellsTime
  BY DEF TimeInv
<1> QED
  BY <1>1, <1>2, <1>3, RunsInFile, PTL DEF Spec

-----------------------------------------------------------------------------
(* One state *)

Used(n, r) == var[n][r] # None

\* No file of a number that is still to come exists, ...
Fresh ==
  /\ \A n \in Numbers, r \in Procs : Used(n, r) =>
       /\ tsnapdat # NoFile /\ pc[Root] # "create"
       /\ Regular => n < tsnapdat.nout
       /\ pc[Root] = "tsnap" => n < nsnap
  /\ \A r \in Procs : pc[r] \in {"open", "write"} => pc[Root] \in Updated
  /\ \A r \in Procs : pc[r] \in {"snaptime", "tsnap", "ghosts", "open"} /\ nsnap \in Numbers =>
       ~Used(nsnap, r)

\* ... so that all files of a number are of the same step.
Agree ==
  /\ \A n \in Numbers, p, q \in Procs :
       Whole(var[n][p]) /\ Whole(var[n][q]) => var[n][p] = var[n][q]
  /\ pc[Root] \in Updated /\ Due /\ nsnap \in Numbers =>
       \A r \in Procs : Whole(var[nsnap][r]) => var[nsnap][r] = Now

WholeInv == Fresh /\ Agree

LEMMA NextWhole ==
  ASSUME FileInv, FileInv', WholeInv, [Next]_vars
  PROVE  WholeInv'
<1> USE SnapshotsAssumption
    DEF FileInv, WholeInv, disk, clock, Everywhere, InStep, Updated, Stopped, Used
<1>b. ASSUME UNCHANGED <<disk, pc, clock, runs>> PROVE WholeInv'
  BY <1>b DEF Fresh, Agree, Regular, Due, Now
<1>1. CASE TakeStep
  BY <1>1 DEF TakeStep, NumberTypes, Together, FileSays, Fresh, Agree, Regular, At
<1>2. CASE ReadSnaptime
  BY <1>2 DEF ReadSnaptime, NumberTypes, Together, FileSays, Fresh, Agree, Regular, NoFile, EmptyFile
<1>15. CASE OpenSnaptime
  BY <1>15 DEF OpenSnaptime, NumberTypes, Together, FileSays, Fresh, Agree, Regular, NoFile, EmptyFile
<1>16. CASE CreateSnaptime
  BY <1>16 DEF CreateSnaptime, NumberTypes, Together, FileSays, Fresh, Agree, Regular, NoFile, EmptyFile, Whole, None
<1>3. CASE WriteSnaptime
  <2>1. /\ pc[Root] = "tsnap" /\ tsnapdat' = [tout |-> tsnap + DSnap, nout |-> nsnap + 1]
        /\ pc' = [pc EXCEPT ![Root] = "ghosts"] /\ UNCHANGED <<var, vardat, clock, runs>>
    BY <1>3 DEF WriteSnaptime
  <2>2. \A n \in Numbers, r \in Procs : Used(n, r) => n < nsnap
    BY <2>1 DEF Fresh
  <2>3. nsnap \in Numbers => \A r \in Procs : ~Whole(var[nsnap][r])
    BY <2>2 DEF Whole, None, Numbers
  <2>4. Fresh'
    BY <2>1, <2>2 DEF Fresh, NumberTypes, Numbers, Regular, NoFile
  <2> QED
    BY <2>1, <2>3, <2>4 DEF Agree
<1>4. CASE EndStep
  BY <1>4 DEF EndStep, NumberTypes, Together, Fresh, Agree, Regular
<1>5. ASSUME NEW r \in Procs, UpdateSnaptime(r) PROVE WholeInv'
  <2>1. Fresh'
    BY <1>5 DEF UpdateSnaptime, NumberTypes, FileSays, Fresh, Regular, At, EmptyFile, NoFile
  <2>2. (Due' <=> Due) /\ pc'[Root] \in Updated /\ Due => pc[Root] \in Updated
    BY <1>5 DEF UpdateSnaptime, NumberTypes, Together, Due
  <2> QED
    BY <1>5, <2>1, <2>2 DEF UpdateSnaptime, Agree, Now, Due
<1>6. ASSUME NEW r \in Procs, Ghosts(r) PROVE WholeInv'
  <2>1. /\ pc[r] = "ghosts" /\ pc' = [pc EXCEPT ![r] = "open"]
        /\ UNCHANGED <<disk, clock, runs>>
    BY <1>6 DEF Ghosts
  <2>2. pc'[Root] \in Updated
    BY <1>6, <2>1 DEF Ghosts, OthersCame, NumberTypes, Together
  <2>3. Fresh'
    BY <2>1, <2>2 DEF Fresh, NumberTypes, Regular
  <2>4. pc[Root] \in Updated
    BY <2>1, <2>2 DEF NumberTypes
  <2> QED
    BY <2>1, <2>3, <2>4 DEF Agree, NumberTypes, Due, Now
<1>7. ASSUME NEW r \in Procs, Save(r) PROVE WholeInv'
  BY <1>7 DEF Save, NumberTypes, Fresh, Agree, Regular, Due, Now
<1>8. ASSUME NEW r \in Procs, OpenVar(r) PROVE WholeInv'
  BY <1>8, OneFileChanges, FilesAreContent
     DEF OpenVar, NumberTypes, FileSays, Fresh, Agree, Regular, At, NoFile, Due, Now, Torn, Whole
<1>9. ASSUME NEW r \in Procs, WriteVar(r) PROVE WholeInv'
  BY <1>9, OneFileChanges, FilesAreContent
     DEF WriteVar, NumberTypes, FileSays, Fresh, Agree, Regular, At, NoFile, Due, Now
<1>10. ASSUME NEW r \in Procs, SaveGhosts(r) \/ SaveWrite(r) PROVE WholeInv'
  <2>1. /\ UNCHANGED <<tsnapdat, var, t, tsnap, nsnap, runs>>
        /\ \A q \in Procs : \/ pc'[q] = pc[q]
                            \/ /\ pc[q] \in {"saveghosts", "savewrite"}
                               /\ pc'[q] \in {"savewrite", "stepped"}
    BY <1>10 DEF SaveGhosts, SaveWrite, NumberTypes
  <2> QED
    BY <2>1 DEF Fresh, Agree, Regular, Due, Now
<1>11. CASE Kill
  BY <1>11 DEF Kill, NumberTypes, Fresh, Agree, Regular
<1>12. CASE Launch
  BY <1>12 DEF Launch, NumberTypes, Fresh, Agree, Regular
<1>13. CASE Python
  BY <1>13, <1>b DEF Python, BeginRead, ReadProc, EndRead, BeginResume, CopyProc, EndResume
<1>14. CASE UNCHANGED vars
  BY <1>14, <1>b DEF vars
<1> QED
  BY <1>1, <1>2, <1>3, <1>4, <1>5, <1>6, <1>7, <1>8, <1>9, <1>10, <1>11, <1>12, <1>13, <1>14,
     <1>15, <1>16 DEF Next, Run, Rank

LEMMA StepsWhole == Spec => [](FileInv /\ WholeInv)
<1>1. Init => WholeInv
  BY SnapshotsAssumption
     DEF Init, WholeInv, Fresh, Agree, Used, Everywhere, NoFile, None, Whole, InStep, Updated
<1>2. FileInv /\ FileInv' /\ WholeInv /\ [Next]_vars => WholeInv'
  BY NextWhole
<1> QED
  BY <1>1, <1>2, RunsInFile, PTL DEF Spec

\* VARn is of one state of one run when all ranks have it, although the ranks write it one
\* after the other, are killed in between, and a later run may come to the same time
\* (wsnap, snapshot.f90): no rank writes before the root has written tsnap.dat, for all wait
\* for it after the ghost zones (finalize_isendrcv_bdry, mpicomm.f90).
THEOREM SnapshotIsWhole == Spec => []VarWhole
<1>1. WholeInv => VarWhole
  BY DEF WholeInv, Agree, VarWhole, OneState
<1> QED
  BY <1>1, StepsWhole, PTL

-----------------------------------------------------------------------------
(* The Python package *)

\* What has been written once is not written again.
LEMMA WholeStays ==
  ASSUME FileInv, WholeInv, [Next]_vars, NEW n \in Numbers, NEW r \in Procs, Whole(var[n][r])
  PROVE  var'[n][r] = var[n][r]
<1>1. ASSUME NEW q \in Procs, OpenVar(q) \/ WriteVar(q) PROVE var'[n][r] = var[n][r]
  <2>1. pc[q] = "open" /\ n = nsnap => ~Used(n, q)
    BY DEF WholeInv, Fresh
  <2>2. pc[q] \in {"open", "write"} => pc[Root] \in Updated /\ Due
    BY DEF WholeInv, Fresh, FileInv, FileSays
  <2>3. n = nsnap /\ pc[q] \in {"open", "write"} => var[n][r] = Now
    BY <2>2 DEF WholeInv, Agree
  <2>4. CASE OpenVar(q)
    BY <2>1, <2>4, OneFileChanges, FilesAreContent DEF OpenVar, Used, Whole, None
  <2>5. CASE WriteVar(q)
    BY <2>3, <2>5, OneFileChanges, FilesAreContent DEF WriteVar
  <2> QED
    BY <1>1, <2>4, <2>5
<1>2. CASE UNCHANGED var
  BY <1>2
<1> QED
  BY <1>1, <1>2
     DEF Next, vars, disk, Run, Rank, TakeStep, ReadSnaptime, OpenSnaptime, CreateSnaptime, WriteSnaptime, EndStep, UpdateSnaptime,
         Ghosts, Save, SaveGhosts, SaveWrite, Kill, Launch, Python, BeginRead, ReadProc, EndRead,
         BeginResume, CopyProc, EndResume

\* A VARn is of a time after that of start.x.
Later == \A n \in Numbers, r \in Procs : Whole(var[n][r]) => var[n][r].t > 0

\* What has been copied is still the file it was copied from, if that was whole; of the root
\* there was one to copy.
CopyInv ==
  /\ dest \in [Procs -> Content] /\ copied \subseteq Procs
  /\ call.op \in {"none", "read", "cube"} => copied = {}
  /\ call.op = "resumed" => copied = Procs
  /\ \A p \in Procs \ copied : dest[p] \in {None, Own}
  /\ call.op \in {"resume", "resumed"} =>
       /\ call.n \in Numbers /\ Used(call.n, Root)
       /\ \A p \in copied : Whole(dest[p]) => dest[p] \in {Own, var[call.n][p]}
       /\ Root \in copied => dest[Root] # Own

\* A cell that a processor fills which has been read is from such a processor.
BlocksInv ==
  call.op \in {"read", "cube"} =>
    /\ call.n \in Numbers
    /\ call.op = "cube" => todo = {}
    /\ \A p \in Procs \ todo : Whole(var[call.n][p])
    /\ \A c \in Cells : (\E p \in Procs \ todo : Fills(p, c)) =>
         \E p \in Procs \ todo : f[c].of = var[call.n][p]

CallType == call \in [op : {"none", "read", "cube", "error", "resume", "resumed"}, n : Int]

PythonInv == CallType /\ CopyInv /\ BlocksInv

LEMMA AtLeastOne == ASSUME NEW n \in Nat \ {0} PROVE n * DSnap > 0
<1>1. DSnap \in Nat /\ DSnap >= 1 /\ n - 1 \in Nat
  BY SnapshotsAssumption
<1>2. n * DSnap = (n - 1) * DSnap + DSnap /\ (n - 1) * DSnap \in Nat
  BY <1>1
<1> QED BY <1>1, <1>2

LEMMA NextLater ==
  ASSUME FileInv, Later, [Next]_vars PROVE Later'
<1>1. ASSUME NEW r \in Procs, WriteVar(r) PROVE Later'
  <2>1. pc[Root] \in InStep /\ Due
    BY <1>1, SnapshotsAssumption DEF WriteVar, FileInv, Together, FileSays, InStep, Stopped
  <2>2. nsnap \in Nat \ {0} /\ tsnap = nsnap * DSnap /\ t \in Nat /\ tsnap \in Int /\ t >= tsnap
    BY <2>1 DEF FileInv, NumberTypes, FileSays, Due
  <2>3. Now.t > 0
    BY <2>2, AtLeastOne DEF Now
  <2>4. Numbers' = Numbers
    BY DEF Numbers, MaxT
  <2> QED BY <1>1, <2>3, <2>4, OneFileChanges, FilesAreContent DEF WriteVar, Later
<1>2. ASSUME NEW r \in Procs, OpenVar(r) PROVE Later'
  BY <1>2, OneFileChanges, FilesAreContent DEF OpenVar, Later, Torn, Whole, Numbers, MaxT
<1>3. CASE UNCHANGED var
  BY <1>3 DEF Later, Numbers, MaxT
<1> QED
  BY <1>1, <1>2, <1>3
     DEF Next, vars, disk, Run, Rank, TakeStep, ReadSnaptime, OpenSnaptime, CreateSnaptime, WriteSnaptime, EndStep,
         UpdateSnaptime, Ghosts, Save, SaveGhosts, SaveWrite, Kill, Launch, Python, BeginRead, ReadProc,
         EndRead, BeginResume, CopyProc, EndResume

\* A file that has been written once is not taken away.
LEMMA UsedStays ==
  ASSUME FileInv, [Next]_vars, NEW n \in Numbers, NEW r \in Procs, Used(n, r)
  PROVE  Used(n, r)'
<1>1. ASSUME NEW q \in Procs, OpenVar(q) \/ WriteVar(q) PROVE Used(n, r)'
  <2>1. Torn # None /\ Now # None
    BY DEF Torn, None, Now, FileInv, NumberTypes
  <2> QED BY <1>1, <2>1, OneFileChanges, FilesAreContent DEF OpenVar, WriteVar, Used
<1>2. CASE UNCHANGED var
  BY <1>2 DEF Used
<1> QED
  BY <1>1, <1>2
     DEF Next, vars, disk, Run, Rank, TakeStep, ReadSnaptime, OpenSnaptime, CreateSnaptime, WriteSnaptime, EndStep,
         UpdateSnaptime, Ghosts, Save, SaveGhosts, SaveWrite, Kill, Launch, Python, BeginRead, ReadProc,
         EndRead, BeginResume, CopyProc, EndResume

LEMMA NextPython ==
  ASSUME FileInv, WholeInv, Later, PythonInv, [Next]_vars
  PROVE  PythonInv'
<1>1. \A n \in Numbers, r \in Procs : Whole(var[n][r]) => var'[n][r] = var[n][r]
  BY WholeStays
<1> USE DEF PythonInv
<1>0. \A n \in Numbers, r \in Procs : Used(n, r) => Used(n, r)'
  BY UsedStays
<1>2. ASSUME UNCHANGED <<call, copied, dest>> PROVE CopyInv'
  <2>1. ASSUME NEW p \in copied, Whole(dest[p]), call.op \in {"resume", "resumed"}
        PROVE  dest[p] \in {Own, var'[call.n][p]}
    <3>1. p \in Procs /\ call.n \in Numbers /\ dest[p] \in {Own, var[call.n][p]}
      BY <2>1 DEF CopyInv
    <3> QED BY <1>1, <2>1, <3>1
  <2> QED BY <1>0, <1>2, <2>1, SnapshotsAssumption DEF CopyInv, Numbers, MaxT, Whole
<1>3. ASSUME UNCHANGED <<call, cube>> PROVE BlocksInv'
  BY <1>1, <1>3 DEF BlocksInv, cube
<1>4. ASSUME UNCHANGED py PROVE PythonInv'
  BY <1>2, <1>3, <1>4 DEF py, CallType
<1>11. Numbers \subseteq Int /\ Numbers' = Numbers
  BY DEF Numbers, MaxT
<1>5. ASSUME NEW n \in Numbers, BeginRead(n) PROVE PythonInv'
  <2>1. /\ call.op = "none" /\ call' = [op |-> "read", n |-> n] /\ todo' = Procs
        /\ UNCHANGED <<disk, copied, dest>>
    BY <1>5 DEF BeginRead, BeginCube, Idle
  <2>2. BlocksInv'
    BY <1>11, <2>1 DEF BlocksInv
  <2>3. CopyInv'
    BY <2>1 DEF CopyInv
  <2> QED
    BY <1>11, <2>1, <2>2, <2>3 DEF CallType
<1>6. ASSUME NEW n \in Numbers, BeginResume(n) PROVE PythonInv'
  <2>1. /\ call.op = "none" /\ UNCHANGED <<disk, cube, copied, dest>>
        /\ call' = [op |-> IF var[n][Root] = None THEN "error" ELSE "resume", n |-> n]
    BY <1>6 DEF BeginResume, Idle
  <2>2. copied = {}
    BY <2>1 DEF CopyInv
  <2>3. CopyInv'
    BY <1>11, <2>1, <2>2 DEF CopyInv, Used, disk
  <2> QED
    BY <1>11, <2>1, <2>3 DEF CallType, BlocksInv
<1>7. ASSUME NEW p \in Procs, ReadProc(p) PROVE PythonInv'
  <2>1. CASE ~Whole(var[call.n][p])
    BY <1>7, <2>1 DEF ReadProc, Return, CallType, CopyInv, BlocksInv
  <2>2. CASE Whole(var[call.n][p])
    <3>1. /\ call.op = "read" /\ StoreBlock(p, var[call.n][p]) /\ UNCHANGED <<disk, call, copied, dest>>
      BY <1>7, <2>2 DEF ReadProc
    <3>2. /\ todo' = todo \ {p}
          /\ \A c \in Cells : f'[c].of = IF Fills(p, c) THEN var[call.n][p] ELSE f[c].of
      BY <3>1 DEF StoreBlock
    <3>3. BlocksInv'
      BY <2>2, <3>1, <3>2 DEF BlocksInv, disk
    <3> QED
      BY <1>2, <3>1, <3>3 DEF CallType
  <2> QED
    BY <2>1, <2>2
<1>8. ASSUME NEW p \in Procs, CopyProc(p) PROVE PythonInv'
  <2>1. /\ call.op = "resume" /\ p \notin copied /\ copied' = copied \cup {p}
        /\ dest' = [dest EXCEPT ![p] = IF var[call.n][p] = None THEN @ ELSE var[call.n][p]]
        /\ UNCHANGED <<disk, call, cube>>
    BY <1>8 DEF CopyProc
  <2>2. /\ dest \in [Procs -> Content] /\ copied \subseteq Procs /\ call.n \in Numbers
        /\ dest[p] \in {None, Own} /\ var[call.n][p] \in Content
        /\ Used(call.n, Root) /\ ~Whole(None)
    BY <2>1 DEF CopyInv, FileInv, NumberTypes, Whole, None
  <2>3. dest' \in [Procs -> Content]
    BY <2>1, <2>2
  <2>4. \A q \in Procs \ {p} : dest'[q] = dest[q]
    BY <2>1, <2>2
  <2>5. dest'[p] = IF var[call.n][p] = None THEN dest[p] ELSE var[call.n][p]
    BY <2>1, <2>2
  <2>6. var[call.n][p] # Own
    BY <2>2 DEF Later, Own, Whole
  <2>7. var' = var
    BY <2>1 DEF disk
  <2>8. CopyInv'
    <3>1. ASSUME NEW q \in copied', Whole(dest'[q]) PROVE dest'[q] \in {Own, var[call.n][q]}
      <4>1. CASE q = p
        BY <2>2, <2>5, <3>1, <4>1
      <4>2. CASE q # p
        BY <2>1, <2>2, <2>4, <3>1, <4>2 DEF CopyInv
      <4> QED BY <4>1, <4>2
    <3>2. Root \in copied' => dest'[Root] # Own
      <4>1. CASE Root = p
        BY <2>2, <2>5, <2>6, <4>1 DEF Used
      <4>2. CASE Root # p
        BY <2>1, <2>4, <4>2, SnapshotsAssumption DEF CopyInv
      <4> QED BY <4>1, <4>2
    <3>3. \A q \in Procs \ copied' : dest'[q] \in {None, Own}
      BY <2>1, <2>4 DEF CopyInv
    <3>4. copied' \subseteq Procs /\ Used(call.n, Root)'
      BY <2>1, <2>2, <2>7 DEF Used
    <3> QED BY <2>1, <2>2, <2>3, <2>7, <3>1, <3>2, <3>3, <3>4 DEF CopyInv, Whole, Numbers, MaxT
  <2> QED BY <1>3, <2>1, <2>8 DEF CallType
<1>9. CASE EndRead \/ EndResume
  BY <1>9 DEF EndRead, EndResume, Return, disk, cube, CallType, CopyInv, BlocksInv, Used, Whole
<1>10. CASE Run \/ Kill \/ Launch \/ UNCHANGED vars
  BY <1>4, <1>10
     DEF vars, Run, Rank, TakeStep, ReadSnaptime, OpenSnaptime, CreateSnaptime, WriteSnaptime, EndStep, UpdateSnaptime, Ghosts,
         OpenVar, WriteVar, Save, SaveGhosts, SaveWrite, Kill, Launch
<1> QED
  BY <1>5, <1>6, <1>7, <1>8, <1>9, <1>10 DEF Next, Python

LEMMA PythonKeeps == Spec => [](FileInv /\ WholeInv /\ Later /\ PythonInv)
<1>1. Init => Later /\ PythonInv
  BY DEF Init, Later, Whole, Everywhere, PythonInv, CallType, CopyInv, BlocksInv, None, Own, Content
<1>2. FileInv /\ Later /\ [Next]_vars => Later'
  BY NextLater
<1>3. FileInv /\ WholeInv /\ Later /\ PythonInv /\ [Next]_vars => PythonInv'
  BY NextPython
<1> QED
  BY <1>1, <1>2, <1>3, StepsWhole, PTL DEF Spec

\* What DataCube.read returns is one state, although the run goes on, is killed and starts
\* again while the blocks are read (var.py:208-283), if the blocks cover the array.
THEOREM ReadIsOneState ==
  ASSUME \A c \in Cells : \E p \in Procs : Fills(p, c)
  PROVE  Spec => []ReadOneState
<1>1. WholeInv /\ PythonInv => ReadOneState
  BY DEF WholeInv, Agree, PythonInv, BlocksInv, ReadOneState
<1> QED
  BY <1>1, PythonKeeps, PTL

\* With ireset_tstart = 0 a run starts from one state, or not at all, after resume_from_var:
\* although files that do not exist are skipped, so that older ones remain in their place,
\* and the other run, whatever its own ireset_tstart, goes on writing (simulation.py:234,
\* io_dist.f90:597-628).
THEOREM ResumedIsOneState == Spec => []ResumeOneState
<1>1. ASSUME WholeInv, Later, PythonInv, call.op = "resumed", Accepted(dest, 0) PROVE OneState(dest)
  <2>1. copied = Procs /\ call.n \in Numbers /\ Root \in Procs
    BY <1>1, SnapshotsAssumption DEF PythonInv, CopyInv
  <2>2. \A r \in Procs : Whole(dest[r]) /\ dest[r].t = dest[Root].t
    BY <1>1 DEF Accepted
  <2>3. \A r \in Procs : dest[r] \in {Own, var[call.n][r]}
    BY <1>1, <2>1, <2>2 DEF PythonInv, CopyInv
  <2>4. dest[Root] = var[call.n][Root]
    BY <1>1, <2>1, <2>3 DEF PythonInv, CopyInv
  <2>5. dest[Root].t > 0
    BY <1>1, <2>1, <2>2, <2>4 DEF Later
  <2>6. \A r \in Procs : dest[r] = var[call.n][r]
    BY <2>2, <2>3, <2>5 DEF Own
  <2> QED
    BY <1>1, <2>1, <2>2, <2>6 DEF WholeInv, Agree, OneState
<1>2. WholeInv /\ Later /\ PythonInv => ResumeOneState
  BY <1>1 DEF ResumeOneState
<1> QED
  BY <1>2, PythonKeeps, PTL

-----------------------------------------------------------------------------
(* The numbers that are lost *)

Broken(n) == \E r \in Procs : ~Whole(var[n][r])

\* The numbers before that of the step the run is in.
Older == {n \in Numbers : n < nsnap /\ Broken(n)}

\* Between two steps no more numbers are lost than runs were killed; in a step that goes for
\* the numbers before its own, and the ranks that are done have written theirs.
LostInv ==
  /\ kills \in Nat
  /\ pc[Root] \notin InStep => Cardinality(Lost) <= kills
  /\ pc[Root] \in InStep => Cardinality(Older) <= kills
  /\ \A r \in Procs : pc[r] \in {"save", "saveghosts", "savewrite", "stepped"} /\ Due /\ nsnap \in Numbers =>
       Whole(var[nsnap][r])

\* Finitely many numbers are below any other.
LEMMA FewNumbers ==
  ASSUME NEW m \in Int, NEW S, \A n \in S : n \in Numbers /\ n < m
  PROVE  IsFiniteSet(S) /\ Cardinality(S) \in Nat
<1>1. IsFiniteSet(1 .. m)
  BY FS_Interval
<1>2. S \in SUBSET (1 .. m)
  BY DEF Numbers
<1>3. IsFiniteSet(S)
  BY <1>1, <1>2, FS_Subset
<1> QED BY <1>3, FS_CardinalityType

LEMMA FewLost ==
  ASSUME FileInv
  PROVE  /\ IsFiniteSet(Lost) /\ Cardinality(Lost) \in Nat
         /\ IsFiniteSet(Older) /\ Cardinality(Older) \in Nat
<1>1. nsnap \in Int /\ tsnapdat.nout \in Int
  BY DEF FileInv, NumberTypes
<1>2. \A n \in Lost : n \in Numbers /\ n < tsnapdat.nout
  BY DEF Lost
<1>3. \A n \in Older : n \in Numbers /\ n < nsnap
  BY DEF Older
<1> QED BY <1>1, <1>2, <1>3, FewNumbers

\* One number more is lost by a kill, and it is that of the step.
LEMMA KillLosesOne ==
  ASSUME FileInv, LostInv, Kill
  PROVE  LostInv'
<1> USE SnapshotsAssumption
<1>1. /\ pc' = Everywhere("killed") /\ kills' = kills + 1 /\ UNCHANGED <<disk, clock>>
      /\ kills \in Nat /\ nsnap \in Int
  BY DEF Kill, LostInv, FileInv, NumberTypes
<1>2. Lost' = Lost /\ IsFiniteSet(Lost) /\ Cardinality(Lost) \in Nat /\ Cardinality(Older) \in Nat
      /\ IsFiniteSet(Older)
  BY <1>1, FewLost DEF Lost, disk
<1>3. CASE pc[Root] \notin InStep
  BY <1>1, <1>2, <1>3 DEF LostInv, Everywhere, InStep
<1>4. CASE pc[Root] \in InStep
  <2>1. Lost \subseteq Older \cup {nsnap}
    <3>1. tsnapdat.nout <= nsnap + 1
      BY <1>1, <1>4 DEF FileInv, FileSays, InStep, Updated, At, EmptyFile
    <3> SUFFICES ASSUME NEW n \in Lost, n # nsnap PROVE n \in Older
      OBVIOUS
    <3>2. n \in Numbers /\ n < tsnapdat.nout /\ Broken(n) /\ n \in Int /\ tsnapdat.nout \in Int
      BY DEF Lost, Broken, Numbers, FileInv, NumberTypes
    <3>3. n < nsnap
      BY <1>1, <3>1, <3>2
    <3> QED BY <3>2, <3>3 DEF Older
  <2>2. IsFiniteSet(Older \cup {nsnap}) /\ Cardinality(Older \cup {nsnap}) <= Cardinality(Older) + 1
    <3>1. IsFiniteSet(Older \cup {nsnap})
          /\ Cardinality(Older \cup {nsnap}) = IF nsnap \in Older THEN Cardinality(Older)
                                               ELSE Cardinality(Older) + 1
      BY <1>2, FS_AddElement
    <3> QED BY <1>2, <3>1
  <2>3. Cardinality(Lost) <= Cardinality(Older \cup {nsnap})
        /\ Cardinality(Older \cup {nsnap}) \in Nat
    BY <2>1, <2>2, FS_Subset, FS_CardinalityType
  <2>4. Cardinality(Lost) <= kills + 1
    BY <1>1, <1>2, <1>4, <2>2, <2>3 DEF LostInv
  <2> QED BY <1>1, <1>2, <2>4 DEF LostInv, Everywhere, InStep
<1> QED BY <1>3, <1>4

LEMMA NextLost ==
  ASSUME FileInv, FileInv', LostInv, [Next]_vars
  PROVE  LostInv'
<1> USE SnapshotsAssumption DEF disk, clock, Everywhere
<1>a. pc \in [Procs -> Labels] /\ nsnap \in Int /\ kills \in Nat /\ t \in Nat
  BY DEF FileInv, NumberTypes, LostInv
<1>b. ASSUME UNCHANGED <<tsnapdat, var>> PROVE Lost' = Lost
  BY <1>b DEF Lost
<1>c. ASSUME UNCHANGED <<var, nsnap>> PROVE Older' = Older
  BY <1>c DEF Older, Broken
\* The steps of one rank.
<1>d. ASSUME NEW r \in Procs, NEW l \in InStep, pc[r] \in InStep, pc' = [pc EXCEPT ![r] = l]
      PROVE  pc[Root] \in InStep /\ pc'[Root] \in InStep
  BY <1>a, <1>d DEF FileInv, Together, InStep, Stopped
<1>e. ASSUME NEW r \in Procs, NEW l \in InStep, pc[r] \in InStep, pc' = [pc EXCEPT ![r] = l],
             UNCHANGED <<var, t, tsnap, nsnap, kills>>,
             l \in {"save", "saveghosts", "savewrite", "stepped"} =>
               ~Due \/ pc[r] \in {"save", "saveghosts", "savewrite"}
      PROVE  LostInv'
  <2>1. pc[Root] \in InStep /\ pc'[Root] \in InStep /\ Older' = Older
    BY <1>c, <1>d, <1>e
  <2>2. ASSUME NEW q \in Procs, pc'[q] \in {"save", "saveghosts", "savewrite", "stepped"},
               Due, nsnap \in Numbers
        PROVE  Whole(var[nsnap][q])
    <3>1. pc[q] \in {"save", "saveghosts", "savewrite", "stepped"}
      BY <1>a, <1>e, <2>2
    <3> QED BY <2>2, <3>1 DEF LostInv
  <2>3. (Due' <=> Due) /\ Numbers' = Numbers
    BY <1>e DEF Due, Numbers, MaxT
  <2> QED BY <1>e, <2>1, <2>2, <2>3 DEF LostInv, Whole
<1>1. CASE TakeStep
  <2>1. /\ \A r \in Procs : pc[r] = "step" /\ pc'[r] = "snaptime"
        /\ UNCHANGED <<tsnapdat, var, nsnap, kills>>
    BY <1>1 DEF TakeStep
  <2>2. tsnapdat.nout = nsnap
    BY <2>1 DEF FileInv, FileSays, At
  <2>3. Lost = Older
    BY <2>2 DEF Lost, Older, Broken
  <2>4. Older' = Older
    BY <1>c, <2>1
  <2>5. Cardinality(Lost) <= kills
    BY <2>1 DEF LostInv, InStep
  <2> QED BY <1>a, <2>1, <2>3, <2>4, <2>5 DEF LostInv, InStep
<1>2. CASE ReadSnaptime
  <2>1. /\ \A r \in Procs : pc[r] = "first" /\ pc'[r] \in {"failed", "step"}
        /\ UNCHANGED <<var, kills>>
    BY <1>2 DEF ReadSnaptime
  <2>2. Cardinality(Lost) <= kills
    BY <2>1 DEF LostInv, InStep
  <2>3. tsnapdat' = tsnapdat
    BY <1>2 DEF ReadSnaptime
  <2> QED BY <1>a, <1>b, <2>1, <2>2, <2>3 DEF LostInv, InStep
<1>11. CASE OpenSnaptime \/ CreateSnaptime
  <2>1. /\ \A r \in Procs : pc[r] \in {"first", "create"} /\ pc'[r] \in {"first", "create", "step"}
        /\ UNCHANGED <<var, kills>>
    BY <1>11 DEF OpenSnaptime, CreateSnaptime, FileInv, NumberTypes, Together, InStep, Stopped
  <2>2. tsnapdat'.nout \in {-2, 1}
    BY <1>11 DEF OpenSnaptime, CreateSnaptime, EmptyFile
  <2>3. Lost' = {}
    BY <2>2 DEF Lost, Numbers
  <2>4. Cardinality({}) = 0
    BY FS_EmptySet
  <2> QED BY <1>a, <2>1, <2>3, <2>4 DEF LostInv, InStep
<1>3. CASE WriteSnaptime
  <2>1. /\ pc[Root] = "tsnap" /\ pc' = [pc EXCEPT ![Root] = "ghosts"]
        /\ UNCHANGED <<var, t, tsnap, nsnap, kills>>
    BY <1>3 DEF WriteSnaptime
  <2> QED BY <1>e, <2>1 DEF InStep
<1>4. CASE EndStep
  <2>1. /\ \A r \in Procs : pc[r] = "stepped" /\ pc'[r] \in {"over", "step"}
        /\ UNCHANGED <<tsnapdat, var, t, kills>>
    BY <1>4 DEF EndStep
  <2>2. Lost' = Lost
    BY <1>b, <2>1
  <2>3. tsnapdat.nout = IF Due THEN nsnap + 1 ELSE nsnap
    BY <2>1 DEF FileInv, FileSays, InStep, Updated, At
  <2>4. Lost \subseteq Older
    <3> SUFFICES ASSUME NEW n \in Lost PROVE n \in Older
      OBVIOUS
    <3>1. n \in Numbers /\ n < tsnapdat.nout /\ Broken(n) /\ n \in Int
      BY DEF Lost, Broken, Numbers
    <3>2. ~(Due /\ n = nsnap)
      BY <2>1, <3>1 DEF LostInv, Broken
    <3>3. n < nsnap
      BY <1>a, <2>3, <3>1, <3>2
    <3> QED BY <3>1, <3>3 DEF Older
  <2>5. Cardinality(Lost) <= Cardinality(Older) /\ Cardinality(Lost) \in Nat /\ Cardinality(Older) \in Nat
    BY <2>4, FewLost, FS_Subset
  <2>6. Cardinality(Older) <= kills
    BY <2>1 DEF LostInv, InStep
  <2> QED BY <1>a, <2>1, <2>2, <2>5, <2>6 DEF LostInv, InStep
<1>5. ASSUME NEW r \in Procs, UpdateSnaptime(r) PROVE LostInv'
  <2>1. PICK l \in {"save", "tsnap", "ghosts"} :
          pc' = [pc EXCEPT ![r] = l] /\ (l = "save" => ~Due)
    BY <1>5 DEF UpdateSnaptime
  <2>2. pc[r] = "snaptime" /\ UNCHANGED <<var, t, tsnap, nsnap, kills>>
    BY <1>5 DEF UpdateSnaptime
  <2> QED BY <1>e, <2>1, <2>2 DEF InStep
<1>6. ASSUME NEW r \in Procs, Ghosts(r) \/ Save(r) \/ SaveGhosts(r) \/ SaveWrite(r) PROVE LostInv'
  <2>1. UNCHANGED <<var, t, tsnap, nsnap, kills>>
    BY <1>6 DEF Ghosts, Save, SaveGhosts, SaveWrite
  <2>2. \/ pc[r] = "ghosts" /\ pc' = [pc EXCEPT ![r] = "open"]
        \/ pc[r] = "save" /\ pc' = [pc EXCEPT ![r] = "saveghosts"]
        \/ pc[r] = "save" /\ pc' = [pc EXCEPT ![r] = "stepped"]
        \/ pc[r] = "saveghosts" /\ pc' = [pc EXCEPT ![r] = "savewrite"]
        \/ pc[r] = "savewrite" /\ pc' = [pc EXCEPT ![r] = "stepped"]
    BY <1>6 DEF Ghosts, Save, SaveGhosts, SaveWrite
  <2> QED BY <1>e, <2>1, <2>2 DEF InStep
<1>7. ASSUME NEW r \in Procs, OpenVar(r) \/ WriteVar(r) PROVE LostInv'
  <2>1. UNCHANGED <<t, tsnap, nsnap, kills>>
    BY <1>7 DEF OpenVar, WriteVar
  <2>2. \/ pc[r] = "open" /\ pc' = [pc EXCEPT ![r] = "write"]
        \/ pc[r] = "write" /\ pc' = [pc EXCEPT ![r] = "save"] /\ var' = [var EXCEPT ![nsnap][r] = Now]
    BY <1>7 DEF OpenVar, WriteVar
  <2>3. PICK c \in Content :
          \A n \in Numbers, q \in Procs : var'[n][q] = IF n = nsnap /\ q = r THEN c ELSE var[n][q]
    BY <1>7, OneFileChanges, FilesAreContent DEF OpenVar, WriteVar
  <2>4. pc[Root] \in InStep /\ pc'[Root] \in InStep
    BY <1>d, <2>2 DEF InStep
  <2>5. Older' = Older
    <3>1. \A n \in Numbers : n < nsnap => n # nsnap
      BY <1>a
    <3> QED BY <2>1, <2>3, <3>1 DEF Older, Broken, Numbers, MaxT
  <2>6. ASSUME NEW q \in Procs, pc'[q] \in {"save", "saveghosts", "savewrite", "stepped"},
               Due, nsnap \in Numbers
        PROVE  Whole(var'[nsnap][q])
    <3>1. CASE q = r
      <4>1. var' = [var EXCEPT ![nsnap][r] = Now]
        BY <1>a, <2>2, <2>6, <3>1
      <4>2. var'[nsnap][r] = Now
        BY <2>6, <4>1, OneFileChanges, FilesAreContent
      <4> QED BY <1>a, <3>1, <4>2 DEF Now, Whole
    <3>2. CASE q # r
      <4>1. pc[q] = pc'[q] /\ var'[nsnap][q] = var[nsnap][q]
        BY <1>a, <2>2, <2>3, <2>6, <3>2
      <4> QED BY <2>6, <4>1 DEF LostInv
    <3> QED BY <3>1, <3>2
  <2>7. (Due' <=> Due)
    BY <2>1 DEF Due
  <2> QED BY <2>1, <2>4, <2>5, <2>6, <2>7 DEF LostInv, Whole
<1>8. CASE Kill
  BY <1>8, KillLosesOne
<1>9. CASE Launch
  <2>1. /\ \A r \in Procs : pc'[r] \in {"first", "failed"}
        /\ pc[Root] \in {"over", "killed", "failed"} /\ UNCHANGED <<tsnapdat, var, kills>>
    BY <1>9 DEF Launch, Ended
  <2> QED BY <1>a, <1>b, <2>1 DEF LostInv, InStep
<1>10. CASE Python \/ UNCHANGED vars
  <2>1. UNCHANGED <<disk, pc, clock, kills>>
    BY <1>10 DEF Python, BeginRead, ReadProc, EndRead, BeginResume, CopyProc, EndResume, vars
  <2>2. Lost' = Lost /\ Older' = Older /\ (Due' <=> Due)
    BY <1>b, <1>c, <2>1 DEF Due
  <2> QED BY <1>a, <2>1, <2>2 DEF LostInv, Whole
<1> QED
  BY <1>1, <1>2, <1>3, <1>4, <1>5, <1>6, <1>7, <1>8, <1>9, <1>10, <1>11 DEF Next, Run, Rank

\* However often the run is killed and started again, a kill costs at most one number: the
\* others before that in tsnap.dat are whole on every rank (update_snaptime, sub.f90, and
\* wsnap, snapshot.f90, which write the file and the snapshot one after the other).
THEOREM KillsLoseNumbers == Spec => []LostToKills
<1>1. Init => LostInv
  <2> SUFFICES ASSUME Init PROVE LostInv
    OBVIOUS
  <2>1. pc[Root] = "first" /\ kills = 0 /\ \A r \in Procs : pc[r] = "first"
    BY SnapshotsAssumption DEF Init, Everywhere
  <2>2. Lost = {}
    BY DEF Init, Lost, NoFile, Numbers
  <2> QED BY <2>1, <2>2, FS_EmptySet DEF LostInv, InStep
<1>2. FileInv /\ FileInv' /\ LostInv /\ [Next]_vars => LostInv'
  BY NextLost
<1>3. FileInv /\ LostInv => LostToKills
  BY SnapshotsAssumption DEF FileInv, Together, LostInv, LostToKills, InStep, Stopped
<1> QED
  BY <1>1, <1>2, <1>3, RunsInFile, PTL DEF Spec

-----------------------------------------------------------------------------
(* The array of DataCube.read: the order of the directories keeps the copies in the ghost *)
(* zones out of it. *)

\* Multiplication by n >= 1 keeps the order.
LEMMA TimesOrder ==
  ASSUME NEW i \in Nat, NEW j \in Nat, NEW n \in Nat \ {0}, i * n < (j + 1) * n
  PROVE  i <= j
<1> SUFFICES ASSUME i >= j + 1 PROVE FALSE
  OBVIOUS
<1> PICK k \in Nat : i = j + 1 + k
  <2> i - (j + 1) \in Nat
    OBVIOUS
  <2> QED
    OBVIOUS
<1>1. i * n = (j + 1) * n + k * n
  OBVIOUS
<1>2. k * n >= 0
  OBVIOUS
<1> QED
  BY <1>1, <1>2

\* A processor that fills a cell is in no direction beyond the one it belongs to, ...
LEMMA FillsBefore ==
  ASSUME NEW p \in Procs, NEW q \in Procs, NEW c \in Cells, Fills(p, c), Owns(q, c)
  PROVE  p <= q
<1> SUFFICES ASSUME NEW d \in Dirs PROVE IP[p][d] <= IP[q][d]
  BY CubeAssumption
<1> DEFINE i == IP[p][d]
           j == IP[q][d]
           n == NLoc[d]
           g == NGhost[d]
<1>1. /\ i \in Nat /\ j \in Nat /\ n \in Nat \ {0} /\ g \in Nat /\ NProc[d] \in Nat
      /\ i < NProc[d]
  BY CubeAssumption
<1>2. c[d] \in Int
  BY <1>1, CubeAssumption DEF Cells, MGlobal
<1>3. CASE i = 0
  BY <1>1, <1>3
<1>4. CASE j = NProc[d] - 1
  BY <1>1, <1>4
<1>5. CASE i # 0 /\ j # NProc[d] - 1
  <2>1. i * n + g <= c[d]
    BY <1>5 DEF Fills, First
  <2>2. c[d] < (j + 1) * n + g
    BY <1>5 DEF Owns
  <2>3. i * n \in Int /\ (j + 1) * n \in Int
    BY <1>1
  <2>4. i * n < (j + 1) * n
    <3> HIDE DEF i, j, n, g
    <3> QED
      BY <1>1, <1>2, <2>1, <2>2, <2>3
  <2> QED
    <3> HIDE DEF i, j, n, g
    <3> i <= j
      BY <1>1, <2>4, TimesOrder
    <3> QED
      BY DEF i, j
<1> QED
  BY <1>3, <1>4, <1>5

\* ... and the one it belongs to fills it, from the right place of its block.
LEMMA OwnerFills ==
  ASSUME NEW q \in Procs, NEW c \in Cells, Owns(q, c)
  PROVE  Fills(q, c) /\ Local(q, c) = [d \in Dirs |-> c[d] - IP[q][d] * NLoc[d]]
<1> SUFFICES ASSUME NEW d \in Dirs
             PROVE  /\ First(q, d) <= c[d] /\ c[d] <= Last(q, d)
                    /\ c[d] - First(q, d) + FirstLoc(q, d) = c[d] - IP[q][d] * NLoc[d]
  BY DEF Fills, Local
<1> DEFINE j == IP[q][d]
           n == NLoc[d]
           g == NGhost[d]
           N == NProc[d]
<1>1. j \in Nat /\ n \in Nat \ {0} /\ g \in Nat /\ N \in Nat \ {0} /\ j < N
  BY CubeAssumption
<1>2. c[d] \in Nat /\ c[d] < N * n + 2 * g
  BY <1>1, CubeAssumption DEF Cells, MGlobal
<1>3. /\ j = 0 \/ j * n + g <= c[d]
      /\ j = N - 1 \/ c[d] < (j + 1) * n + g
  BY DEF Owns
<1>4. (j + 1) * n = j * n + n /\ j * n \in Nat /\ (j = 0 => j * n = 0)
  BY <1>1
<1>5. c[d] < j * n + n + 2 * g
  <2>1. CASE j = N - 1
    <3> N = j + 1
      BY <1>1, <2>1
    <3> QED
      BY <1>1, <1>2, <1>4
  <2>2. CASE j # N - 1
    BY <1>1, <1>2, <1>3, <1>4, <2>2
  <2> QED
    BY <2>1, <2>2
<1>6. First(q, d) = IF j = 0 THEN 0 ELSE j * n + g
  BY DEF First
<1>7. FirstLoc(q, d) = IF j = 0 THEN 0 ELSE g
  BY DEF FirstLoc
<1>8. Last(q, d) = First(q, d) + (n + 2 * g) - FirstLoc(q, d) - 1
  BY DEF Last, MLoc
<1> HIDE DEF j, n, g, N
<1>9. First(q, d) = j * n + FirstLoc(q, d)
  BY <1>1, <1>4, <1>6, <1>7
<1>10. FirstLoc(q, d) \in Nat
  BY <1>1, <1>7
<1>11. First(q, d) <= c[d]
  BY <1>1, <1>2, <1>3, <1>4, <1>6
<1>12. c[d] <= Last(q, d)
  BY <1>1, <1>2, <1>4, <1>5, <1>8, <1>9, <1>10
<1>13. c[d] - First(q, d) + FirstLoc(q, d) = c[d] - j * n
  BY <1>1, <1>2, <1>4, <1>9, <1>10
<1> QED
  BY <1>11, <1>12, <1>13 DEF j, n

\* The processors that have been read are those with the smallest numbers.
ReadInOrder == \A p \in todo, q \in Procs \ todo : q < p

CubeInv == todo \in SUBSET Procs /\ ReadInOrder /\ CellsFromOwner

\* Reading the next block overwrites no cell of a processor that has been read.
LEMMA StoreKeeps ==
  ASSUME CubeInv, NEW p, NEW content, IsNext(p), StoreBlock(p, content)
  PROVE  CubeInv'
<1>1. p \in Procs /\ todo' = todo \ {p} /\ todo' \in SUBSET Procs
  BY DEF CubeInv, IsNext, StoreBlock
<1>2. \A c \in Cells :
        f'[c] = IF Fills(p, c) THEN [proc |-> p, at |-> Local(p, c), of |-> content] ELSE f[c]
  BY DEF StoreBlock
<1>3. ReadInOrder'
  <2> SUFFICES ASSUME NEW r \in todo \ {p}, NEW q \in Procs, q \notin todo \/ q = p
               PROVE  q < r
    BY <1>1 DEF ReadInOrder
  <2>1. r \in Nat /\ q \in Nat
    BY CubeAssumption DEF CubeInv
  <2>2. CASE q \notin todo
    BY <2>2 DEF CubeInv, ReadInOrder
  <2>3. CASE q = p
    BY <2>1, <2>3 DEF IsNext
  <2> QED
    BY <2>2, <2>3
<1>4. CellsFromOwner'
  <2> SUFFICES ASSUME NEW q \in Procs, q \notin todo \/ q = p, NEW c \in Cells, Owns(q, c)
               PROVE  /\ f'[c].proc = q
                      /\ f'[c].at = [d \in Dirs |-> c[d] - IP[q][d] * NLoc[d]]
    BY <1>1 DEF CellsFromOwner, Owns, Cells, MGlobal
  <2>1. CASE q = p
    <3>1. Fills(q, c) /\ Local(q, c) = [d \in Dirs |-> c[d] - IP[q][d] * NLoc[d]]
      BY OwnerFills
    <3>2. f'[c] = [proc |-> q, at |-> Local(q, c), of |-> content]
      BY <1>2, <2>1, <3>1
    <3> QED
      BY <3>1, <3>2
  <2>2. CASE q \notin todo
    <3>1. q < p
      BY <2>2 DEF IsNext, CubeInv, ReadInOrder
    <3>2. ~Fills(p, c)
      <4> SUFFICES ASSUME Fills(p, c) PROVE FALSE
        OBVIOUS
      <4>1. p <= q
        BY <1>1, FillsBefore
      <4> QED
        BY <1>1, <3>1, <4>1, CubeAssumption
    <3>3. f'[c] = f[c]
      BY <1>2, <3>2
    <3> QED
      BY <2>2, <3>3 DEF CubeInv, CellsFromOwner
  <2> QED
    BY <2>1, <2>2
<1> QED
  BY <1>1, <1>3, <1>4 DEF CubeInv

\* A new array has nothing of any processor yet.
LEMMA BeginKeeps == (todo = Procs => CubeInv) /\ (BeginCube => CubeInv')
<1>1. todo = Procs => CubeInv
  BY DEF CubeInv, ReadInOrder, CellsFromOwner
<1>2. ASSUME BeginCube PROVE CubeInv'
  BY <1>2 DEF BeginCube, CubeInv, ReadInOrder, CellsFromOwner
<1> QED
  BY <1>1, <1>2

LEMMA CubeStutter == CubeInv /\ UNCHANGED cube => CubeInv'
BY DEF CubeInv, ReadInOrder, CellsFromOwner, cube, Owns, Cells, MGlobal

\* Everything else leaves the array alone.
LEMMA NextKeepsCube == CubeInv /\ [Next]_vars => CubeInv'
<1> SUFFICES ASSUME CubeInv, [Next]_vars PROVE CubeInv'
  OBVIOUS
<1>1. CASE Run
  <2>1. UNCHANGED py
    BY <1>1 DEF Run, Rank, ReadSnaptime, OpenSnaptime, CreateSnaptime, TakeStep, WriteSnaptime, EndStep, UpdateSnaptime,
                Ghosts, OpenVar, WriteVar, Save, SaveGhosts, SaveWrite
  <2> QED
    BY <2>1, CubeStutter DEF py
<1>2. CASE Kill \/ Launch \/ UNCHANGED vars
  BY <1>2, CubeStutter DEF Kill, Launch, vars, py
<1>3. CASE Python
  <2>1. CASE \E n \in Asked \cap Numbers : BeginRead(n)
    BY <2>1, BeginKeeps DEF BeginRead
  <2>2. CASE \E n \in Asked \cap Numbers : BeginResume(n)
    BY <2>2, CubeStutter DEF BeginResume
  <2>3. ASSUME NEW p \in Procs, ReadProc(p) PROVE CubeInv'
    <3>1. CASE UNCHANGED cube
      BY <3>1, CubeStutter
    <3>2. CASE StoreBlock(p, var[call.n][p])
      BY <2>3, <3>2, StoreKeeps DEF ReadProc
    <3> QED
      BY <2>3, <3>1, <3>2 DEF ReadProc
  <2>4. CASE \E p \in Procs : CopyProc(p)
    BY <2>4, CubeStutter DEF CopyProc
  <2>5. CASE EndRead \/ EndResume
    BY <2>5, CubeStutter DEF EndRead, EndResume
  <2> QED
    BY <1>3, <2>1, <2>2, <2>3, <2>4, <2>5 DEF Python
<1> QED
  BY <1>1, <1>2, <1>3 DEF Next

\* Whatever the decomposition and the ghost zones: a cell whose processor has been read
\* holds what that processor has there, and never the copy of a neighbour.
THEOREM CubeFromOwners == Spec => []CellsFromOwner
<1>1. Init => CubeInv
  BY BeginKeeps DEF Init, CubeInit
<1>2. CubeInv => CellsFromOwner
  BY DEF CubeInv
<1> QED
  BY <1>1, <1>2, NextKeepsCube, PTL DEF Spec
=============================================================================
