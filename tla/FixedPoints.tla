---------------------------- MODULE FixedPoints ----------------------------
(***************************************************************************)
(* find_fixed (pencilnew/diag/fixed_points.py) and fixed_points (pencil/   *)
(* files/fixed_points.py): the mapping is traced by find_tracers first;    *)
(* then, for every snapshot (fixed_points: for the only one), n_proc       *)
(* processes look for fixed points of the mapping in the cells between the *)
(* seeds.  Process w has the cells w, w + n_proc, ...; a cell needs the    *)
(* lines of the seeds at both its sides.                                   *)
(***************************************************************************)
EXTENDS Tracers, SequencesExt

CONSTANTS
  CellOf,     \* CellOf[file][cell]: the sign of its Poincare index, and where Newton's
              \* method ends, in halves of the grid spacing, or Outside the cell
  Outside

VARIABLES
  stage,      \* "tracers": in find_tracers, "fixed": in the loop over the snapshots
  tidx,       \* its index
  fixed,      \* the points found in each snapshot, [at, sign]
  fidx,       \* their total index
  poincare,   \* the index of each cell
  found       \* history: the points found before those close to others are discarded

fixedVars == <<stage, tidx, fixed, fidx, poincare, found>>
allVars == <<vars, fixedVars>>

Cells == 0 .. NSeeds - 2
Steps == 0 .. nTimes - 1

\* The index and the point of a cell, without the sense of the mapping.
NoSense(c) == [cell |-> c, at |-> Outside, sign |-> 0]

\* fixed_points has arguments ti and tf, and does not hand them to tracers.
InitFixed ==
  /\ Init
  /\ old => ~series
  /\ stage = "tracers" /\ tidx = 0
  /\ fixed = [k \in Steps |-> << >>] /\ found = [k \in Steps |-> << >>]
  /\ fidx = [k \in Steps |-> 0]
  /\ poincare = [k \in Steps |-> [c \in Seeds |-> 0]]

\* The call of find_tracers.
TracersParent == stage = "tracers" /\ ParentStep /\ UNCHANGED fixedVars
TracersWork(w) == stage = "tracers" /\ WorkTracers(w) /\ UNCHANGED fixedVars

BeginFixed ==
  /\ stage = "tracers" /\ parent = "done"
  /\ stage' = "fixed" /\ parent' = "read"
  /\ UNCHANGED <<child, queue, sub_data, seriesVars, tidx, fixed, fidx, poincare, found>>

ReadField ==
  /\ stage = "fixed" /\ parent = "read" /\ tidx < nTimes
  /\ Prepare
  /\ UNCHANGED <<seriesVars, fixedVars>>

ReturnFixed ==
  /\ stage = "fixed" /\ parent = "read" /\ tidx = nTimes
  /\ parent' = "done"
  /\ UNCHANGED <<child, queue, sub_data, seriesVars, fixedVars>>

\* The snapshot the loop reads the field of.
FieldFile(k) == IF series THEN k + ti ELSE -1

\* What a process finds in a cell, provided that the lines at its sides are lines of
\* the field the process has.
Search(c) ==
  IF \A s \in {c, c + 1} : x1[tidx][s] = Line(FieldFile(tidx), s)
  THEN CellOf[FieldFile(tidx)][c]
  ELSE NoSense(c)

\* The cells of process w, in order: ix0[i_proc::n_proc].
NCells(w) == (NSeeds - 1 + NProc - 1 - w) \div NProc
CellAt(w, i) == w + (i - 1) * NProc

\* The elements of s at these places, in order.
Sifted(s, places) ==
  [i \in 1 .. Cardinality(places) |->
     s[CHOOSE n \in places : Cardinality({m \in places : m <= n}) = i]]

\* What the process finds in these of its cells: the points within their cells, and the
\* index of every cell.
Searched(w, cells) ==
  [points |-> Sifted(cells, {i \in 1 .. Len(cells) : cells[i].sign # 0 /\ cells[i].at # Outside}),
   rows |-> [row \in 0 .. NRows(w) - 1 |->
               IF row < NCells(w) THEN Search(CellAt(w, row + 1)).sign ELSE 0]]

\* Mutant of SubFixed: the process stops one cell early.
OneCellLess(w) == Searched(w, [i \in 1 .. NCells(w) - 1 |-> Search(CellAt(w, i))])

\* __sub_fixed
SubFixed(w) == Searched(w, [i \in 1 .. NCells(w) |-> Search(CellAt(w, i))])

FixedWork(w) ==
  /\ stage = "fixed"
  /\ Start(w) \/ Die(w) \/ Put(w, SubFixed(w))
  /\ UNCHANGED <<seriesVars, fixedVars>>

FixedCollect ==
  /\ stage = "fixed" /\ (Get \/ Join)
  /\ UNCHANGED <<seriesVars, fixedVars>>

\* The mask of __discard_close_fixed_points: more than half a grid spacing apart.
Apart(p, q) == p.at - q.at > 1 \/ q.at - p.at > 1

\* Mutant of DiscardClose: a point is compared with the one before it only.
DiscardPrevious(points) ==
  Sifted(points, {i \in 1 .. Len(points) : i = 1 \/ Apart(points[i], points[i - 1])})

\* A point stays if it is apart from all before it, those discarded included.
DiscardClose(points) ==
  Sifted(points, {i \in 1 .. Len(points) : \A j \in 1 .. i - 1 : Apart(points[i], points[j])})

Points(order) == FlattenSeq([i \in 1 .. NProc |-> sub_data[order[i]].data.points])
AsArrived == [i \in 1 .. NProc |-> i]

\* fixed.x.append(xyq[xyq[iproc][4]][0]): the entry at the number of the process.
OldOrder == [i \in 1 .. NProc |-> sub_data[i].from + 1]

\* self.poincare[sub_proc::n_proc, :, tidx] = ...
NewCells(k) ==
  [c \in Seeds |->
     LET i == CHOOSE i \in 1 .. NProc : sub_data[i].from = c % NProc
     IN sub_data[i].data.rows[Row(c)]]

StoreFixed ==
  LET points == Points(AsArrived)
  IN /\ stage = "fixed" /\ parent = "store" /\ ~old
     /\ found' = [found EXCEPT ![tidx] = points]
     /\ fixed' = [fixed EXCEPT ![tidx] = DiscardClose(points)]
     /\ fidx' = [fidx EXCEPT ![tidx] = FoldSeq(LAMBDA p, n : p.sign + n, 0, points)]
     /\ poincare' = [poincare EXCEPT ![tidx] = NewCells(tidx)]
     /\ tidx' = tidx + 1
     /\ parent' = "read"
     /\ UNCHANGED <<child, queue, sub_data, seriesVars, stage>>

\* pencil: no point is discarded, fidx is their number; that was the only snapshot.
StoreFixedOld ==
  LET points == Points(OldOrder)
  IN /\ stage = "fixed" /\ parent = "store" /\ old
     /\ found' = [found EXCEPT ![0] = points]
     /\ fixed' = [fixed EXCEPT ![0] = points]
     /\ fidx' = [fidx EXCEPT ![0] = Len(points)]
     /\ tidx' = 1
     /\ parent' = "done"
     /\ UNCHANGED <<child, queue, sub_data, seriesVars, stage, poincare>>

FixedParent ==
  \/ TracersParent
  \/ BeginFixed \/ ReadField \/ ReturnFixed \/ FixedCollect \/ StoreFixed \/ StoreFixedOld
FixedChild(w) == TracersWork(w) \/ FixedWork(w)

FixedNext == FixedParent \/ \E w \in Workers : FixedChild(w)

FixedSpec == InitFixed /\ [][FixedNext]_allVars

\* The parent runs, and the operating system runs the children.
FairFixedSpec ==
  FixedSpec /\ WF_allVars(FixedParent) /\ \A w \in Workers : WF_allVars(FixedChild(w))
-----------------------------------------------------------------------------
(* Properties *)

\* While find_tracers runs there is at most one message of each process, about the
\* snapshot it works on.
MappingInv == stage = "tracers" => TracersInv

\* Whatever the number of processes and the order of their messages, the mapping is
\* the one a single loop over the seeds gives.
Mapping == INSTANCE SerialTracing WITH
             phase <- IF stage = "fixed" THEN "done"
                      ELSE IF Working THEN "trace" ELSE parent
IsSerial == Mapping!Spec

\* The points of a snapshot, cell by cell.
Expected(k) ==
  {p \in {CellOf[FieldFile(k)][c] : c \in Cells} : p.sign # 0 /\ p.at # Outside}

\* Every cell is looked at by one process, with the lines of this snapshot; although the
\* messages come in any order, every point is entered once, the index of each cell is
\* that cell's, and the total does not depend on the order.
EveryPointOnce ==
  \A k \in Steps : k < tidx =>
    /\ Len(found[k]) = Cardinality(Expected(k))
    /\ {found[k][i] : i \in 1 .. Len(found[k])} = Expected(k)
    /\ ~old => /\ \A c \in Cells : poincare[k][c] = CellOf[FieldFile(k)][c].sign
               /\ fidx[k] = MapThenSumSet(LAMBDA p : p.sign, Expected(k))

\* Two points that are kept are more than half a grid spacing apart.
KeptApart ==
  ~old => \A k \in Steps : \A i, j \in 1 .. Len(fixed[k]) :
            i # j => Apart(fixed[k][i], fixed[k][j])

\* find_fixed ends, unless find_tracers has failed or one of the processes has died.
FixedEndsUnlessDied ==
  <>(\/ stage = "fixed" /\ parent = "done"
     \/ parent = "failed"
     \/ \E w \in Workers : child[w] = "died")
=============================================================================
