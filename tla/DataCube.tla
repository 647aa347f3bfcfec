------------------------------ MODULE DataCube ------------------------------
(***************************************************************************)
(* DataCube.read of the Python package: the blocks of all processors are   *)
(* put together to one array.  A block has ghost zones, so that the blocks *)
(* overlap: of two that hold the same cell, the one read last stays.       *)
(***************************************************************************)
EXTENDS Integers, FiniteSets, FiniteSetsExt

CONSTANTS
  Procs,     \* the processors, which are numbers
  Dirs,      \* the directions
  NProc,     \* nprocx, nprocy, nprocz
  NLoc,      \* nx, ny, nz of a processor
  NGhost,    \* nghostx, nghosty, nghostz
  IP         \* IP[p]: ipx, ipy and ipz of processor p, from its dim.dat

\* However the processors are numbered (lprocz_slowest or not), the number grows with each
\* of ipx, ipy and ipz.
ASSUME CubeAssumption ==
  /\ IsFiniteSet(Procs) /\ Procs \in SUBSET Nat
  /\ NProc \in [Dirs -> Nat \ {0}] /\ NLoc \in [Dirs -> Nat \ {0}]
  /\ NGhost \in [Dirs -> Nat]
  /\ IP \in [Procs -> [Dirs -> Nat]]
  /\ \A p \in Procs, d \in Dirs : IP[p][d] < NProc[d]
  /\ \A p, q \in Procs : (\A d \in Dirs : IP[p][d] <= IP[q][d]) => p <= q

VARIABLES
  todo,   \* the processor directories still to be read
  f       \* the array: for each cell what it holds, and from where that is

cube == <<todo, f>>

MLoc(d)    == NLoc[d] + 2 * NGhost[d]
MGlobal(d) == NProc[d] * NLoc[d] + 2 * NGhost[d]
Cells == {c \in [Dirs -> UNION {0 .. MGlobal(d) - 1 : d \in Dirs}] :
            \A d \in Dirs : c[d] < MGlobal(d)}

\* What a file has in it: the state of one run at one time, or nothing.
None  == [t |-> -1, run |-> 0]
Zero  == [proc |-> -1, at |-> << >>, of |-> None]
Zeros == [c \in Cells |-> Zero]

\* The part of the array that processor p fills, and the part of its block that goes there:
\* all of it, or all but the ghost zone on the left.
First(p, d)    == IF IP[p][d] = 0 THEN 0 ELSE IP[p][d] * NLoc[d] + NGhost[d]
FirstLoc(p, d) == IF IP[p][d] = 0 THEN 0 ELSE NGhost[d]
Last(p, d)     == First(p, d) + MLoc(d) - FirstLoc(p, d) - 1

Fills(p, c) == \A d \in Dirs : First(p, d) <= c[d] /\ c[d] <= Last(p, d)
Local(p, c) == [d \in Dirs |-> c[d] - First(p, d) + FirstLoc(p, d)]

CubeInit == todo = Procs /\ f = Zeros

BeginCube == todo' = Procs /\ f' = Zeros

StoreBlock(p, content) ==
  /\ todo' = todo \ {p}
  /\ f' = [c \in Cells |->
             IF Fills(p, c) THEN [proc |-> p, at |-> Local(p, c), of |-> content] ELSE f[c]]

\* Mutant of IsNext: the directories come as listdir gives them.
IsNextUnsorted(p) == p \in todo

\* The directories are sorted by number.
IsNext(p) == p \in todo /\ \A q \in todo : p <= q
-----------------------------------------------------------------------------
\* The cells that processor p itself computes, or gets from the boundary conditions.
Owns(p, c) ==
  \A d \in Dirs : LET i == IP[p][d]
                  IN /\ i = 0 \/ i * NLoc[d] + NGhost[d] <= c[d]
                     /\ i = NProc[d] - 1 \/ c[d] < (i + 1) * NLoc[d] + NGhost[d]

\* Every cell whose processor has been read holds what that processor has there, and not
\* the copy in the ghost zone of a neighbour, which is stale in dvar.dat or if the snapshot
\* is written with noghost.
CellsFromOwner ==
  \A p \in Procs \ todo, c \in Cells :
    Owns(p, c) => /\ f[c].proc = p
                  /\ f[c].at = [d \in Dirs |-> c[d] - IP[p][d] * NLoc[d]]
=============================================================================
