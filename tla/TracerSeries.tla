---------------------------- MODULE TracerSeries ----------------------------
(***************************************************************************)
(* The snapshots a call of find_tracers is about, and the arrays of its    *)
(* results: one entry per snapshot.                                        *)
(***************************************************************************)
EXTENDS Integers

CONSTANTS
  NSeeds,     \* the number of rows of seeds, int(trace_sub*dim.nx)
  Inputs      \* the arguments <<ti, tf>>, and old, of the calls

ASSUME SeriesAssumption ==
  /\ NSeeds \in Nat /\ Inputs \subseteq Int \X Int \X BOOLEAN

VARIABLES
  ti, tf,
  old         \* is it tracers of the package pencil, or find_tracers of pencilnew?

input == <<ti, tf, old>>

Seeds == 0 .. NSeeds - 1

\* Check if user wants a tracer time series.
series == ti >= 0 /\ tf >= ti
nTimes == IF series THEN tf - ti + 1 ELSE 1

\* The number n of VARn, or -1 for the file named in the argument varfile.
FileOf(i) == IF series THEN i ELSE -1

\* The range of the loop over the snapshots, in pencilnew and in pencil.
NewFirst == ti
NewLast  == tf
OldFirst == 0
OldLast  == nTimes - 1
FirstIdx == IF old THEN OldFirst ELSE NewFirst
LastIdx  == IF old THEN OldLast ELSE NewLast

\* Entry i of a Python array of nTimes entries: a negative i counts from the end.
InRange(i) == -nTimes <= i /\ i < nTimes
Entry(i)   == IF i < 0 THEN nTimes + i ELSE i

Zero == <<"zero", 0, 0>>                     \* np.zeros
Seed == <<"seed", 0, 0>>                     \* the point a line starts from
Line(file, seed) == <<"end", file, seed>>    \* where the line of this seed ends
NoTime == -2

ZeroRows == [k \in 0 .. nTimes - 1 |-> [s \in Seeds |-> Zero]]
ZeroTime == [k \in 0 .. nTimes - 1 |-> NoTime]

InitInput == \E in \in Inputs : ti = in[1] /\ tf = in[2] /\ old = in[3]
=============================================================================
