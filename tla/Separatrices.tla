---------------------------- MODULE Separatrices ----------------------------
(***************************************************************************)
(* find_separatrices (pencilnew/tool_kit/field_skeleton.py): the surface   *)
(* of field lines that leave a magnetic null point is covered by rings.    *)
(* Every point of a ring is moved along its field line; where two          *)
(* neighbours are too far from each other a point is put between them;     *)
(* points outside of the domain are removed.  The result is the list of    *)
(* all points and the list of the edges between them, pairs of indices.    *)
(*                                                                         *)
(* Which gaps are too wide and which points lie outside depends on the     *)
(* field; the model takes every choice.  A point of a ring is known by the *)
(* number of its field line.  Indices count from 1, and 0 is what the code *)
(* writes as -1.                                                           *)
(*                                                                         *)
(* connectivity_rings[1, :] -= left_shift (l.746) subtracts floats from    *)
(* integers in place: numpy before 1.10 computes this, as Left does, and   *)
(* later ones raise an exception at the first ring.                        *)
(***************************************************************************)
EXTENDS Integers, Sequences, FiniteSets

CONSTANTS
  RingDensity,  \* ring_density
  Calls,        \* the numbers <<nulls, iter_max>> the function is called with
  MaxNew        \* bound on the points put into a ring in one iteration

ASSUME RingAssumption ==
  /\ RingDensity \in Nat \ {0} /\ Calls \subseteq Nat \X Nat /\ MaxNew \in Nat

VARIABLES
  nulls, iter_max,
  pc,             \* "null", "grow", "remove", "connect"
  null,           \* the number of nulls taken so far
  iteration, lines,
  separatrices,   \* the points, [null, line, ring]
  connectivity,   \* the edges, [kind, a, b]
  ring, ring_old,
  wide,           \* the ring with the points put into it
  out,            \* the points of wide that are removed
  conn,           \* connectivity_rings[1]: where the points of ring_old are in the new ring
  not_next        \* not_connect_to_next

input   == <<nulls, iter_max>>
results == <<separatrices, connectivity>>
work    == <<ring, ring_old, wide, out, conn, not_next>>
vars    == <<input, pc, null, iteration, lines, results, work>>

Edges(kind, pairs) == {[kind |-> kind, a |-> e[1], b |-> e[2]] : e \in pairs}

Init ==
  /\ \E c \in Calls : nulls = c[1] /\ iter_max = c[2]
  /\ pc = "null" /\ null = 0 /\ iteration = 0 /\ lines = 0
  /\ separatrices = << >> /\ connectivity = {}
  /\ ring = << >> /\ ring_old = << >> /\ wide = << >>
  /\ out = {} /\ conn = << >> /\ not_next = {}

Point(line, k) == [null |-> null', line |-> line, ring |-> k]

\* A null that is not like an x point gives no ring.
SkipNull ==
  /\ pc = "null" /\ null < nulls
  /\ null' = null + 1
  /\ separatrices' = Append(separatrices, Point(0, 0))
  /\ UNCHANGED <<input, pc, iteration, lines, connectivity, work>>

\* Mutant of FirstEdges: the offset is taken behind the null.
FirstEdgesLate(offset) ==
  LET o == offset + 1
  IN Edges("null", {<<o, o + i>> : i \in 1 .. RingDensity})
       \cup Edges("ring", {<<o + i, o + i + 1>> : i \in 1 .. RingDensity - 1}
                          \cup {<<o + 1, o + RingDensity>>})

FirstEdges(offset) ==
  Edges("null", {<<offset, offset + i>> : i \in 1 .. RingDensity})
    \cup Edges("ring", {<<offset + i, offset + i + 1>> : i \in 1 .. RingDensity - 1}
                       \cup {<<offset + 1, offset + RingDensity>>})

\* The null and the first ring of points around it.
FirstRing ==
  LET first == [i \in 1 .. RingDensity |-> lines + i]
  IN /\ pc = "null" /\ null < nulls
     /\ null' = null + 1
     /\ ring' = first
     /\ separatrices' = Append(separatrices, Point(0, 0))
                          \o [i \in 1 .. RingDensity |-> Point(first[i], 0)]
     /\ connectivity' = connectivity \cup FirstEdges(Len(separatrices) + 1)
     /\ lines' = lines + RingDensity
     /\ iteration' = 0
     /\ pc' = "grow"
     /\ UNCHANGED <<input, ring_old, wide, out, conn, not_next>>

StopIterating ==
  /\ pc = "grow" /\ iteration >= iter_max
  /\ pc' = "null"
  /\ UNCHANGED <<input, null, iteration, lines, results, work>>

\* The gaps of a ring: i is the one behind point i; the last one closes the ring.
Gaps == IF Len(ring) > 1 THEN 1 .. Len(ring) ELSE {}

\* Where point i goes when points are put into the gaps ins.
Moved(i, ins) == i + Cardinality({j \in ins : j < i})

\* connectivity_rings[1, point_idx+1:] += 1
Shifted(ins) == [i \in 1 .. Len(ring) |-> Moved(i, ins)]

Widened(ins) ==
  [p \in 1 .. Len(ring) + Cardinality(ins) |->
     IF \E i \in 1 .. Len(ring) : Moved(i, ins) = p
     THEN ring[CHOOSE i \in 1 .. Len(ring) : Moved(i, ins) = p]
     ELSE lines + p]

\* The points are moved along their lines, and points are put between them.
Grow ==
  /\ pc = "grow" /\ iteration < iter_max
  /\ ring_old' = ring
  /\ \E ins \in SUBSET Gaps :
       /\ Cardinality(ins) <= MaxNew
       /\ conn' = Shifted(ins)
       /\ wide' = Widened(ins)
       /\ lines' = lines + Len(ring) + Cardinality(ins)
  /\ pc' = "remove"
  /\ UNCHANGED <<input, null, iteration, results, ring, out, not_next>>

Kept(o) == DOMAIN wide \ o

\* len(ring_new) when point p is looked at.
Before(p, o) == Cardinality({q \in Kept(o) : q < p})

\* Mutant of Left: the shift counts the points that are kept.
LeftOfKept(o) ==
  [i \in DOMAIN conn |-> IF conn[i] \in o THEN 0
                         ELSE conn[i] - Cardinality({q \in Kept(o) : q < conn[i]})]

\* connectivity_rings[1] -= left_shift, 0 for a point that is removed.
Left(o) ==
  [i \in DOMAIN conn |-> IF conn[i] \in o THEN 0
                         ELSE conn[i] - Cardinality({q \in o : q < conn[i]})]

Remaining(o) ==
  [i \in 1 .. Cardinality(Kept(o)) |-> wide[CHOOSE p \in Kept(o) : Before(p, o) = i - 1]]

\* The points outside of the domain are removed; no ring is left if all are.
Remove ==
  /\ pc = "remove"
  /\ \E o \in SUBSET DOMAIN wide :
       /\ out' = o
       /\ ring' = Remaining(o)
       /\ separatrices' = separatrices
            \o [i \in 1 .. Cardinality(Kept(o)) |->
                  [null |-> null, line |-> Remaining(o)[i], ring |-> iteration + 1]]
       /\ not_next' = {Before(p, o) : p \in o}
       /\ conn' = Left(o)
       /\ pc' = IF Kept(o) = {} THEN "null" ELSE "connect"
  /\ UNCHANGED <<input, null, iteration, lines, connectivity, ring_old, wide>>

\* Mutant of RingEdges: every point is joined with the next one.
AllRingEdges ==
  LET n == Len(ring)  offset == Len(separatrices) - n
  IN {<<offset + p, offset + p + 1>> : p \in 1 .. n - 1}

RingEdges ==
  LET n == Len(ring)  offset == Len(separatrices) - n
  IN {<<offset + p, offset + p + 1>> : p \in (1 .. n - 1) \ not_next}

\* The edge between the first and the last point of the ring; n + 1 is never in not_next.
ClosingEdge ==
  LET n == Len(ring)  offset == Len(separatrices) - n
  IN IF n + 1 \notin not_next /\ 0 \notin not_next THEN {<<offset + 1, offset + n>>} ELSE {}

LineEdges ==
  LET n == Len(ring)  old == Len(ring_old)  all == Len(separatrices)
  IN {<<i + all - old - n, conn[i] + all - n>> : i \in {i \in 1 .. old : conn[i] >= 1}}

Connect ==
  /\ pc = "connect"
  /\ connectivity' = connectivity \cup Edges("ring", RingEdges) \cup Edges("closing", ClosingEdge)
                       \cup Edges("line", LineEdges)
  /\ iteration' = iteration + 1
  /\ pc' = "grow"
  /\ UNCHANGED <<input, null, lines, separatrices, work>>

Next == SkipNull \/ FirstRing \/ StopIterating \/ Grow \/ Remove \/ Connect

Spec == Init /\ [][Next]_vars
-----------------------------------------------------------------------------
(* Properties *)

Pt(i) == separatrices[i]

\* An edge joins two points of the list: the null with a point of its first ring, two
\* points of one ring, or a point with the next one on the same field line.
EdgeRight(e) ==
  /\ e.a \in 1 .. Len(separatrices) /\ e.b \in 1 .. Len(separatrices)
  /\ Pt(e.a).null = Pt(e.b).null
  /\ CASE e.kind = "null" -> Pt(e.a).line = 0 /\ Pt(e.b).line # 0 /\ Pt(e.b).ring = 0
       [] e.kind = "line" -> Pt(e.a).line = Pt(e.b).line /\ Pt(e.b).ring = Pt(e.a).ring + 1
       [] OTHER -> Pt(e.a).line # 0 /\ Pt(e.b).line # 0 /\ Pt(e.a).ring = Pt(e.b).ring
EdgesRight == \A e \in connectivity : EdgeRight(e)

TypeOK ==
  /\ pc \in {"null", "grow", "remove", "connect"}
  /\ null \in Nat /\ iteration \in Nat /\ lines \in Nat
  /\ separatrices \in Seq([null : Nat, line : Nat, ring : Nat])
  /\ ring \in Seq(Nat \ {0}) /\ ring_old \in Seq(Nat \ {0}) /\ wide \in Seq(Nat \ {0})
  /\ conn \in Seq(Nat)

\* The points of r are in the list behind index o, as ring k.
Listed(r, k, o) ==
  /\ o \in Nat /\ o + Len(r) <= Len(separatrices)
  /\ \A i \in 1 .. Len(r) : Pt(o + i) = [null |-> null, line |-> r[i], ring |-> k]

\* Whatever the step, the rings it works on are the last ones of the list, and
\* connectivity_rings says where the points of the old one are in the new one.
RingsInPlace ==
  LET n == Len(ring)  old == Len(ring_old)  all == Len(separatrices)
  IN /\ pc = "grow" => Listed(ring, iteration, all - n)
     /\ pc = "remove" => Listed(ring_old, iteration, all - old)
     /\ pc = "connect" => Listed(ring_old, iteration, all - n - old)
     /\ pc = "connect" => Listed(ring, iteration + 1, all - n) /\ n >= 1

ConnFollows ==
  LET n == Len(ring)  old == Len(ring_old)
  IN /\ pc \in {"remove", "connect"} => Len(conn) = old
     /\ pc = "remove" => \A i \in 1 .. old : conn[i] \in DOMAIN wide /\ wide[conn[i]] = ring_old[i]
     /\ pc = "connect" =>
          \A i \in 1 .. old : conn[i] >= 1 => conn[i] \in 1 .. n /\ ring[conn[i]] = ring_old[i]

\* The edges that are returned are edges of the list, and the invariant that keeps them so.
SeparatricesInv == TypeOK /\ RingsInPlace /\ ConnFollows /\ EdgesRight

\* Every point whose line was in the ring before is joined with it.
LinesComplete ==
  pc = "grow" =>
    \A i, j \in 1 .. Len(separatrices) :
      Pt(i).line = Pt(j).line /\ Pt(i).line # 0 /\ Pt(j).ring = Pt(i).ring + 1 =>
        [kind |-> "line", a |-> i, b |-> j] \in connectivity

\* After the removal: two points that follow each other in the new ring are joined when
\* and only when they were neighbours before.  Of the closing edge, between the last and
\* the first point, this is not true (see ClosingEdge), and it is left aside.
Neighbours(i) == {p \in Kept(out) : wide[p] = ring[i]}
NoEdgeOverGap ==
  pc = "grow" /\ iteration > 0 =>
    LET n == Len(ring)  offset == Len(separatrices) - n
    IN \A i \in 1 .. n - 1 :
         [kind |-> "ring", a |-> offset + i, b |-> offset + i + 1] \in connectivity
           <=> \E p \in Neighbours(i) : p + 1 \in Neighbours(i + 1)
=============================================================================
