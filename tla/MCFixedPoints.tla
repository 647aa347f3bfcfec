--------------------------- MODULE MCFixedPoints ---------------------------
(* Instances of FixedPoints for TLC. *)
EXTENDS FixedPoints

\* no series; VAR0 and VAR1; only tf given, twice; VAR1 and VAR2; the old package
Calls == {<<-1, -1, FALSE>>, <<0, 1, FALSE>>, <<-1, 0, FALSE>>,
          <<-1, 1, FALSE>>, <<1, 2, FALSE>>, <<-1, -1, TRUE>>}

P(c, s, a) == [cell |-> c, sign |-> s, at |-> a]

\* Cell c reaches from 2c to 2c + 2.  In VAR0 three points are a chain of close
\* ones; the point at 4 is on the side of two cells.
MCOutside == 99
MCCells ==
  [f \in {-1, 0, 1} |->
    CASE f = -1 -> <<P(0, 1, 1), P(1, -1, 3), P(2, 1, 99)>>
      [] f = 0  -> <<P(0, 1, 2), P(1, -1, 3), P(2, 1, 4)>>
      [] f = 1  -> <<P(0, 0, 1), P(1, 1, 4), P(2, 1, 4)>>]
CellsOf == [f \in {-1, 0, 1} |-> [c \in 0 .. 2 |-> MCCells[f][c + 1]]]
=============================================================================
