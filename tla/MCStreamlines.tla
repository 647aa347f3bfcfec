--------------------------- MODULE MCStreamlines ---------------------------
(* Instances of Streamlines for TLC. *)
EXTENDS Streamlines

ThreeCores == 0 .. 2
Ring  == [c \in ThreeCores |-> <<(c + 1) % 3, (c + 2) % 3>>]
=============================================================================
