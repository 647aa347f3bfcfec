-------------------------- MODULE MCSeparatrices --------------------------
(* Instances of Separatrices for TLC. *)
EXTENDS Separatrices

OneOrTwoNulls == {<<1, 2>>, <<2, 1>>}
=============================================================================
