----------------------------- MODULE MCRunLoop -----------------------------
(* Instances of RunLoop for TLC. *)
EXTENDS RunLoop

OneInput  == <<3>>        \* run.in is never edited: nt = 3
TwoInputs == <<2, 4>>     \* a RELOAD raises nt from 2 to 4, another lowers it
=============================================================================
