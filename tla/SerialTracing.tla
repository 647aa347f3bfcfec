--------------------------- MODULE SerialTracing ---------------------------
(***************************************************************************)
(* What find_tracers promises whatever n_proc is: for one snapshot after   *)
(* the other, the end of the field line of every seed, as one loop over    *)
(* all seeds computes it.                                                  *)
(***************************************************************************)
EXTENDS TracerSeries

VARIABLES t_idx, x1, t, phase

serialVars == <<input, t_idx, x1, t, phase>>

Init ==
  /\ InitInput
  /\ t_idx = FirstIdx
  /\ x1 = ZeroRows /\ t = ZeroTime
  /\ phase = "read"

Read ==
  /\ phase = "read" /\ t_idx <= LastIdx /\ InRange(t_idx)
  /\ x1' = [x1 EXCEPT ![Entry(t_idx)] = [s \in Seeds |-> Seed]]
  /\ t'  = [t EXCEPT ![Entry(t_idx)] = FileOf(t_idx)]
  /\ phase' = "trace"
  /\ UNCHANGED <<input, t_idx>>

TraceAll ==
  /\ phase = "trace"
  /\ x1' = [x1 EXCEPT ![Entry(t_idx)] = [s \in Seeds |-> Line(FileOf(t_idx), s)]]
  /\ t_idx' = t_idx + 1
  /\ phase' = "read"
  /\ UNCHANGED <<input, t>>

Return ==
  /\ phase = "read"
  /\ \/ t_idx > LastIdx /\ phase' = "done"
     \/ t_idx <= LastIdx /\ ~InRange(t_idx) /\ phase' = "failed"
  /\ UNCHANGED <<input, t_idx, x1, t>>

Next == Read \/ TraceAll \/ Return
Spec == Init /\ [][Next]_serialVars
=============================================================================
