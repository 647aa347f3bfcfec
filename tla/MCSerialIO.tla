---------------------------- MODULE MCSerialIO ----------------------------
(* Instances of SerialIO for TLC: the calls of routines of io_dist.f90. *)
EXTENDS SerialIO

\* input_globals and output_globals as in run.f90 (l.490, 525), with a collective
\* between; the second with an inner pair of calls, as in a routine that is
\* serialized by its caller.
Globals == <<"start", "io", "end", "coll", "start", "start", "io", "end", "end">>

\* output_snap followed by output_snap_finalize
OutputSnap == <<"start", "io", "end", "io", "end">>

=============================================================================
