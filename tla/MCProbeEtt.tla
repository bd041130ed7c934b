----------------------------- MODULE MCProbeEtt -----------------------------
(***************************************************************************)
(* Arrival times for ProbeEtt, with a second of 2000 microseconds.         *)
(***************************************************************************)
EXTENDS ProbeEtt

\* Two times, in one second and in the next.
Arrivals == {[sec |-> 5000, usec |-> 1], [sec |-> 5001, usec |-> 900]}
=============================================================================
