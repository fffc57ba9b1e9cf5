------------------------------- MODULE Mirror -------------------------------
(************************************************************************** *)
(* What gated telemetry promises of the timeline, whatever digests it      *)
(* compares to save work: a mirror of a source.  The source changes at any *)
(* time and nobody copies then; a poll leaves the mirror equal to the      *)
(* source; and the mirror equals the source again and again.               *)
(************************************************************************** *)

VARIABLES source, mirror

Init == mirror = source

Write == UNCHANGED mirror
Poll == mirror' = source /\ UNCHANGED source

Next == Write \/ Poll

\* The safety part, and all of it.
SafeSpec == Init /\ [][Next]_<<source, mirror>>
Spec == SafeSpec /\ []<>(mirror = source)
=============================================================================
