----------------------------- MODULE MCMachine -----------------------------
(************************************************************************** *)
(* Two instances share the machine directory: the user works in one, the   *)
(* other is only started, at any time, and dies at any time.               *)
(************************************************************************** *)
EXTENDS MachineFiles
=============================================================================
