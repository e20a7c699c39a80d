---------------------------- MODULE MCSupervisor ----------------------------
(* A dashboard that starts nothing, or the seed, by itself. *)
EXTENDS Supervisor

MCSettings == {{}, {"seed"}}
=============================================================================
