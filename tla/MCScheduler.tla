----------------------------- MODULE MCScheduler -----------------------------
(* A boot configuration of Scheduler. *)
EXTENDS Scheduler

(* Two daemons of Normal priority on hart 1; hart 0 has none and keeps stealing. *)
PinnedAffinity == <<1, 1>>
NormalPriority == <<2, 2>>
=============================================================================
