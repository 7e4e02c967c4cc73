---------------------------- MODULE MCSupervisor ----------------------------
(* The supervisor on a small machine: a handful of process numbers, one    *)
(* retry, one or two crashes of the coordinator.                           *)
EXTENDS Supervisor
=============================================================================
