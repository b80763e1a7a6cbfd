-------------------------- MODULE MCServiceLifecycle --------------------------
(***************************************************************************)
(* Instance of ServiceLifecycle: one immediate loop, one that waits for    *)
(* its delay, as in the notifier, and two connections.                     *)
(***************************************************************************)
EXTENDS ServiceLifecycle
===============================================================================
