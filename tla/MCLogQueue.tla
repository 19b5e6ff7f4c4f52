----------------------------- MODULE MCLogQueue -----------------------------
(***************************************************************************)
(* Instances of LogQueue: the configurations of the queue.                 *)
(***************************************************************************)
EXTENDS LogQueue

Config(sync, checked, enforce) ==
  [sync_flush |-> sync, checked_delivery |-> checked, enforce_queue_size_limit |-> enforce]

(* Each of the three kinds of clients, with the limit for two of them. *)
QueueConfigs ==
  {Config(TRUE, TRUE, TRUE), Config(FALSE, FALSE, TRUE), Config(TRUE, FALSE, FALSE)}

CheckedConfigs == {Config(TRUE, TRUE, FALSE)}
=============================================================================
