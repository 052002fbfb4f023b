----------------------------- MODULE MCTaskQueue -----------------------------
(***************************************************************************)
(* Instance of TaskQueue: a task and two cron jobs compete for the slots of *)
(* one queue; the task has its monitor.                                     *)
(***************************************************************************)
EXTENDS TaskQueue
=============================================================================
