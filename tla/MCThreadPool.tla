---------------------------- MODULE MCThreadPool ----------------------------
(* Two workers, a client, and tasks enough for both workers to sleep, be    *)
(* woken for one task each, and enqueue from inside a task.                 *)
EXTENDS ThreadPool
=============================================================================
