---------------------------- MODULE MCProcWorker ----------------------------
(* Small instances of ProcWorker for TLC. *)
EXTENDS ProcWorker
CONSTANT t1

Config(timed, imaged, faults) == [timed |-> timed, imaged |-> imaged, faults |-> faults]

(* Two threads that close the worker, with or without a timeout, and what can
   go wrong on the way, a few failures at a time; then a stop image, run by one
   of them. *)
All ==
    {Config(TRUE, {}, {"execute", "duplicate", "heir"}),
     Config(FALSE, {}, {"duplicate", "remote", "empty"}),
     Config(TRUE, {}, {"remote"}), Config(TRUE, {}, {"thread"}),
     Config(FALSE, {t1}, {"watch"})}
=============================================================================
