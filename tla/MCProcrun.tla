------------------------------ MODULE MCProcrun ------------------------------
(* Small instances of Procrun for TLC. *)
EXTENDS Procrun

(* The timeout makes a difference only when no stop worker has been run. *)
Config(start, stop, faults) ==
    {[start |-> start, stop |-> stop, timed |-> timed, faults |-> faults] :
        timed \in IF stop \in {"none", "exe"} THEN BOOLEAN ELSE {FALSE}}

(* Whatever fails in a service that only the service manager stops, a few
   failures at a time, *)
Alone ==
    UNION {Config(start, stop, faults) :
        start \in StartModes, stop \in StopModes,
        faults \in {{"start", "load", "fail"},
                    {"jre", "start", "create", "load"},
                    {"worker", "fail", "exit", "load"}}}

(* and others who ask, end or report beside it. *)
Beside ==
    UNION {Config("jvm", "jvm", {"worker", "fail", "minute", "console"}),
           Config("exe", "exe", {"worker", "fail", "minute", "console"}),
           Config("jvm", "none", {"worker", "fail", "minute", "console"}),
           Config("exe", "system", {"console"}),
           Config("exe", "jvm", {"worker", "fail", "interrogate"}),
           Config("jvm", "none", {"worker", "fail", "interrogate"})}

All == Alone \cup Beside
=============================================================================
