------------------------------- MODULE Procrun -------------------------------
(***************************************************************************)
(* The Windows service runner procrun (windows/apps/prunsrv/prunsrv.c) as  *)
(* the service manager starts it: the service main thread, the threads     *)
(* that execute serviceStop, the worker they share, the structure in which *)
(* they report the service's state, and what the service manager was told. *)
(*                                                                         *)
(* serviceStop runs in a thread of its own for a STOP or SHUTDOWN control, *)
(* and in the console's control thread for a console event.  The worker is *)
(* a Java VM inside this process or a process of its own.  A step is a     *)
(* stretch of code between two accesses to what other threads use.         *)
(*                                                                         *)
(* Left out: the event that asks for a thread dump, the pid file, the      *)
(* redirected streams, wait hints and checkpoints.                         *)
(***************************************************************************)
CONSTANTS Stopper,  \* threads that can execute serviceStop
          Console,  \* those of them that run console_handler
          Configs   \* what the service is started with: see ProcrunAssumption

StartModes == {"jvm", "exe"}           \* exe stands for the mode java, too
StopModes == {"jvm", "system", "exe", "none"}  \* system: the class is java.lang.System
FaultKinds == {"jre",          \* no Java runtime is found
               "start",        \* serviceStart fails
               "create",       \* serviceStop cannot create its worker
               "load",         \* serviceStop cannot start its worker
               "worker",       \* the worker ends unasked
               "fail",         \* a worker or a stop worker ends in failure
               "exit",         \* the worker calls System.exit
               "minute",       \* one of the waits of ONE_MINUTE times out
               "console",      \* console events arrive
               "interrogate"}  \* the service manager sends INTERROGATE

(* timed: a timeout is configured for the stop.  faults: what may go wrong
   while the service runs. *)
ConfigTypes ==
    [start : StartModes, stop : StopModes, timed : BOOLEAN, faults : SUBSET FaultKinds]

(* serviceMain, the thread that serves controls and the Java thread in
   System.exit report, too. *)
ASSUME ProcrunAssumption ==
    /\ Console \subseteq Stopper
    /\ {"main", "control", "hook"} \cap Stopper = {}
    /\ Configs \subseteq ConfigTypes

VARIABLES
    config,    \* the configuration of this run
    shared,    \* the static structure _service_status
    report,    \* the call of reportServiceStatusE each thread is in
    told,      \* what the service manager was told last
    torn,      \* two calls of reportServiceStatusE have overlapped
    dispatch,  \* it was told of an end: the dispatcher will return
    main,      \* where serviceMain is; off: there is no process
    worker,    \* gWorker
    event,     \* gShutdownEvent
    hook,      \* onExitStop is registered
    code,      \* vmExitCode
    halt,      \* whose Java thread is in System.exit
    hooked,    \* the exit hooks have run, and Java code runs no more
    pc         \* where each thread is in serviceStop

reportVars == <<shared, report, told, torn, dispatch>>
vars == <<config, reportVars, main, worker, event, hook, code, halt, hooked, pc>>

Reporter == Stopper \cup {"main", "control", "hook"}
States == {"START_PENDING", "RUNNING", "STOP_PENDING", "STOPPED"}
(* dwControlsAccepted, dwCurrentState and whether dwWin32ExitCode is
   ERROR_SERVICE_SPECIFIC_ERROR; the exit code itself follows the latter. *)
Structure == [accept : BOOLEAN, state : States, error : BOOLEAN]
(* step: the field it stores next; send: all are stored; none: no call. *)
Steps == {"none", "accept", "state", "error", "send"}
NoReport == [state |-> "STOPPED", error |-> FALSE, step |-> "none"]
(* lost: it waits for an event that nobody can signal any more;
   woken: the event it waits for was signalled and then replaced. *)
MainStates == {"off", "prepare", "start", "run", "wait", "event", "lost", "woken",
               "minute", "destroy", "stop", "done"}
(* hurry is announce with wait_to_die FALSE. *)
StopStates == {"idle", "begin", "launch", "class", "announce", "hurry", "wait",
               "close", "set", "system"}

PrTypeOK ==
    /\ config \in ConfigTypes
    /\ shared \in Structure
    /\ report \in [Reporter -> [state : States, error : BOOLEAN, step : Steps]]
    /\ told \in Structure
    /\ torn \in BOOLEAN
    /\ dispatch \in BOOLEAN
    /\ main \in MainStates
    /\ worker \in {"none", "running", "done", "killed"}
    /\ event \in {"null", "unset", "set", "closed"}
    /\ hook \in BOOLEAN
    /\ code \in {0, 1}
    /\ halt \in {"no", "worker", "stop"}
    /\ hooked \in BOOLEAN
    /\ pc \in [Stopper -> StopStates]

Init ==
    /\ config \in Configs
    /\ shared = [accept |-> FALSE, state |-> "STOPPED", error |-> FALSE]
    /\ report = [r \in Reporter |-> NoReport]
    /\ told = shared
    /\ torn = FALSE
    /\ dispatch = FALSE
    /\ main = "off"
    /\ worker = "none"
    /\ event = "null"
    /\ hook = FALSE
    /\ code = 0
    /\ halt = "no"
    /\ hooked = FALSE
    /\ pc = [t \in Stopper |-> "idle"]

-----------------------------------------------------------------------------
(* Reports, and the end of the process *)

Idle(r) == report[r].step = "none"

(* A thread calls reportServiceStatusE. *)
Call(r, s, e) ==
    /\ report' = [report EXCEPT ![r] = [state |-> s, error |-> e, step |-> "accept"]]
    /\ torn' = (torn \/ \E q \in Reporter \ {r} : ~Idle(q))
    /\ UNCHANGED <<shared, told, dispatch>>

(* reportServiceStatus, and reportServiceStatusStopped for the exit code c. *)
Report(r, s) == Call(r, s, FALSE)
Final(c) == c # 0
ReportFinal(r, c) == Call(r, "STOPPED", Final(c))

(* The fields are stored one after the other, without a lock, *)
Store(r) ==
    /\ \/ /\ report[r].step = "accept"
          /\ shared' = [shared EXCEPT !.accept = (report[r].state = "RUNNING")]
          /\ report' = [report EXCEPT ![r].step = "state"]
       \/ /\ report[r].step = "state"
          /\ shared' = [shared EXCEPT !.state = report[r].state]
          /\ report' = [report EXCEPT ![r].step = "error"]
       \/ /\ report[r].step = "error"
          /\ shared' = [shared EXCEPT !.error = report[r].error]
          /\ report' = [report EXCEPT ![r].step = "send"]
    /\ UNCHANGED <<config, told, torn, dispatch, main, worker, event, hook, code, halt,
                   hooked, pc>>

(* and SetServiceStatus sends what the structure holds by then.  The
   dispatcher returns once an end has been told. *)
Send(r) ==
    /\ report[r].step = "send"
    /\ told' = shared
    /\ dispatch' = (dispatch \/ shared.state = "STOPPED")
    /\ report' = [report EXCEPT ![r] = NoReport]
    /\ UNCHANGED <<config, shared, torn, main, worker, event, hook, code, halt, hooked, pc>>

(* The service manager starts the service: procrun //RS//. *)
ScmStart ==
    /\ main = "off"
    /\ config' \in Configs
    /\ main' = "prepare"
    /\ shared' = [accept |-> FALSE, state |-> "START_PENDING", error |-> FALSE]
    /\ told' = shared'
    /\ UNCHANGED <<report, torn, dispatch, worker, event, hook, code, halt, hooked, pc>>

(* ExitProcess, by main after the dispatcher has returned or by the C runtime
   after the exit hooks: every thread dies where it is. *)
Exit ==
    /\ main # "off"
    /\ dispatch \/ (hooked /\ Idle("hook"))
    /\ dispatch' = FALSE
    /\ report' = [r \in Reporter |-> NoReport]
    /\ torn' = FALSE
    /\ main' = "off"
    /\ worker' = "none"
    /\ event' = "null"
    /\ hook' = FALSE
    /\ code' = 0
    /\ halt' = "no"
    /\ hooked' = FALSE
    /\ pc' = [t \in Stopper |-> "idle"]
    /\ shared' = [accept |-> FALSE, state |-> "STOPPED", error |-> FALSE]
    /\ UNCHANGED <<config, told>>

-----------------------------------------------------------------------------
(* serviceMain *)

At(where) == main = where /\ Idle("main")

(* Up to the registration of the control handler; without a Java runtime it
   goes to its cleanup, where nothing is reported for want of a handle. *)
Prepare ==
    /\ At("prepare")
    /\ \/ /\ main' = "start"
          /\ Report("main", "START_PENDING")
       \/ /\ "jre" \in config.faults
          /\ "exe" \in {config.start, config.stop}
          /\ main' = "done"
          /\ UNCHANGED reportVars
    /\ UNCHANGED <<config, worker, event, hook, code, halt, hooked, pc>>

(* serviceStart; its exit status is not 0 when it fails. *)
ServiceStart ==
    /\ At("start")
    /\ \/ /\ worker' = "running"
          /\ main' = "run"
          /\ UNCHANGED reportVars
       \/ /\ "start" \in config.faults
          /\ main' = "done"
          /\ ReportFinal("main", 1)
          /\ UNCHANGED worker
    /\ UNCHANGED <<config, event, hook, code, halt, hooked, pc>>

(* From here on the service manager and the console may ask for a stop. *)
ReportRunning ==
    /\ At("run")
    /\ main' = "wait"
    /\ Report("main", "RUNNING")
    /\ UNCHANGED <<config, worker, event, hook, code, halt, hooked, pc>>

(* The test of gShutdownEvent, made once, when the worker has ended. *)
StopKnown_Never(e) == FALSE                                       \* mutant
StopKnown(e) == e # "null"

WorkerEnded_Ready(w) == TRUE                                      \* mutant
WorkerEnded(w) == w # "running"

AfterWorker ==
    /\ At("wait")
    /\ WorkerEnded(worker)
    /\ \/ /\ StopKnown(event)
          /\ main' = "event"
          /\ Report("main", "STOP_PENDING")
       \/ /\ ~StopKnown(event)
          /\ main' = "destroy"
          /\ UNCHANGED reportVars
    /\ UNCHANGED <<config, worker, event, hook, code, halt, hooked, pc>>

(* WaitForSingleObject(gShutdownEvent, ONE_MINUTE), CloseHandle. *)
TimesOut_Never == FALSE                                           \* mutant
TimesOut == "minute" \in config.faults

Signalled_Early(e) == TRUE                                        \* mutant
Signalled(e) == e = "set"

AwaitEvent ==
    /\ Idle("main")
    /\ \/ main = "woken"
       \/ main = "event" /\ Signalled(event)
       \/ main \in {"event", "lost"} /\ TimesOut
    /\ main' = "minute"
    /\ event' = "closed"
    /\ Report("main", "STOP_PENDING")
    /\ UNCHANGED <<config, worker, hook, code, halt, hooked, pc>>

(* apxDestroyJvm(ONE_MINUTE), timed out or not. *)
DestroyInTime ==
    /\ At("minute")
    /\ main' = "stop"
    /\ UNCHANGED <<config, reportVars, worker, event, hook, code, halt, hooked, pc>>

(* apxDestroyJvm(INFINITE) returns, if it ever does. *)
DestroyAtLast ==
    /\ At("destroy")
    /\ main' = "stop"
    /\ Report("main", "STOP_PENDING")
    /\ UNCHANGED <<config, worker, event, hook, code, halt, hooked, pc>>

ReportStopped ==
    /\ At("stop")
    /\ main' = "done"
    /\ ReportFinal("main", code)
    /\ UNCHANGED <<config, worker, event, hook, code, halt, hooked, pc>>

MainStep ==
    \/ Prepare \/ ServiceStart \/ ReportRunning \/ AfterWorker \/ AwaitEvent
    \/ DestroyInTime \/ ReportStopped

-----------------------------------------------------------------------------
(* service_ctrl_handler and console_handler *)

(* The control thread serves one control at a time, and is done with a STOP
   when it has reported it and created the thread. *)
ControlFree ==
    /\ Idle("control")
    /\ \A t \in Stopper \ Console : pc[t] = "begin" => Idle(t)

(* A STOP or SHUTDOWN control, sent only to a service that accepts it. *)
ScmStop(t) ==
    /\ t \notin Console
    /\ main # "off"
    /\ told.accept
    /\ ControlFree
    /\ pc[t] = "idle" /\ Idle(t)
    /\ pc' = [pc EXCEPT ![t] = "begin"]
    /\ Report(t, "STOP_PENDING")
    /\ UNCHANGED <<config, main, worker, event, hook, code, halt, hooked>>

(* A console event, once the handler has been set: nothing is reported yet. *)
ConsoleEvent(t) ==
    /\ "console" \in config.faults
    /\ t \in Console
    /\ main \notin {"off", "prepare", "start", "run"}
    /\ main = "wait" => Idle("main")
    /\ worker # "none"
    /\ pc[t] = "idle"
    /\ pc' = [pc EXCEPT ![t] = "begin"]
    /\ UNCHANGED <<config, reportVars, main, worker, event, hook, code, halt, hooked>>

(* INTERROGATE reports again what it reads in _service_status; there is no
   handler for it if serviceMain never registered one. *)
Interrogate ==
    /\ "interrogate" \in config.faults
    /\ main \notin {"off", "prepare"}
    /\ main = "done" => worker # "none"
    /\ told.state # "STOPPED"
    /\ ControlFree
    /\ Call("control", shared.state, shared.error)
    /\ UNCHANGED <<config, main, worker, event, hook, code, halt, hooked, pc>>

-----------------------------------------------------------------------------
(* serviceStop *)

To(t, from, to) ==
    /\ pc[t] = from
    /\ Idle(t)
    /\ pc' = [pc EXCEPT ![t] = to]

(* The stop worker is created and, for a Java stop class, onExitStop is
   registered and gShutdownEvent is created anew. *)
Begin(t) ==
    /\ \/ /\ To(t, "begin", "launch")
          /\ config.stop \in {"jvm", "system"}
          /\ hook' = TRUE
          /\ event' = "unset"
          /\ main' = IF main # "event" THEN main
                     ELSE IF event = "set" THEN "woken" ELSE "lost"
       \/ /\ To(t, "begin", "idle")
          /\ "create" \in config.faults
          /\ config.stop # "none"
          /\ UNCHANGED <<main, event, hook>>
       \/ /\ To(t, "begin", "class")
          /\ config.stop = "exe"
          /\ UNCHANGED <<main, event, hook>>
       \/ /\ To(t, "begin", "hurry")
          /\ \/ config.stop = "none"
             \/ config.stop = "exe" /\ "load" \in config.faults
          /\ UNCHANGED <<main, event, hook>>
    /\ UNCHANGED <<config, reportVars, worker, code, halt, hooked>>

(* apxJavaStart; java.lang.System is called to end the whole process, and
   waits if the worker is doing so already. *)
Launch(t) ==
    /\ ~hooked
    /\ \/ /\ To(t, "launch", "class")
          /\ config.stop = "jvm"
          /\ UNCHANGED halt
       \/ /\ To(t, "launch", "system")
          /\ config.stop = "system"
          /\ halt' = IF halt = "no" THEN "stop" ELSE halt
       \/ /\ To(t, "launch", "announce")
          /\ "load" \in config.faults
          /\ UNCHANGED halt
    /\ UNCHANGED <<config, reportVars, main, worker, event, hook, code, hooked>>

(* The return right after System.exit has been called. *)
LeaveToSystem(t) ==
    /\ To(t, "system", "idle")
    /\ Report(t, "STOP_PENDING")
    /\ UNCHANGED <<config, main, worker, event, hook, code, halt, hooked>>

(* vmExitCode once a worker of this mode has ended: that of a process is
   stored whatever it is, a Java one stores nothing but an exception. *)
ExitCodes(mode) ==
    (IF mode = "exe" THEN {0} ELSE {code}) \cup (IF "fail" \in config.faults THEN {1} ELSE {})

(* The stop worker ends; its exit code replaces the worker's. *)
StopWorkerEnds(t) ==
    /\ To(t, "class", "announce")
    /\ hooked => config.stop = "exe"
    /\ code' \in ExitCodes(config.stop)
    /\ UNCHANGED <<config, reportVars, main, worker, event, hook, halt, hooked>>

(* With a timeout, or the default of five minutes if there was a stop worker,
   it will wait for the worker before it closes it. *)
Announce(t) ==
    /\ \/ To(t, "announce", "wait")
       \/ To(t, "hurry", "wait") /\ config.timed
       \/ To(t, "hurry", "close") /\ ~config.timed
    /\ Report(t, "STOP_PENDING")
    /\ UNCHANGED <<config, main, worker, event, hook, code, halt, hooked>>

(* The worker has ended, or is killed at the end of the timeout or at once:
   the thread that called System.exit dies with it.  The exit code of a killed
   process is read before its handle is closed, or not at all. *)
KilledCodes_Active == {259}                                       \* mutant
KilledCodes ==
    IF worker = "running" /\ config.start = "exe" THEN {0, 1} ELSE {code}

EndWorker(t) ==
    /\ \/ To(t, "wait", "set")
       \/ To(t, "close", "set")
    /\ worker' = IF worker = "running" THEN "killed" ELSE worker
    /\ code' \in KilledCodes
    /\ halt' = IF halt = "worker" THEN "no" ELSE halt
    /\ hooked' = IF halt = "worker" THEN FALSE ELSE hooked
    /\ report' = IF halt = "worker" THEN [report EXCEPT !["hook"] = NoReport] ELSE report
    /\ UNCHANGED <<config, shared, told, torn, dispatch, main, event, hook>>

(* SetEvent: without effect on no event or a closed one. *)
SetShutdownEvent(t) ==
    /\ To(t, "set", "idle")
    /\ event' = IF event = "unset" THEN "set" ELSE event
    /\ UNCHANGED <<config, reportVars, main, worker, hook, code, halt, hooked>>

StopStep(t) ==
    \/ Begin(t) \/ Launch(t) \/ LeaveToSystem(t) \/ Announce(t) \/ EndWorker(t)
    \/ SetShutdownEvent(t)

-----------------------------------------------------------------------------
(* The worker *)

(* It returns when the stop worker tells it to, or by itself. *)
WorkerEnds ==
    /\ worker = "running"
    /\ config.start = "jvm" => halt # "worker" /\ ~hooked
    /\ \/ "worker" \in config.faults
       \/ /\ config.stop \in {"jvm", "exe"}
          /\ \E t \in Stopper : pc[t] \in {"class", "announce", "wait"}
    /\ worker' = "done"
    /\ code' \in ExitCodes(config.start)
    /\ UNCHANGED <<config, reportVars, main, event, hook, halt, hooked, pc>>

WorkerExits ==
    /\ "exit" \in config.faults
    /\ worker = "running"
    /\ config.start = "jvm"
    /\ halt = "no"
    /\ halt' = "worker"
    /\ UNCHANGED <<config, reportVars, main, worker, event, hook, code, hooked, pc>>

(* __apxJniExit, then onExitStop, if registered, and onExitStart. *)
HookReports_Always(c) == TRUE                                     \* mutant
HookReports(c) == c = 0

ExitHooks(c) ==
    /\ halt # "no"
    /\ ~hooked
    /\ hooked' = TRUE
    /\ code' = c
    /\ IF hook \/ (config.start = "jvm" /\ HookReports(c))
       THEN ReportFinal("hook", 0)
       ELSE UNCHANGED reportVars
    /\ UNCHANGED <<config, main, worker, event, hook, halt, pc>>

-----------------------------------------------------------------------------
Next ==
    \/ ScmStart \/ Exit \/ MainStep \/ DestroyAtLast
    \/ Interrogate
    \/ \E r \in Reporter : Store(r) \/ Send(r)
    \/ \E t \in Stopper : ScmStop(t) \/ ConsoleEvent(t) \/ StopStep(t) \/ StopWorkerEnds(t)
    \/ WorkerEnds \/ WorkerExits
    \/ \E c \in {0, 1} : ExitHooks(c)

PrSpec == Init /\ [][Next]_vars

(* Threads run and timed waits end.  That the stop worker ends is assumed of
   the user's code.  The JVM is destroyed in the end if its worker has
   returned, or if there is none; a terminated thread it waits for for ever. *)
PrFairness ==
    /\ WF_vars(MainStep) /\ WF_vars(Exit) /\ WF_vars(\E c \in {0, 1} : ExitHooks(c))
    /\ \A r \in Reporter : WF_vars(Store(r) \/ Send(r))
    /\ WF_vars((worker = "done" \/ config.start = "exe") /\ DestroyAtLast)
    /\ \A t \in Stopper : WF_vars(StopStep(t)) /\ WF_vars(StopWorkerEnds(t))

PrFairSpec == PrSpec /\ PrFairness

-----------------------------------------------------------------------------
(* Properties *)

(* The service manager is never told that the service has stopped while the
   worker runs, except by the hooks of a process that is ending: whichever
   thread reports it, however many have stopped the worker before, and in
   whatever order they store the fields of one structure. *)
StoppedMeansEnded ==
    main # "off" /\ told.state = "STOPPED" => worker # "running" \/ halt # "no"

(* A worker that fails before any stop worker was run is not reported as
   stopped in order (onExitStart, reportServiceStatusStopped), on which the
   service manager's recovery depends, unless two threads have reported at the
   same time: then the error of one may be sent with the state of the other.
   A stop image has an exit code of its own, stored over the worker's. *)
FailureVisible ==
    main # "off" /\ code # 0 /\ ~hook /\ config.stop # "exe" /\ told.state = "STOPPED" =>
        told.error \/ torn

(* serviceStop never signals gShutdownEvent after serviceMain has closed it,
   when only the service manager asks for a stop and serviceMain waits. *)
OneStopAsked(c) == c.faults \cap {"console", "minute", "interrogate"} = {}

EventOpenWhenSet ==
    OneStopAsked(config) => \A t \in Stopper : pc[t] = "set" => event # "closed"

(* serviceMain is over and told an end, but another report has been stored
   over it before it was sent. *)
EndLost == main = "done" /\ Idle("main") /\ told.state # "STOPPED" /\ torn

(* When the worker has returned the process ends, whatever becomes of the
   threads that are stopping it and of the event they should signal; only the
   report of another thread at the same time can keep the end from being told. *)
EndsWithWorker == worker = "done" ~> main = "off" \/ EndLost

(* What the service manager sees is the life promised by ServiceLife, as long
   as serviceMain waits for those who report beside it: the state never goes
   back, and an end is the last thing it is told.  When moreover nothing keeps
   the threads from ending, starts are answered and stops end. *)
Orderly(c) ==
    /\ c.stop \in {"jvm", "none"}
    /\ c.faults \subseteq {"jre", "start", "create", "load", "fail"}

Waited(c) ==
    /\ Orderly(c)
    /\ <<c.start, c.stop>> # <<"jvm", "none">>
    /\ c.faults \cap {"jre", "create"} = {}

Seen == IF told.state = "STOPPED" /\ told.error THEN "FAILED" ELSE told.state

Life == INSTANCE ServiceLife
            WITH life <- IF main # "off" /\ Orderly(config) THEN Seen ELSE "GONE"
WaitedLife == INSTANCE ServiceLife
            WITH life <- IF main # "off" /\ Waited(config) THEN Seen ELSE "GONE"

ServiceManagerView == Life!Safety /\ WaitedLife!Spec
=============================================================================
