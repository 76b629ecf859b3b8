---------------------------- MODULE ProcrunProofs ----------------------------
(* Theorems about Procrun: what the service manager is told by threads that
   report without a lock, and who uses the event that serviceStop signals. *)
EXTENDS Procrun, TLAPS

(* Until serviceStart has been called nobody has anything to stop, to end or
   to report but serviceMain and an INTERROGATE. *)
Fresh ==
    main \in {"off", "prepare", "start"} =>
        /\ worker = "none" /\ event = "null"
        /\ halt = "no" /\ ~hooked
        /\ \A t \in Stopper : pc[t] = "idle" /\ Idle(t)
        /\ Idle("hook")
        /\ main = "off" => ~dispatch /\ Idle("main") /\ Idle("control")

(* What the structure, the service manager or a report on its way says while a
   start is being answered. *)
Starting ==
    main \in {"prepare", "start"} =>
        /\ told.state = "START_PENDING" /\ shared.state = "START_PENDING"
        /\ ~told.accept /\ ~shared.accept
        /\ \A r \in Reporter : Idle(r) \/ report[r].state = "START_PENDING"

(* serviceMain goes past its wait only when the worker runs no more. *)
WorkerWaitedFor == main \notin {"run", "wait"} => worker # "running"

(* onExitStop is registered before anything that a Java stop class does. *)
HookFirst ==
    /\ halt = "stop" => hook
    /\ \A t \in Stopper :
         \/ hook
         \/ pc[t] \notin {"launch", "system", "class"}
         \/ pc[t] = "class" /\ config.stop = "exe"

(* Who exits from the worker is the worker, in this process. *)
WorkerHalts == halt = "worker" => worker = "running" /\ config.start = "jvm"

(* No thread is on its way to report an end, or has stored one, before. *)
Over == worker # "running" \/ halt # "no"

EndIsOver ==
    main # "off" =>
        /\ told.state = "STOPPED" => Over
        /\ shared.state = "STOPPED" => Over
        /\ \A r \in Reporter : report[r].state = "STOPPED" => Idle(r) \/ Over

(* The strengthening of FailureVisible.  As long as one thread reports at a
   time, what it sends is what it was called with, *)
OneReport ==
    ~torn =>
        /\ \A q, r \in Reporter : ~Idle(q) /\ ~Idle(r) => q = r
        /\ \A r \in Reporter :
             /\ report[r].step \in {"error", "send"} => shared.state = report[r].state
             /\ report[r].step = "send" => shared.error = report[r].error

(* and nobody reports an end in order while someone is left who could fail. *)
InOrder ==
    ~hook /\ config.stop # "exe" =>
        code = 0 /\ (worker # "running" \/ (halt = "worker" /\ hooked))

EndInOrder ==
    /\ ~report["hook"].error
    /\ main # "off" /\ ~torn =>
         /\ \A r \in Reporter :
              report[r].state = "STOPPED" /\ ~report[r].error => Idle(r) \/ InOrder
         /\ told.state = "STOPPED" /\ ~told.error => InOrder
         /\ shared.state = "STOPPED" /\ ~shared.error =>
              InOrder \/ \E r \in Reporter : report[r].step = "error" /\ report[r].error

PrInv ==
    /\ PrTypeOK
    /\ Fresh /\ Starting /\ WorkerWaitedFor
    /\ HookFirst /\ WorkerHalts
    /\ EndIsOver /\ OneReport /\ EndInOrder

-----------------------------------------------------------------------------
(* A call of reportServiceStatusE keeps the types. *)
LEMMA Called == ASSUME PrTypeOK, NEW r \in Reporter, NEW s \in States, NEW e \in BOOLEAN,
                       Call(r, s, e)
                PROVE  /\ report' \in [Reporter -> [state : States, error : BOOLEAN, step : Steps]]
                       /\ shared' \in Structure /\ told' \in Structure
                       /\ torn' \in BOOLEAN /\ dispatch' \in BOOLEAN
<1>1. [state |-> s, error |-> e, step |-> "accept"] \in
        [state : States, error : BOOLEAN, step : Steps]
  BY DEF Steps
<1>2. torn' \in BOOLEAN
  BY DEF Call, PrTypeOK
<1> QED
  BY <1>1, <1>2 DEF Call, PrTypeOK

LEMMA StoreTyped == ASSUME PrTypeOK, NEW r \in Reporter, Store(r) PROVE PrTypeOK'
<1> USE DEF PrTypeOK, Structure, States, Steps
<1>1. CASE report[r].step = "accept"
  <2>1. \A b \in BOOLEAN : [shared EXCEPT !.accept = b] \in Structure
    OBVIOUS
  <2>2. (report[r].state = "RUNNING") \in BOOLEAN
    OBVIOUS
  <2>3. shared' \in Structure
    BY <1>1, <2>1, <2>2 DEF Store
  <2>4. report' \in [Reporter -> [state : States, error : BOOLEAN, step : Steps]]
    BY <1>1 DEF Store
  <2> QED
    BY <2>3, <2>4 DEF Store
<1>2. CASE report[r].step = "state"
  BY <1>2 DEF Store
<1>3. CASE report[r].step = "error"
  BY <1>3 DEF Store
<1> QED
  BY <1>1, <1>2, <1>3 DEF Store

LEMMA Reporters == /\ Stopper \subseteq Reporter
                   /\ "main" \in Reporter /\ "control" \in Reporter /\ "hook" \in Reporter
                   /\ ProcrunAssumption =>
                        \A t \in Stopper : t # "main" /\ t # "control" /\ t # "hook"
BY DEF Reporter, ProcrunAssumption

(* Every step keeps the types. *)
LEMMA PrTypeKept == ASSUME ProcrunAssumption, PrTypeOK, [Next]_vars PROVE PrTypeOK'
<1> USE Reporters DEF PrTypeOK, MainStates, StopStates, reportVars
<1>0. "START_PENDING" \in States /\ "STOP_PENDING" \in States /\ "RUNNING" \in States
      /\ "STOPPED" \in States
  BY DEF States
<1>1. CASE ScmStart
  <2>1. config' \in ConfigTypes
    BY <1>1, ProcrunAssumption DEF ScmStart, ProcrunAssumption
  <2>2. shared' \in Structure /\ told' \in Structure
    BY <1>1, <1>0 DEF ScmStart, Structure
  <2> QED
    BY <1>1, <2>1, <2>2 DEF ScmStart
<1>2. CASE Exit
  <2>1. shared' \in Structure
    BY <1>2, <1>0 DEF Exit, Structure
  <2>2. report' \in [Reporter -> [state : States, error : BOOLEAN, step : Steps]]
    BY <1>2, <1>0 DEF Exit, NoReport, Steps
  <2> QED
    BY <1>2, <2>1, <2>2 DEF Exit
<1>3. CASE Prepare
  <2>1. /\ report' \in [Reporter -> [state : States, error : BOOLEAN, step : Steps]]
        /\ shared' \in Structure /\ told' \in Structure
        /\ torn' \in BOOLEAN /\ dispatch' \in BOOLEAN
    <3>1. CASE Call("main", "START_PENDING", FALSE)
      BY <3>1, <1>0, Called
    <3>2. CASE UNCHANGED reportVars
      BY <3>2
    <3> QED
      BY <1>3, <3>1, <3>2 DEF Prepare, Report
  <2> QED
    BY <1>3, <2>1 DEF Prepare
<1>4. CASE ServiceStart
  <2>1. /\ report' \in [Reporter -> [state : States, error : BOOLEAN, step : Steps]]
        /\ shared' \in Structure /\ told' \in Structure
        /\ torn' \in BOOLEAN /\ dispatch' \in BOOLEAN
    <3>1. CASE ReportFinal("main", 1)
      BY <3>1, <1>0, Called DEF ReportFinal, Final
    <3>2. CASE UNCHANGED reportVars
      BY <3>2
    <3> QED
      BY <1>4, <3>1, <3>2 DEF ServiceStart
  <2> QED
    BY <1>4, <2>1 DEF ServiceStart
<1>5. CASE ReportRunning
  <2>1. /\ report' \in [Reporter -> [state : States, error : BOOLEAN, step : Steps]]
        /\ shared' \in Structure /\ told' \in Structure
        /\ torn' \in BOOLEAN /\ dispatch' \in BOOLEAN
    <3>1. Call("main", "RUNNING", FALSE)
      BY <1>5 DEF ReportRunning, Report
    <3> QED
      BY <3>1, <1>0, Called
  <2> QED
    BY <1>5, <2>1 DEF ReportRunning
<1>6. CASE AfterWorker
  <2>1. /\ report' \in [Reporter -> [state : States, error : BOOLEAN, step : Steps]]
        /\ shared' \in Structure /\ told' \in Structure
        /\ torn' \in BOOLEAN /\ dispatch' \in BOOLEAN
    <3>1. CASE Call("main", "STOP_PENDING", FALSE)
      BY <3>1, <1>0, Called
    <3>2. CASE UNCHANGED reportVars
      BY <3>2
    <3> QED
      BY <1>6, <3>1, <3>2 DEF AfterWorker, Report
  <2> QED
    BY <1>6, <2>1 DEF AfterWorker
<1>7. CASE AwaitEvent
  <2>1. /\ report' \in [Reporter -> [state : States, error : BOOLEAN, step : Steps]]
        /\ shared' \in Structure /\ told' \in Structure
        /\ torn' \in BOOLEAN /\ dispatch' \in BOOLEAN
    <3>1. Call("main", "STOP_PENDING", FALSE)
      BY <1>7 DEF AwaitEvent, Report
    <3> QED
      BY <3>1, <1>0, Called
  <2> QED
    BY <1>7, <2>1 DEF AwaitEvent
<1>8. CASE DestroyInTime
  BY <1>8 DEF DestroyInTime
<1>9. CASE DestroyAtLast
  <2>1. /\ report' \in [Reporter -> [state : States, error : BOOLEAN, step : Steps]]
        /\ shared' \in Structure /\ told' \in Structure
        /\ torn' \in BOOLEAN /\ dispatch' \in BOOLEAN
    <3>1. Call("main", "STOP_PENDING", FALSE)
      BY <1>9 DEF DestroyAtLast, Report
    <3> QED
      BY <3>1, <1>0, Called
  <2> QED
    BY <1>9, <2>1 DEF DestroyAtLast
<1>10. CASE ReportStopped
  BY <1>10, <1>0, Called DEF ReportStopped, ReportFinal, Final
<1>11. CASE Interrogate
  <2>1. shared.state \in States /\ shared.error \in BOOLEAN
    BY DEF Structure
  <2> QED
    BY <1>11, <2>1, Called DEF Interrogate
<1>12. ASSUME NEW r \in Reporter, Store(r) PROVE PrTypeOK'
  BY <1>12, StoreTyped
<1>26. ASSUME NEW r \in Reporter, Send(r) PROVE PrTypeOK'
  <2>1. report' \in [Reporter -> [state : States, error : BOOLEAN, step : Steps]]
    BY <1>26, <1>0 DEF Send, NoReport, Steps
  <2>2. dispatch' \in BOOLEAN
    BY <1>26 DEF Send
  <2> QED
    BY <1>26, <2>1, <2>2 DEF Send
<1>13. CASE WorkerEnds
  BY <1>13 DEF WorkerEnds, ExitCodes
<1>14. CASE WorkerExits
  BY <1>14 DEF WorkerExits
<1>15. ASSUME NEW t \in Stopper, ScmStop(t) PROVE PrTypeOK'
  <2>1. pc' \in [Stopper -> StopStates]
    BY <1>15 DEF ScmStop
  <2>2. Call(t, "STOP_PENDING", FALSE) /\ t \in Reporter
    BY <1>15 DEF ScmStop, Report
  <2>3. /\ report' \in [Reporter -> [state : States, error : BOOLEAN, step : Steps]]
        /\ shared' \in Structure /\ told' \in Structure
        /\ torn' \in BOOLEAN /\ dispatch' \in BOOLEAN
    BY <2>2, <1>0, Called
  <2> QED
    BY <1>15, <2>1, <2>3 DEF ScmStop
<1>16. ASSUME NEW t \in Stopper, ConsoleEvent(t) PROVE PrTypeOK'
  BY <1>16 DEF ConsoleEvent
<1>17. ASSUME NEW t \in Stopper, Begin(t) PROVE PrTypeOK'
  <2>1. pc' \in [Stopper -> StopStates]
    BY <1>17 DEF Begin, To
  <2>2. main' \in MainStates /\ event' \in {"null", "unset", "set", "closed"}
    BY <1>17 DEF Begin
  <2>3. hook' \in BOOLEAN
    BY <1>17 DEF Begin
  <2> QED
    BY <1>17, <2>1, <2>2, <2>3 DEF Begin
<1>18. ASSUME NEW t \in Stopper, Launch(t) PROVE PrTypeOK'
  BY <1>18 DEF Launch, To
<1>19. ASSUME NEW t \in Stopper, LeaveToSystem(t) PROVE PrTypeOK'
  <2>1. pc' \in [Stopper -> StopStates]
    BY <1>19 DEF LeaveToSystem, To
  <2>2. Call(t, "STOP_PENDING", FALSE) /\ t \in Reporter
    BY <1>19 DEF LeaveToSystem, Report
  <2>3. /\ report' \in [Reporter -> [state : States, error : BOOLEAN, step : Steps]]
        /\ shared' \in Structure /\ told' \in Structure
        /\ torn' \in BOOLEAN /\ dispatch' \in BOOLEAN
    BY <2>2, <1>0, Called
  <2> QED
    BY <1>19, <2>1, <2>3 DEF LeaveToSystem
<1>20. ASSUME NEW t \in Stopper, StopWorkerEnds(t) PROVE PrTypeOK'
  BY <1>20 DEF StopWorkerEnds, ExitCodes, To
<1>21. ASSUME NEW t \in Stopper, Announce(t) PROVE PrTypeOK'
  <2>1. pc' \in [Stopper -> StopStates]
    BY <1>21 DEF Announce, To
  <2>2. Call(t, "STOP_PENDING", FALSE) /\ t \in Reporter
    BY <1>21 DEF Announce, Report
  <2>3. /\ report' \in [Reporter -> [state : States, error : BOOLEAN, step : Steps]]
        /\ shared' \in Structure /\ told' \in Structure
        /\ torn' \in BOOLEAN /\ dispatch' \in BOOLEAN
    BY <2>2, <1>0, Called
  <2> QED
    BY <1>21, <2>1, <2>3 DEF Announce
<1>22. ASSUME NEW t \in Stopper, EndWorker(t) PROVE PrTypeOK'
  <2>1. hooked' \in BOOLEAN
    <3>1. CASE halt = "worker"
      BY <1>22, <3>1 DEF EndWorker
    <3>2. CASE halt # "worker"
      BY <1>22, <3>2 DEF EndWorker
    <3> QED
      BY <3>1, <3>2
  <2>2. pc' \in [Stopper -> StopStates]
    BY <1>22 DEF EndWorker, To
  <2>3. worker' \in {"none", "running", "done", "killed"} /\ halt' \in {"no", "worker", "stop"}
    BY <1>22 DEF EndWorker
  <2>4. code' \in {0, 1}
    BY <1>22 DEF EndWorker, KilledCodes
  <2>5. UNCHANGED <<config, shared, told, torn, dispatch, main, event, hook>>
    BY <1>22 DEF EndWorker
  <2>6. report' \in [Reporter -> [state : States, error : BOOLEAN, step : Steps]]
    <3>1. NoReport \in [state : States, error : BOOLEAN, step : Steps]
      BY <1>0 DEF NoReport, Steps
    <3> QED
      BY <1>22, <3>1 DEF EndWorker
  <2> QED
    BY <2>1, <2>2, <2>3, <2>4, <2>5, <2>6
<1>23. ASSUME NEW t \in Stopper, SetShutdownEvent(t) PROVE PrTypeOK'
  BY <1>23 DEF SetShutdownEvent, To
<1>24. ASSUME NEW c \in {0, 1}, ExitHooks(c) PROVE PrTypeOK'
  <2>1. /\ report' \in [Reporter -> [state : States, error : BOOLEAN, step : Steps]]
        /\ shared' \in Structure /\ told' \in Structure
        /\ torn' \in BOOLEAN /\ dispatch' \in BOOLEAN
    <3>1. CASE ReportFinal("hook", 0)
      BY <3>1, <1>0, Called DEF ReportFinal, Final
    <3>2. CASE UNCHANGED reportVars
      BY <3>2
    <3> QED
      BY <1>24, <3>1, <3>2 DEF ExitHooks
  <2> QED
    BY <1>24, <2>1 DEF ExitHooks
<1>25. CASE UNCHANGED vars
  BY <1>25 DEF vars
<1> QED
  BY <1>1, <1>2, <1>3, <1>4, <1>5, <1>6, <1>7, <1>8, <1>9, <1>10, <1>11, <1>12, <1>13,
     <1>14, <1>15, <1>16, <1>17, <1>18, <1>19, <1>20, <1>21, <1>22, <1>23, <1>24, <1>25, <1>26
  DEF Next, MainStep, StopStep

-----------------------------------------------------------------------------
(* Every step keeps the invariant: first what says nothing of reports, *)
LEMMA ControlKept ==
  ASSUME ProcrunAssumption, PrInv, [Next]_vars
  PROVE  Fresh' /\ WorkerWaitedFor' /\ HookFirst' /\ WorkerHalts'
<1> USE Reporters DEF PrInv, PrTypeOK, Fresh, Starting, Idle, WorkerWaitedFor, HookFirst,
        WorkerHalts, reportVars, Call, At
<1>1. CASE ScmStart
  BY <1>1 DEF ScmStart
<1>2. CASE Exit
  BY <1>2 DEF Exit, NoReport, Reporter
<1>3. CASE Prepare
  BY <1>3 DEF Prepare, Report
<1>4. CASE ServiceStart
  BY <1>4 DEF ServiceStart, ReportFinal
<1>5. CASE ReportRunning
  BY <1>5 DEF ReportRunning, Report
<1>6. CASE AfterWorker
  BY <1>6 DEF AfterWorker, WorkerEnded, StopKnown, Report
<1>7. CASE AwaitEvent
  BY <1>7 DEF AwaitEvent, Signalled, TimesOut, Report
<1>8. CASE DestroyInTime
  BY <1>8 DEF DestroyInTime
<1>9. CASE DestroyAtLast
  BY <1>9 DEF DestroyAtLast, Report
<1>10. CASE ReportStopped
  BY <1>10 DEF ReportStopped, ReportFinal
<1>11. CASE Interrogate
  BY <1>11 DEF Interrogate
<1>12. CASE WorkerEnds
  BY <1>12 DEF WorkerEnds, ExitCodes
<1>13. CASE WorkerExits
  BY <1>13 DEF WorkerExits
<1>14. ASSUME NEW r \in Reporter, Store(r) PROVE Fresh' /\ WorkerWaitedFor' /\ HookFirst' /\ WorkerHalts'
  BY <1>14, SMTT(60) DEF Store
<1>15. ASSUME NEW r \in Reporter, Send(r) PROVE Fresh' /\ WorkerWaitedFor' /\ HookFirst' /\ WorkerHalts'
  BY <1>15 DEF Send, NoReport, Reporter
<1>16. ASSUME NEW t \in Stopper, ScmStop(t) PROVE Fresh' /\ WorkerWaitedFor' /\ HookFirst' /\ WorkerHalts'
  BY <1>16 DEF ScmStop, Report
<1>17. ASSUME NEW t \in Stopper, ConsoleEvent(t) PROVE Fresh' /\ WorkerWaitedFor' /\ HookFirst' /\ WorkerHalts'
  BY <1>17 DEF ConsoleEvent
<1>18. ASSUME NEW t \in Stopper, Begin(t) PROVE Fresh' /\ WorkerWaitedFor' /\ HookFirst' /\ WorkerHalts'
  BY <1>18 DEF Begin, To
<1>19. ASSUME NEW t \in Stopper, Launch(t) PROVE Fresh' /\ WorkerWaitedFor' /\ HookFirst' /\ WorkerHalts'
  BY <1>19 DEF Launch, To
<1>20. ASSUME NEW t \in Stopper, LeaveToSystem(t) PROVE Fresh' /\ WorkerWaitedFor' /\ HookFirst' /\ WorkerHalts'
  BY <1>20 DEF LeaveToSystem, To, Report
<1>21. ASSUME NEW t \in Stopper, StopWorkerEnds(t) PROVE Fresh' /\ WorkerWaitedFor' /\ HookFirst' /\ WorkerHalts'
  BY <1>21 DEF StopWorkerEnds, ExitCodes, To
<1>22. ASSUME NEW t \in Stopper, Announce(t) PROVE Fresh' /\ WorkerWaitedFor' /\ HookFirst' /\ WorkerHalts'
  BY <1>22 DEF Announce, To, Report
<1>23. ASSUME NEW t \in Stopper, EndWorker(t) PROVE Fresh' /\ WorkerWaitedFor' /\ HookFirst' /\ WorkerHalts'
  BY <1>23 DEF EndWorker, KilledCodes, To, NoReport
<1>24. ASSUME NEW t \in Stopper, SetShutdownEvent(t) PROVE Fresh' /\ WorkerWaitedFor' /\ HookFirst' /\ WorkerHalts'
  BY <1>24 DEF SetShutdownEvent, To
<1>25. ASSUME NEW c \in {0, 1}, ExitHooks(c) PROVE Fresh' /\ WorkerWaitedFor' /\ HookFirst' /\ WorkerHalts'
  BY <1>25 DEF ExitHooks, HookReports, ReportFinal
<1>26. CASE UNCHANGED vars
  BY <1>26 DEF vars
<1> QED
  BY <1>1, <1>2, <1>3, <1>4, <1>5, <1>6, <1>7, <1>8, <1>9, <1>10, <1>11, <1>12,
     <1>13, <1>14, <1>15, <1>16, <1>17, <1>18, <1>19, <1>20, <1>21, <1>22, <1>23, <1>24,
     <1>25, <1>26
  DEF Next, MainStep, StopStep

(* that a start is pending until it is answered, *)
LEMMA StartingKept ==
  ASSUME ProcrunAssumption, PrInv, [Next]_vars
  PROVE  Starting'
<1> USE Reporters DEF PrInv, PrTypeOK, Structure, Fresh, Idle, Starting, reportVars, Call, At
<1>1. CASE ScmStart
  BY <1>1 DEF ScmStart, Reporter
<1>2. CASE Exit
  BY <1>2 DEF Exit, NoReport, Reporter
<1>3. CASE Prepare
  BY <1>3, SMTT(20) DEF Prepare, Report
<1>4. CASE ServiceStart
  BY <1>4 DEF ServiceStart, ReportFinal
<1>5. CASE ReportRunning
  BY <1>5 DEF ReportRunning, Report
<1>6. CASE AfterWorker
  BY <1>6 DEF AfterWorker, WorkerEnded, StopKnown, Report
<1>7. CASE AwaitEvent
  BY <1>7 DEF AwaitEvent, Signalled, TimesOut, Report
<1>8. CASE DestroyInTime
  BY <1>8 DEF DestroyInTime
<1>9. CASE DestroyAtLast
  BY <1>9 DEF DestroyAtLast, Report
<1>10. CASE ReportStopped
  BY <1>10 DEF ReportStopped, ReportFinal
<1>11. CASE Interrogate
  BY <1>11 DEF Interrogate
<1>12. CASE WorkerEnds
  BY <1>12 DEF WorkerEnds, ExitCodes
<1>13. CASE WorkerExits
  BY <1>13 DEF WorkerExits
<1>14. ASSUME NEW r \in Reporter, Store(r) PROVE Starting'
  BY <1>14 DEF Store
<1>15. ASSUME NEW r \in Reporter, Send(r) PROVE Starting'
  BY <1>15 DEF Send, NoReport
<1>16. ASSUME NEW t \in Stopper, ScmStop(t) PROVE Starting'
  BY <1>16 DEF ScmStop, Report
<1>17. ASSUME NEW t \in Stopper, ConsoleEvent(t) PROVE Starting'
  BY <1>17 DEF ConsoleEvent
<1>18. ASSUME NEW t \in Stopper, Begin(t) PROVE Starting'
  BY <1>18 DEF Begin, To
<1>19. ASSUME NEW t \in Stopper, Launch(t) PROVE Starting'
  BY <1>19 DEF Launch, To
<1>20. ASSUME NEW t \in Stopper, LeaveToSystem(t) PROVE Starting'
  BY <1>20 DEF LeaveToSystem, To, Report
<1>21. ASSUME NEW t \in Stopper, StopWorkerEnds(t) PROVE Starting'
  BY <1>21 DEF StopWorkerEnds, ExitCodes, To
<1>22. ASSUME NEW t \in Stopper, Announce(t) PROVE Starting'
  BY <1>22 DEF Announce, To, Report
<1>23. ASSUME NEW t \in Stopper, EndWorker(t) PROVE Starting'
  BY <1>23 DEF EndWorker, KilledCodes, To, NoReport
<1>24. ASSUME NEW t \in Stopper, SetShutdownEvent(t) PROVE Starting'
  BY <1>24 DEF SetShutdownEvent, To
<1>25. ASSUME NEW c \in {0, 1}, ExitHooks(c) PROVE Starting'
  BY <1>25 DEF ExitHooks, HookReports, ReportFinal
<1>26. CASE UNCHANGED vars
  BY <1>26 DEF vars
<1> QED
  BY <1>1, <1>2, <1>3, <1>4, <1>5, <1>6, <1>7, <1>8, <1>9, <1>10, <1>11, <1>12,
     <1>13, <1>14, <1>15, <1>16, <1>17, <1>18, <1>19, <1>20, <1>21, <1>22, <1>23, <1>24,
     <1>25, <1>26
  DEF Next, MainStep, StopStep

(* that whoever reports an end has nothing left that runs, *)
LEMMA EndIsOverKept ==
  ASSUME ProcrunAssumption, PrInv, [Next]_vars
  PROVE  EndIsOver'
<1> USE Reporters DEF PrInv, PrTypeOK, Structure, Fresh, Idle, Starting, WorkerWaitedFor,
        WorkerHalts, EndIsOver, Over, reportVars, Call, At
<1>1. CASE ScmStart
  BY <1>1 DEF ScmStart
<1>2. CASE Exit
  BY <1>2 DEF Exit, NoReport, Reporter
<1>3. CASE Prepare
  BY <1>3 DEF Prepare, Report
<1>4. CASE ServiceStart
  BY <1>4 DEF ServiceStart, ReportFinal
<1>5. CASE ReportRunning
  BY <1>5 DEF ReportRunning, Report
<1>6. CASE AfterWorker
  BY <1>6 DEF AfterWorker, WorkerEnded, StopKnown, Report
<1>7. CASE AwaitEvent
  BY <1>7 DEF AwaitEvent, Signalled, TimesOut, Report
<1>8. CASE DestroyInTime
  BY <1>8 DEF DestroyInTime
<1>9. CASE DestroyAtLast
  BY <1>9 DEF DestroyAtLast, Report
<1>10. CASE ReportStopped
  BY <1>10 DEF ReportStopped, ReportFinal
<1>11. CASE Interrogate
  BY <1>11 DEF Interrogate
<1>12. CASE WorkerEnds
  BY <1>12 DEF WorkerEnds, ExitCodes
<1>13. CASE WorkerExits
  BY <1>13 DEF WorkerExits
<1>14. ASSUME NEW r \in Reporter, Store(r) PROVE EndIsOver'
  BY <1>14 DEF Store
<1>15. ASSUME NEW r \in Reporter, Send(r) PROVE EndIsOver'
  BY <1>15 DEF Send, NoReport
<1>16. ASSUME NEW t \in Stopper, ScmStop(t) PROVE EndIsOver'
  BY <1>16 DEF ScmStop, Report
<1>17. ASSUME NEW t \in Stopper, ConsoleEvent(t) PROVE EndIsOver'
  BY <1>17 DEF ConsoleEvent
<1>18. ASSUME NEW t \in Stopper, Begin(t) PROVE EndIsOver'
  BY <1>18 DEF Begin, To
<1>19. ASSUME NEW t \in Stopper, Launch(t) PROVE EndIsOver'
  BY <1>19 DEF Launch, To
<1>20. ASSUME NEW t \in Stopper, LeaveToSystem(t) PROVE EndIsOver'
  BY <1>20 DEF LeaveToSystem, To, Report
<1>21. ASSUME NEW t \in Stopper, StopWorkerEnds(t) PROVE EndIsOver'
  BY <1>21 DEF StopWorkerEnds, ExitCodes, To
<1>22. ASSUME NEW t \in Stopper, Announce(t) PROVE EndIsOver'
  BY <1>22 DEF Announce, To, Report
<1>23. ASSUME NEW t \in Stopper, EndWorker(t) PROVE EndIsOver'
  BY <1>23 DEF EndWorker, KilledCodes, To, NoReport
<1>24. ASSUME NEW t \in Stopper, SetShutdownEvent(t) PROVE EndIsOver'
  BY <1>24 DEF SetShutdownEvent, To
<1>25. ASSUME NEW c \in {0, 1}, ExitHooks(c) PROVE EndIsOver'
  BY <1>25 DEF ExitHooks, HookReports, ReportFinal
<1>26. CASE UNCHANGED vars
  BY <1>26 DEF vars
<1> QED
  BY <1>1, <1>2, <1>3, <1>4, <1>5, <1>6, <1>7, <1>8, <1>9, <1>10, <1>11, <1>12,
     <1>13, <1>14, <1>15, <1>16, <1>17, <1>18, <1>19, <1>20, <1>21, <1>22, <1>23, <1>24,
     <1>25, <1>26
  DEF Next, MainStep, StopStep

(* then that the reports of one thread at a time are not mixed, *)
LEMMA OneReportCalled ==
  ASSUME PrTypeOK, OneReport, NEW r \in Reporter, NEW s, NEW e, Call(r, s, e)
  PROVE  OneReport'
BY DEF PrTypeOK, OneReport, Idle, Call

LEMMA OneReportStays ==
  ASSUME OneReport, UNCHANGED reportVars
  PROVE  OneReport'
BY DEF OneReport, Idle, reportVars

LEMMA NobodyReports == ASSUME PrInv, main = "off" PROVE \A r \in Reporter : Idle(r)
BY DEF PrInv, Fresh, Reporter

LEMMA OneReportKept ==
  ASSUME ProcrunAssumption, PrInv, [Next]_vars
  PROVE  OneReport'
<1>0. OneReport /\ PrTypeOK
  BY DEF PrInv
<1> USE <1>0
<1>1. CASE ScmStart
  BY <1>1, NobodyReports DEF ScmStart, OneReport, Idle
<1>2. CASE Exit
  BY <1>2 DEF Exit, OneReport, Idle, NoReport
<1>3. CASE Prepare
  BY <1>3, Reporters, OneReportCalled, OneReportStays DEF Prepare, Report
<1>4. CASE ServiceStart
  BY <1>4, Reporters, OneReportCalled, OneReportStays DEF ServiceStart, ReportFinal
<1>5. CASE ReportRunning
  BY <1>5, Reporters, OneReportCalled, OneReportStays DEF ReportRunning, Report
<1>6. CASE AfterWorker
  BY <1>6, Reporters, OneReportCalled, OneReportStays DEF AfterWorker, Report
<1>7. CASE AwaitEvent
  BY <1>7, Reporters, OneReportCalled, OneReportStays DEF AwaitEvent, Signalled, TimesOut, Report
<1>8. CASE DestroyInTime
  BY <1>8, Reporters, OneReportCalled, OneReportStays DEF DestroyInTime
<1>9. CASE DestroyAtLast
  BY <1>9, Reporters, OneReportCalled, OneReportStays DEF DestroyAtLast, Report
<1>10. CASE ReportStopped
  BY <1>10, Reporters, OneReportCalled, OneReportStays DEF ReportStopped, ReportFinal
<1>11. CASE Interrogate
  BY <1>11, Reporters, OneReportCalled, OneReportStays DEF Interrogate
<1>12. CASE WorkerEnds
  BY <1>12, Reporters, OneReportCalled, OneReportStays DEF WorkerEnds, ExitCodes
<1>13. CASE WorkerExits
  BY <1>13, Reporters, OneReportCalled, OneReportStays DEF WorkerExits
<1>14. ASSUME NEW r \in Reporter, Store(r) PROVE OneReport'
  BY <1>14 DEF Store, OneReport, Idle, PrTypeOK, PrInv, Structure
<1>15. ASSUME NEW r \in Reporter, Send(r) PROVE OneReport'
  BY <1>15 DEF Send, OneReport, Idle, PrTypeOK, PrInv, NoReport
<1>16. ASSUME NEW t \in Stopper, ScmStop(t) PROVE OneReport'
  BY <1>16, Reporters, OneReportCalled, OneReportStays DEF ScmStop, Report
<1>17. ASSUME NEW t \in Stopper, ConsoleEvent(t) PROVE OneReport'
  BY <1>17, Reporters, OneReportCalled, OneReportStays DEF ConsoleEvent
<1>18. ASSUME NEW t \in Stopper, Begin(t) PROVE OneReport'
  BY <1>18, Reporters, OneReportCalled, OneReportStays DEF Begin, To
<1>19. ASSUME NEW t \in Stopper, Launch(t) PROVE OneReport'
  BY <1>19, Reporters, OneReportCalled, OneReportStays DEF Launch, To
<1>20. ASSUME NEW t \in Stopper, LeaveToSystem(t) PROVE OneReport'
  BY <1>20, Reporters, OneReportCalled, OneReportStays DEF LeaveToSystem, To, Report
<1>21. ASSUME NEW t \in Stopper, StopWorkerEnds(t) PROVE OneReport'
  BY <1>21, Reporters, OneReportCalled, OneReportStays DEF StopWorkerEnds, ExitCodes, To
<1>22. ASSUME NEW t \in Stopper, Announce(t) PROVE OneReport'
  BY <1>22, Reporters, OneReportCalled, OneReportStays DEF Announce, To, Report
<1>23. ASSUME NEW t \in Stopper, EndWorker(t) PROVE OneReport'
  BY <1>23 DEF EndWorker, OneReport, Idle, PrTypeOK, PrInv, NoReport
<1>24. ASSUME NEW t \in Stopper, SetShutdownEvent(t) PROVE OneReport'
  BY <1>24, Reporters, OneReportCalled, OneReportStays DEF SetShutdownEvent, To
<1>25. ASSUME NEW c \in {0, 1}, ExitHooks(c) PROVE OneReport'
  BY <1>25, Reporters, OneReportCalled, OneReportStays DEF ExitHooks, ReportFinal
<1>26. CASE UNCHANGED vars
  BY <1>26, OneReportStays DEF vars
<1> QED
  BY <1>1, <1>2, <1>3, <1>4, <1>5, <1>6, <1>7, <1>8, <1>9, <1>10, <1>11, <1>12,
     <1>13, <1>14, <1>15, <1>16, <1>17, <1>18, <1>19, <1>20, <1>21, <1>22, <1>23, <1>24,
     <1>25, <1>26
  DEF Next, MainStep, StopStep

(* and that an end in order is not a failure. *)
LEMMA EndInOrderKept ==
  ASSUME ProcrunAssumption, PrInv, [Next]_vars
  PROVE  EndInOrder'
<1> USE Reporters DEF PrInv, PrTypeOK, Structure, Fresh, Idle, Starting, WorkerWaitedFor,
        WorkerHalts, HookFirst, OneReport, InOrder, EndInOrder, reportVars, Call, At, Final
<1>1. CASE ScmStart
  BY <1>1, NobodyReports DEF ScmStart
<1>2. CASE Exit
  BY <1>2 DEF Exit, NoReport, Reporter
<1>3. CASE Prepare
  BY <1>3 DEF Prepare, Report
<1>4. CASE ServiceStart
  <2>1. CASE worker' = "running" /\ UNCHANGED reportVars
    BY <1>4, <2>1 DEF ServiceStart
  <2>2. CASE Call("main", "STOPPED", TRUE) /\ UNCHANGED worker
    BY <1>4, <2>2 DEF ServiceStart
  <2> QED
    BY <1>4, <2>1, <2>2 DEF ServiceStart, ReportFinal
<1>5. CASE ReportRunning
  BY <1>5 DEF ReportRunning, Report
<1>6. CASE AfterWorker
  BY <1>6 DEF AfterWorker, WorkerEnded, StopKnown, Report
<1>7. CASE AwaitEvent
  BY <1>7 DEF AwaitEvent, Signalled, TimesOut, Report
<1>8. CASE DestroyInTime
  BY <1>8 DEF DestroyInTime
<1>9. CASE DestroyAtLast
  BY <1>9 DEF DestroyAtLast, Report
<1>10. CASE ReportStopped
  BY <1>10 DEF ReportStopped, ReportFinal
<1>11. CASE Interrogate
  <2>1. report["control"].step = "none" /\ Call("control", shared.state, shared.error)
        /\ UNCHANGED <<config, main, worker, hook, code, halt, hooked>>
    BY <1>11 DEF Interrogate, ControlFree
  <2>2. InOrder' = InOrder
    BY <2>1
  <2>3. ASSUME main # "off", ~torn' PROVE
          /\ ~torn
          /\ \A r \in Reporter : Idle(r)
          /\ shared.state = "STOPPED" /\ ~shared.error => InOrder
    <3>1. ~torn /\ \A r \in Reporter : r # "control" => Idle(r)
      BY <2>1, <2>3
    <3> QED
      BY <2>1, <2>3, <3>1
  <2> QED
    BY <2>1, <2>2, <2>3
<1>12. CASE WorkerEnds
  BY <1>12 DEF WorkerEnds, ExitCodes
<1>13. CASE WorkerExits
  BY <1>13 DEF WorkerExits
<1>14. ASSUME NEW r \in Reporter, Store(r) PROVE EndInOrder'
  BY <1>14, SMTT(20) DEF Store
<1>15. ASSUME NEW r \in Reporter, Send(r) PROVE EndInOrder'
  BY <1>15 DEF Send, NoReport
<1>16. ASSUME NEW t \in Stopper, ScmStop(t) PROVE EndInOrder'
  BY <1>16 DEF ScmStop, Report
<1>17. ASSUME NEW t \in Stopper, ConsoleEvent(t) PROVE EndInOrder'
  BY <1>17 DEF ConsoleEvent
<1>18. ASSUME NEW t \in Stopper, Begin(t) PROVE EndInOrder'
  BY <1>18 DEF Begin, To
<1>19. ASSUME NEW t \in Stopper, Launch(t) PROVE EndInOrder'
  BY <1>19 DEF Launch, To
<1>20. ASSUME NEW t \in Stopper, LeaveToSystem(t) PROVE EndInOrder'
  BY <1>20 DEF LeaveToSystem, To, Report
<1>21. ASSUME NEW t \in Stopper, StopWorkerEnds(t) PROVE EndInOrder'
  BY <1>21 DEF StopWorkerEnds, ExitCodes, To
<1>22. ASSUME NEW t \in Stopper, Announce(t) PROVE EndInOrder'
  BY <1>22 DEF Announce, To, Report
<1>23. ASSUME NEW t \in Stopper, EndWorker(t) PROVE EndInOrder'
  BY <1>23 DEF EndWorker, KilledCodes, To, NoReport
<1>24. ASSUME NEW t \in Stopper, SetShutdownEvent(t) PROVE EndInOrder'
  BY <1>24 DEF SetShutdownEvent, To
<1>25. ASSUME NEW c \in {0, 1}, ExitHooks(c) PROVE EndInOrder'
  BY <1>25 DEF ExitHooks, HookReports, ReportFinal
<1>26. CASE UNCHANGED vars
  BY <1>26 DEF vars
<1> QED
  BY <1>1, <1>2, <1>3, <1>4, <1>5, <1>6, <1>7, <1>8, <1>9, <1>10, <1>11, <1>12,
     <1>13, <1>14, <1>15, <1>16, <1>17, <1>18, <1>19, <1>20, <1>21, <1>22, <1>23, <1>24,
     <1>25, <1>26
  DEF Next, MainStep, StopStep

LEMMA PrInvKept == ASSUME ProcrunAssumption, PrInv, [Next]_vars PROVE PrInv'
<1>1. PrTypeOK'
  BY PrTypeKept DEF PrInv
<1> QED
  BY <1>1, ControlKept, StartingKept, EndIsOverKept, OneReportKept, EndInOrderKept DEF PrInv

LEMMA PrInitially == Init => PrInv
<1> SUFFICES ASSUME Init PROVE PrInv
  OBVIOUS
<1>1. config \in ConfigTypes
  BY ProcrunAssumption DEF Init, ProcrunAssumption
<1>2. PrTypeOK
  BY <1>1 DEF Init, PrTypeOK, Structure, States, Steps, NoReport, MainStates, StopStates
<1> QED
  BY <1>2, Reporters DEF Init, NoReport, Idle, PrInv, Fresh, Starting, WorkerWaitedFor, HookFirst,
                         WorkerHalts, EndIsOver, OneReport, EndInOrder

LEMMA PrInvHolds == PrSpec => []PrInv
BY PrInitially, PrInvKept, ProcrunAssumption, PTL DEF PrSpec

(* Every variable of the service process keeps its type. *)
THEOREM PrTypeCorrect == PrSpec => []PrTypeOK
<1>1. PrInv => PrTypeOK
  BY DEF PrInv
<1> QED
  BY <1>1, PrInvHolds, PTL

(* For every set of stop threads, configurations and faults, and in whatever
   order threads store the fields of one structure and send it: the service
   manager is told no end while the worker runs, but by the exit hooks. *)
THEOREM StoppedHasEnded == PrSpec => []StoppedMeansEnded
<1>1. PrInv => StoppedMeansEnded
  BY DEF PrInv, EndIsOver, Over, StoppedMeansEnded
<1> QED
  BY <1>1, PrInvHolds, PTL

(* A failure of the worker is never told as an end in order, as long as no
   stop worker has been run and no two threads have reported at once. *)
THEOREM FailureShown == PrSpec => []FailureVisible
<1>1. PrInv => FailureVisible
  BY DEF PrInv, EndInOrder, InOrder, FailureVisible
<1> QED
  BY <1>1, PrInvHolds, PTL

-----------------------------------------------------------------------------
(* One stop in a run of the service that the service manager alone asks for *)

(* No control is accepted until serviceMain has reported RUNNING, *)
BeforeRunning ==
    main \in {"prepare", "start", "run"} \/ (main = "wait" /\ report["main"].step = "accept") =>
        /\ ~shared.accept /\ ~told.accept
        /\ \A t \in Stopper : pc[t] = "idle"

(* which it does once; *)
RunningOnce ==
    \A r \in Reporter :
        Idle(r) \/ report[r].state # "RUNNING" \/ (r = "main" /\ main = "wait")

(* and what is asked ends it for good: one thread stops the service, once. *)
OneStop ==
    /\ Idle("control")
    /\ \A t \in Stopper : pc[t] # "idle" =>
         /\ t \notin Console
         /\ pc[t] # "begin" \/ report[t].step # "accept" => ~shared.accept
         /\ pc[t] # "begin" \/ Idle(t) => ~told.accept
    /\ \A t, u \in Stopper : pc[t] # "idle" /\ pc[u] # "idle" => t = u

(* So the event is created once, and set and closed only when that thread has
   left serviceStop. *)
OneEvent ==
    /\ main \in {"off", "prepare", "start", "run"} => event = "null"
    /\ event # "null" =>
         /\ ~shared.accept /\ ~told.accept
         /\ main = "wait" => report["main"].step # "accept"
         /\ \A t \in Stopper : pc[t] # "begin"
    /\ main = "event" => event # "null"
    /\ main \notin {"woken", "lost"}
    /\ event \in {"set", "closed"} => \A t \in Stopper : pc[t] = "idle"

Asked == OneStopAsked(config) /\ main # "off" => BeforeRunning /\ RunningOnce /\ OneStop /\ OneEvent

LEMMA AskedFaults == ASSUME OneStopAsked(config)
                     PROVE  /\ "console" \notin config.faults
                            /\ "minute" \notin config.faults
                            /\ "interrogate" \notin config.faults
BY DEF OneStopAsked

(* Every step keeps that no control comes early, *)
LEMMA BeforeRunningKept ==
  ASSUME ProcrunAssumption, PrInv, Asked, OneStopAsked(config'), main' # "off", [Next]_vars
  PROVE  BeforeRunning'
<1> USE Reporters, AskedFaults DEF PrInv, PrTypeOK, Structure, Fresh, Starting, Idle,
        reportVars, Call, At, Asked,
        BeforeRunning, RunningOnce, OneStop, OneEvent, ControlFree
<1>1. CASE ScmStart
  BY <1>1, NobodyReports DEF ScmStart
<1>2. CASE Exit
  BY <1>2 DEF Exit
<1>3. CASE Prepare
  BY <1>3 DEF Prepare, Report
<1>4. CASE ServiceStart
  BY <1>4 DEF ServiceStart, ReportFinal
<1>5. CASE ReportRunning
  BY <1>5 DEF ReportRunning, Report
<1>6. CASE AfterWorker
  BY <1>6 DEF AfterWorker, WorkerEnded, StopKnown, Report
<1>7. CASE AwaitEvent
  BY <1>7 DEF AwaitEvent, Signalled, TimesOut, Report
<1>8. CASE DestroyInTime
  BY <1>8 DEF DestroyInTime
<1>9. CASE DestroyAtLast
  BY <1>9 DEF DestroyAtLast, Report
<1>10. CASE ReportStopped
  BY <1>10 DEF ReportStopped, ReportFinal
<1>11. CASE Interrogate
  BY <1>11 DEF Interrogate
<1>12. CASE WorkerEnds
  BY <1>12 DEF WorkerEnds, ExitCodes
<1>13. CASE WorkerExits
  BY <1>13 DEF WorkerExits
<1>14. ASSUME NEW r \in Reporter, Store(r) PROVE BeforeRunning'
  BY <1>14 DEF Store
<1>15. ASSUME NEW r \in Reporter, Send(r) PROVE BeforeRunning'
  BY <1>15 DEF Send, NoReport
<1>16. ASSUME NEW t \in Stopper, ScmStop(t) PROVE BeforeRunning'
  BY <1>16 DEF ScmStop, Report
<1>17. ASSUME NEW t \in Stopper, ConsoleEvent(t) PROVE BeforeRunning'
  BY <1>17 DEF ConsoleEvent
<1>18. ASSUME NEW t \in Stopper, Begin(t) PROVE BeforeRunning'
  BY <1>18 DEF Begin, To
<1>19. ASSUME NEW t \in Stopper, Launch(t) PROVE BeforeRunning'
  BY <1>19 DEF Launch, To
<1>20. ASSUME NEW t \in Stopper, LeaveToSystem(t) PROVE BeforeRunning'
  BY <1>20 DEF LeaveToSystem, To, Report
<1>21. ASSUME NEW t \in Stopper, StopWorkerEnds(t) PROVE BeforeRunning'
  BY <1>21 DEF StopWorkerEnds, ExitCodes, To
<1>22. ASSUME NEW t \in Stopper, Announce(t) PROVE BeforeRunning'
  BY <1>22 DEF Announce, To, Report
<1>23. ASSUME NEW t \in Stopper, EndWorker(t) PROVE BeforeRunning'
  BY <1>23 DEF EndWorker, KilledCodes, To, NoReport
<1>24. ASSUME NEW t \in Stopper, SetShutdownEvent(t) PROVE BeforeRunning'
  BY <1>24 DEF SetShutdownEvent, To
<1>25. ASSUME NEW c \in {0, 1}, ExitHooks(c) PROVE BeforeRunning'
  BY <1>25 DEF ExitHooks, HookReports, ReportFinal
<1>26. CASE UNCHANGED vars
  BY <1>26 DEF vars
<1> QED
  BY <1>1, <1>2, <1>3, <1>4, <1>5, <1>6, <1>7, <1>8, <1>9, <1>10, <1>11, <1>12,
     <1>13, <1>14, <1>15, <1>16, <1>17, <1>18, <1>19, <1>20, <1>21, <1>22, <1>23, <1>24,
     <1>25, <1>26
  DEF Next, MainStep, StopStep

(* that RUNNING is reported by serviceMain alone, *)
LEMMA RunningOnceKept ==
  ASSUME ProcrunAssumption, PrInv, Asked, OneStopAsked(config'), main' # "off", [Next]_vars
  PROVE  RunningOnce'
<1> USE Reporters, AskedFaults DEF PrInv, PrTypeOK, Structure, Fresh, Starting, Idle,
        reportVars, Call, At, Asked,
        BeforeRunning, RunningOnce, OneStop, OneEvent, ControlFree
<1>1. CASE ScmStart
  BY <1>1, NobodyReports DEF ScmStart
<1>2. CASE Exit
  BY <1>2 DEF Exit
<1>3. CASE Prepare
  BY <1>3 DEF Prepare, Report
<1>4. CASE ServiceStart
  BY <1>4 DEF ServiceStart, ReportFinal
<1>5. CASE ReportRunning
  BY <1>5 DEF ReportRunning, Report
<1>6. CASE AfterWorker
  BY <1>6 DEF AfterWorker, WorkerEnded, StopKnown, Report
<1>7. CASE AwaitEvent
  BY <1>7 DEF AwaitEvent, Signalled, TimesOut, Report
<1>8. CASE DestroyInTime
  BY <1>8 DEF DestroyInTime
<1>9. CASE DestroyAtLast
  BY <1>9 DEF DestroyAtLast, Report
<1>10. CASE ReportStopped
  BY <1>10 DEF ReportStopped, ReportFinal
<1>11. CASE Interrogate
  BY <1>11 DEF Interrogate
<1>12. CASE WorkerEnds
  BY <1>12 DEF WorkerEnds, ExitCodes
<1>13. CASE WorkerExits
  BY <1>13 DEF WorkerExits
<1>14. ASSUME NEW r \in Reporter, Store(r) PROVE RunningOnce'
  BY <1>14 DEF Store
<1>15. ASSUME NEW r \in Reporter, Send(r) PROVE RunningOnce'
  BY <1>15 DEF Send, NoReport
<1>16. ASSUME NEW t \in Stopper, ScmStop(t) PROVE RunningOnce'
  BY <1>16 DEF ScmStop, Report
<1>17. ASSUME NEW t \in Stopper, ConsoleEvent(t) PROVE RunningOnce'
  BY <1>17 DEF ConsoleEvent
<1>18. ASSUME NEW t \in Stopper, Begin(t) PROVE RunningOnce'
  BY <1>18 DEF Begin, To
<1>19. ASSUME NEW t \in Stopper, Launch(t) PROVE RunningOnce'
  BY <1>19 DEF Launch, To
<1>20. ASSUME NEW t \in Stopper, LeaveToSystem(t) PROVE RunningOnce'
  BY <1>20 DEF LeaveToSystem, To, Report
<1>21. ASSUME NEW t \in Stopper, StopWorkerEnds(t) PROVE RunningOnce'
  BY <1>21 DEF StopWorkerEnds, ExitCodes, To
<1>22. ASSUME NEW t \in Stopper, Announce(t) PROVE RunningOnce'
  BY <1>22 DEF Announce, To, Report
<1>23. ASSUME NEW t \in Stopper, EndWorker(t) PROVE RunningOnce'
  BY <1>23 DEF EndWorker, KilledCodes, To, NoReport
<1>24. ASSUME NEW t \in Stopper, SetShutdownEvent(t) PROVE RunningOnce'
  BY <1>24 DEF SetShutdownEvent, To
<1>25. ASSUME NEW c \in {0, 1}, ExitHooks(c) PROVE RunningOnce'
  BY <1>25 DEF ExitHooks, HookReports, ReportFinal
<1>26. CASE UNCHANGED vars
  BY <1>26 DEF vars
<1> QED
  BY <1>1, <1>2, <1>3, <1>4, <1>5, <1>6, <1>7, <1>8, <1>9, <1>10, <1>11, <1>12,
     <1>13, <1>14, <1>15, <1>16, <1>17, <1>18, <1>19, <1>20, <1>21, <1>22, <1>23, <1>24,
     <1>25, <1>26
  DEF Next, MainStep, StopStep

(* that one thread is asked to stop, *)
LEMMA OneStopKept ==
  ASSUME ProcrunAssumption, PrInv, Asked, OneStopAsked(config'), main' # "off", [Next]_vars
  PROVE  OneStop'
<1> USE Reporters, AskedFaults DEF PrInv, PrTypeOK, Structure, Fresh, Starting, Idle,
        reportVars, Call, At, Asked,
        BeforeRunning, RunningOnce, OneStop, OneEvent, ControlFree
<1>1. CASE ScmStart
  BY <1>1, NobodyReports DEF ScmStart
<1>2. CASE Exit
  BY <1>2 DEF Exit
<1>3. CASE Prepare
  BY <1>3 DEF Prepare, Report
<1>4. CASE ServiceStart
  BY <1>4 DEF ServiceStart, ReportFinal
<1>5. CASE ReportRunning
  BY <1>5 DEF ReportRunning, Report
<1>6. CASE AfterWorker
  BY <1>6 DEF AfterWorker, WorkerEnded, StopKnown, Report
<1>7. CASE AwaitEvent
  BY <1>7 DEF AwaitEvent, Signalled, TimesOut, Report
<1>8. CASE DestroyInTime
  BY <1>8 DEF DestroyInTime
<1>9. CASE DestroyAtLast
  BY <1>9 DEF DestroyAtLast, Report
<1>10. CASE ReportStopped
  BY <1>10 DEF ReportStopped, ReportFinal
<1>11. CASE Interrogate
  BY <1>11 DEF Interrogate
<1>12. CASE WorkerEnds
  BY <1>12 DEF WorkerEnds, ExitCodes
<1>13. CASE WorkerExits
  BY <1>13 DEF WorkerExits
<1>14. ASSUME NEW r \in Reporter, Store(r) PROVE OneStop'
  <2>1. CASE report[r].step = "accept"
    <3>1. /\ shared'.accept = (report[r].state = "RUNNING") /\ told' = told
          /\ report' = [report EXCEPT ![r].step = "state"] /\ UNCHANGED <<pc, config, main>>
      BY <1>14, <2>1 DEF Store
    <3>2. CASE \A t \in Stopper : pc[t] = "idle"
      BY <3>1, <3>2, <2>1
    <3>3. CASE \E t \in Stopper : pc[t] # "idle"
      <4>1. report[r].state # "RUNNING"
        BY <1>14, <3>3, <2>1 DEF Store
      <4>2. ~shared'.accept
        BY <3>1, <4>1
      <4>3. r # "control" /\ OneStop
        BY <3>1, <2>1
      <4> QED
        BY <3>1, <4>2, <4>3, <2>1
    <3> QED
      BY <3>2, <3>3
  <2>2. CASE report[r].step # "accept"
    BY <1>14, <2>2, SMTT(20) DEF Store
  <2> QED
    BY <2>1, <2>2
<1>15. ASSUME NEW r \in Reporter, Send(r) PROVE OneStop'
  BY <1>15 DEF Send, NoReport
<1>16. ASSUME NEW t \in Stopper, ScmStop(t) PROVE OneStop'
  BY <1>16 DEF ScmStop, Report
<1>17. ASSUME NEW t \in Stopper, ConsoleEvent(t) PROVE OneStop'
  BY <1>17 DEF ConsoleEvent
<1>18. ASSUME NEW t \in Stopper, Begin(t) PROVE OneStop'
  BY <1>18 DEF Begin, To
<1>19. ASSUME NEW t \in Stopper, Launch(t) PROVE OneStop'
  BY <1>19 DEF Launch, To
<1>20. ASSUME NEW t \in Stopper, LeaveToSystem(t) PROVE OneStop'
  BY <1>20 DEF LeaveToSystem, To, Report
<1>21. ASSUME NEW t \in Stopper, StopWorkerEnds(t) PROVE OneStop'
  BY <1>21 DEF StopWorkerEnds, ExitCodes, To
<1>22. ASSUME NEW t \in Stopper, Announce(t) PROVE OneStop'
  BY <1>22 DEF Announce, To, Report
<1>23. ASSUME NEW t \in Stopper, EndWorker(t) PROVE OneStop'
  BY <1>23 DEF EndWorker, KilledCodes, To, NoReport
<1>24. ASSUME NEW t \in Stopper, SetShutdownEvent(t) PROVE OneStop'
  BY <1>24 DEF SetShutdownEvent, To
<1>25. ASSUME NEW c \in {0, 1}, ExitHooks(c) PROVE OneStop'
  BY <1>25 DEF ExitHooks, HookReports, ReportFinal
<1>26. CASE UNCHANGED vars
  BY <1>26 DEF vars
<1> QED
  BY <1>1, <1>2, <1>3, <1>4, <1>5, <1>6, <1>7, <1>8, <1>9, <1>10, <1>11, <1>12,
     <1>13, <1>14, <1>15, <1>16, <1>17, <1>18, <1>19, <1>20, <1>21, <1>22, <1>23, <1>24,
     <1>25, <1>26
  DEF Next, MainStep, StopStep

(* and that its event outlives it. *)
LEMMA OneEventKept ==
  ASSUME ProcrunAssumption, PrInv, Asked, OneStopAsked(config'), main' # "off", [Next]_vars
  PROVE  OneEvent'
<1> USE Reporters, AskedFaults DEF PrInv, PrTypeOK, Structure, Fresh, Starting, Idle,
        reportVars, Call, At, Asked,
        BeforeRunning, RunningOnce, OneStop, OneEvent, ControlFree
<1>1. CASE ScmStart
  BY <1>1, NobodyReports DEF ScmStart
<1>2. CASE Exit
  BY <1>2 DEF Exit
<1>3. CASE Prepare
  BY <1>3 DEF Prepare, Report
<1>4. CASE ServiceStart
  BY <1>4 DEF ServiceStart, ReportFinal
<1>5. CASE ReportRunning
  BY <1>5 DEF ReportRunning, Report
<1>6. CASE AfterWorker
  BY <1>6 DEF AfterWorker, WorkerEnded, StopKnown, Report
<1>7. CASE AwaitEvent
  BY <1>7 DEF AwaitEvent, Signalled, TimesOut, Report
<1>8. CASE DestroyInTime
  BY <1>8 DEF DestroyInTime
<1>9. CASE DestroyAtLast
  BY <1>9 DEF DestroyAtLast, Report
<1>10. CASE ReportStopped
  BY <1>10 DEF ReportStopped, ReportFinal
<1>11. CASE Interrogate
  BY <1>11 DEF Interrogate
<1>12. CASE WorkerEnds
  BY <1>12 DEF WorkerEnds, ExitCodes
<1>13. CASE WorkerExits
  BY <1>13 DEF WorkerExits
<1>14. ASSUME NEW r \in Reporter, Store(r) PROVE OneEvent'
  BY <1>14 DEF Store
<1>15. ASSUME NEW r \in Reporter, Send(r) PROVE OneEvent'
  BY <1>15 DEF Send, NoReport
<1>16. ASSUME NEW t \in Stopper, ScmStop(t) PROVE OneEvent'
  BY <1>16 DEF ScmStop, Report
<1>17. ASSUME NEW t \in Stopper, ConsoleEvent(t) PROVE OneEvent'
  BY <1>17 DEF ConsoleEvent
<1>18. ASSUME NEW t \in Stopper, Begin(t) PROVE OneEvent'
  BY <1>18 DEF Begin, To
<1>19. ASSUME NEW t \in Stopper, Launch(t) PROVE OneEvent'
  BY <1>19 DEF Launch, To
<1>20. ASSUME NEW t \in Stopper, LeaveToSystem(t) PROVE OneEvent'
  BY <1>20 DEF LeaveToSystem, To, Report
<1>21. ASSUME NEW t \in Stopper, StopWorkerEnds(t) PROVE OneEvent'
  BY <1>21 DEF StopWorkerEnds, ExitCodes, To
<1>22. ASSUME NEW t \in Stopper, Announce(t) PROVE OneEvent'
  BY <1>22 DEF Announce, To, Report
<1>23. ASSUME NEW t \in Stopper, EndWorker(t) PROVE OneEvent'
  BY <1>23 DEF EndWorker, KilledCodes, To, NoReport
<1>24. ASSUME NEW t \in Stopper, SetShutdownEvent(t) PROVE OneEvent'
  BY <1>24 DEF SetShutdownEvent, To
<1>25. ASSUME NEW c \in {0, 1}, ExitHooks(c) PROVE OneEvent'
  BY <1>25 DEF ExitHooks, HookReports, ReportFinal
<1>26. CASE UNCHANGED vars
  BY <1>26 DEF vars
<1> QED
  BY <1>1, <1>2, <1>3, <1>4, <1>5, <1>6, <1>7, <1>8, <1>9, <1>10, <1>11, <1>12,
     <1>13, <1>14, <1>15, <1>16, <1>17, <1>18, <1>19, <1>20, <1>21, <1>22, <1>23, <1>24,
     <1>25, <1>26
  DEF Next, MainStep, StopStep

LEMMA AskedKept == ASSUME ProcrunAssumption, PrInv, Asked, [Next]_vars PROVE Asked'
<1> SUFFICES ASSUME OneStopAsked(config'), main' # "off"
             PROVE  BeforeRunning' /\ RunningOnce' /\ OneStop' /\ OneEvent'
  BY DEF Asked, OneStopAsked
<1> QED
  BY BeforeRunningKept, RunningOnceKept, OneStopKept, OneEventKept

LEMMA AskedHolds == PrSpec => []Asked
<1>1. Init => Asked
  BY DEF Init, Asked
<1> QED
  BY <1>1, AskedKept, PrInvHolds, ProcrunAssumption, PTL DEF PrSpec

(* With the service manager alone to ask for a stop, and within its minute,
   serviceMain never closes the event under a thread that is about to signal
   it, whatever else fails and reports. *)
THEOREM EventIsOpen == PrSpec => []EventOpenWhenSet
<1>1. PrInv /\ Asked => EventOpenWhenSet
  <2> SUFFICES ASSUME PrInv, Asked, OneStopAsked(config), NEW t \in Stopper, pc[t] = "set"
               PROVE  event # "closed"
    BY DEF EventOpenWhenSet
  <2>1. main # "off"
    BY DEF PrInv, Fresh
  <2> QED
    BY <2>1 DEF Asked, OneEvent
<1> QED
  BY <1>1, AskedHolds, PrInvHolds, PTL

-----------------------------------------------------------------------------
(* The life that the service manager sees *)

(* The process ends by its dispatcher only. *)
NoExit ==
    /\ halt = "no" /\ ~hooked /\ Idle("hook")
    /\ dispatch => told.state = "STOPPED"

(* What the structure, the service manager and a report on its way say when
   serviceMain is where it is. *)
Pending(s) == \A r \in Reporter : Idle(r) \/ report[r].state \in s
Says(shareds, tolds) == shared.state \in shareds /\ told.state \in tolds

StartSaid ==
    /\ main \in {"prepare", "start", "run"} =>
         Says({"START_PENDING"}, {"START_PENDING"}) /\ Pending({"START_PENDING"})
    /\ main = "run" => Idle("main")
    /\ main = "wait" /\ report["main"].step \in {"accept", "state"} =>
         Says({"START_PENDING"}, {"START_PENDING"})
    /\ main = "wait" /\ report["main"].step \in {"error", "send"} =>
         Says({"RUNNING"}, {"START_PENDING"})
    /\ main = "wait" /\ ~Idle("main") =>
         /\ report["main"].state = "RUNNING"
         /\ \A t \in Stopper : pc[t] = "idle" /\ Idle(t)
         /\ ~told.accept

StopSaid ==
    /\ main = "wait" /\ Idle("main") =>
         /\ Says({"RUNNING", "STOP_PENDING"}, {"RUNNING", "STOP_PENDING"})
         /\ told.state = "STOP_PENDING" => shared.state = "STOP_PENDING"
         /\ Pending({"STOP_PENDING"})
    /\ \A t \in Stopper : ~Idle(t) /\ report[t].step \in {"error", "send"} => shared.state = "STOP_PENDING"
    /\ \A t \in Stopper : pc[t] # "idle" /\ (pc[t] # "begin" \/ Idle(t)) => told.state # "RUNNING"
    /\ main = "wait" /\ worker # "running" => told.state = "STOP_PENDING"
    /\ main \in {"event", "minute", "destroy", "stop"} =>
         Says({"STOP_PENDING"}, {"STOP_PENDING"}) /\ Pending({"STOP_PENDING"})

(* Controls are accepted when it runs, and only then. *)
AcceptSaid ==
    /\ told.accept => told.state = "RUNNING"
    /\ shared.accept =>
         shared.state = "RUNNING" \/ (main = "wait" /\ report["main"].step = "state")
    /\ \A r \in Reporter :
         report[r].step \in {"state", "error", "send"} /\ report[r].state # "RUNNING" =>
           ~shared.accept

EndSaid ==
    main = "done" =>
        /\ \A t \in Stopper : Idle(t)
        /\ ~Idle("main") =>
             /\ report["main"].state = "STOPPED"
             /\ told.state \in {"START_PENDING", "STOP_PENDING"}
             /\ told.state = "START_PENDING" => report["main"].error
             /\ report["main"].step \in {"error", "send"} => shared.state = "STOPPED"
             /\ report["main"].step = "send" => shared.error = report["main"].error
        /\ Idle("main") => told.state \in {"START_PENDING", "STOPPED"}

(* serviceMain does not report an end before the stopping thread has made its
   last report: with a Java stop class it waits for the event, with none the
   worker runs until that thread ends it. *)
LastReport ==
    /\ \A t \in Stopper : ~Idle(t) =>
         main \in {"wait", "event"} /\ pc[t] \in {"begin", "wait", "close"}
    /\ main = "wait" /\ told.state # "STOP_PENDING" => worker = "running"
    /\ main = "run" => worker = "running"
    /\ \A t \in Stopper : pc[t] # "system"
    /\ \A t \in Stopper : pc[t] \in {"begin", "launch", "class", "announce", "hurry"} =>
         main \in {"wait", "event"}
    /\ config.stop = "jvm" =>
         /\ \A t \in Stopper : pc[t] \notin {"idle", "begin"} => event # "null"
         /\ \A t \in Stopper : pc[t] \notin {"hurry", "close"}
         /\ \A t \in Stopper : ~Idle(t) => event # "null" \/ pc[t] = "begin"
         /\ event \in {"set", "closed"} => \A t \in Stopper : Idle(t)
         /\ main \notin {"off", "prepare", "start", "done"} /\ event = "null" => worker = "running"
    /\ config.stop = "none" =>
         /\ event = "null"
         /\ \A t \in Stopper : pc[t] \in {"idle", "begin", "hurry", "wait", "close", "set"}
         /\ \A t \in Stopper : pc[t] \in {"begin", "hurry", "wait", "close"} => worker = "running"
         /\ \A t \in Stopper : ~Idle(t) => worker = "running"

Ordered == Orderly(config) /\ main # "off" => NoExit /\ StartSaid /\ StopSaid /\ AcceptSaid /\ EndSaid /\ LastReport

LEMMA OrderlyFaults ==
  ASSUME Orderly(config)
  PROVE  /\ OneStopAsked(config)
         /\ config.stop \in {"jvm", "none"}
         /\ "worker" \notin config.faults /\ "exit" \notin config.faults
         /\ "console" \notin config.faults /\ "minute" \notin config.faults
         /\ "interrogate" \notin config.faults
BY DEF Orderly, OneStopAsked

LEMMA StartCases ==
  ASSUME ServiceStart
  PROVE  \/ worker' = "running" /\ main' = "run" /\ UNCHANGED reportVars
         \/ Call("main", "STOPPED", TRUE) /\ main' = "done"
<1>1. Final(1) = TRUE
  BY DEF Final
<1> QED
  BY <1>1 DEF ServiceStart, ReportFinal

(* Who reports, and where serviceMain is then. *)
LEMMA WhoReports ==
  ASSUME PrInv, Asked, Ordered, Orderly(config), main # "off", NEW r \in Reporter, ~Idle(r)
  PROVE  \/ r = "main" /\ main \in {"prepare", "start", "run"}
         \/ r = "main" /\ main = "wait"
         \/ r = "main" /\ main \in {"event", "minute", "destroy", "stop"}
         \/ r = "main" /\ main = "done"
         \/ r \in Stopper /\ main = "wait" /\ Idle("main")
         \/ r \in Stopper /\ main = "event"
BY OrderlyFaults DEF PrInv, PrTypeOK, MainStates, Reporter, Asked, OneStop, OneEvent, Ordered, NoExit,
   StartSaid, LastReport

(* Every step keeps that the dispatcher alone ends the process, *)
LEMMA NoExitKept ==
  ASSUME ProcrunAssumption, PrInv, Asked, Ordered, Orderly(config'), main' # "off", [Next]_vars
  PROVE  NoExit'
<1> USE Reporters, OrderlyFaults DEF PrInv, PrTypeOK, Structure, Fresh, Idle, WorkerWaitedFor,
        reportVars, Call, At, Asked, BeforeRunning, RunningOnce, OneStop, OneEvent, ControlFree,
        Ordered, NoExit, StartSaid, StopSaid, AcceptSaid, EndSaid, LastReport, Says, Pending
<1>1. CASE ScmStart
  BY <1>1, NobodyReports DEF ScmStart
<1>2. CASE Exit
  BY <1>2 DEF Exit
<1>3. CASE Prepare
  BY <1>3 DEF Prepare, Report
<1>4. CASE ServiceStart
  <2>1. CASE worker' = "running" /\ main' = "run" /\ UNCHANGED reportVars
    BY <1>4, <2>1 DEF ServiceStart
  <2>2. CASE Call("main", "STOPPED", TRUE) /\ main' = "done"
    BY <1>4, <2>2 DEF ServiceStart
  <2> QED
    BY <1>4, <2>1, <2>2, StartCases
<1>5. CASE ReportRunning
  BY <1>5 DEF ReportRunning, Report
<1>6. CASE AfterWorker
  BY <1>6 DEF AfterWorker, WorkerEnded, StopKnown, Report
<1>7. CASE AwaitEvent
  BY <1>7 DEF AwaitEvent, Signalled, TimesOut, Report
<1>8. CASE DestroyInTime
  BY <1>8 DEF DestroyInTime
<1>9. CASE DestroyAtLast
  BY <1>9 DEF DestroyAtLast, Report
<1>10. CASE ReportStopped
  BY <1>10 DEF ReportStopped, ReportFinal
<1>11. CASE Interrogate
  BY <1>11 DEF Interrogate
<1>12. CASE WorkerEnds
  BY <1>12 DEF WorkerEnds, ExitCodes
<1>13. CASE WorkerExits
  BY <1>13 DEF WorkerExits
<1>14. ASSUME NEW r \in Reporter, Store(r) PROVE NoExit'
  <2>1. CASE r = "main" /\ main \in {"prepare", "start", "run"}
    BY <1>14, <2>1 DEF Store
  <2>2. CASE r = "main" /\ main = "wait"
    BY <1>14, <2>2 DEF Store
  <2>3. CASE r = "main" /\ main \in {"event", "minute", "destroy", "stop"}
    BY <1>14, <2>3 DEF Store
  <2>4. CASE r = "main" /\ main = "done"
    BY <1>14, <2>4 DEF Store
  <2>5. CASE r \in Stopper /\ main = "wait" /\ Idle("main")
    BY <1>14, <2>5 DEF Store
  <2>6. CASE r \in Stopper /\ main = "event"
    BY <1>14, <2>6 DEF Store
  <2>7. Orderly(config) /\ main # "off" /\ ~Idle(r)
    BY <1>14 DEF Store
  <2> QED
    BY <2>1, <2>2, <2>3, <2>4, <2>5, <2>6, <2>7, WhoReports
<1>15. ASSUME NEW r \in Reporter, Send(r) PROVE NoExit'
  <2>1. CASE r = "main" /\ main \in {"prepare", "start", "run"}
    BY <1>15, <2>1 DEF Send, NoReport
  <2>2. CASE r = "main" /\ main = "wait"
    BY <1>15, <2>2 DEF Send, NoReport
  <2>3. CASE r = "main" /\ main \in {"event", "minute", "destroy", "stop"}
    BY <1>15, <2>3 DEF Send, NoReport
  <2>4. CASE r = "main" /\ main = "done"
    BY <1>15, <2>4 DEF Send, NoReport
  <2>5. CASE r \in Stopper /\ main = "wait" /\ Idle("main")
    BY <1>15, <2>5 DEF Send, NoReport
  <2>6. CASE r \in Stopper /\ main = "event"
    BY <1>15, <2>6 DEF Send, NoReport
  <2>7. Orderly(config) /\ main # "off" /\ ~Idle(r)
    BY <1>15 DEF Send, NoReport
  <2> QED
    BY <2>1, <2>2, <2>3, <2>4, <2>5, <2>6, <2>7, WhoReports
<1>16. ASSUME NEW t \in Stopper, ScmStop(t) PROVE NoExit'
  <2>1. told.accept /\ Orderly(config) /\ main # "off"
    BY <1>16 DEF ScmStop
  <2>2. told.state = "RUNNING" /\ event = "null" /\ \A u \in Stopper : pc[u] = "idle" /\ Idle(u)
    BY <1>16, <2>1 DEF ScmStop
  <2>3. main = "wait" /\ Idle("main") /\ worker = "running"
    BY <2>1, <2>2 DEF MainStates
  <2> QED
    BY <1>16, <2>1, <2>2, <2>3 DEF ScmStop, Report
<1>17. ASSUME NEW t \in Stopper, ConsoleEvent(t) PROVE NoExit'
  BY <1>17 DEF ConsoleEvent
<1>18. ASSUME NEW t \in Stopper, Begin(t) PROVE NoExit'
  BY <1>18 DEF Begin, To
<1>19. ASSUME NEW t \in Stopper, Launch(t) PROVE NoExit'
  BY <1>19 DEF Launch, To
<1>20. ASSUME NEW t \in Stopper, LeaveToSystem(t) PROVE NoExit'
  BY <1>20 DEF LeaveToSystem, To, Report
<1>21. ASSUME NEW t \in Stopper, StopWorkerEnds(t) PROVE NoExit'
  BY <1>21 DEF StopWorkerEnds, ExitCodes, To
<1>22. ASSUME NEW t \in Stopper, Announce(t) PROVE NoExit'
  BY <1>22 DEF Announce, To, Report
<1>23. ASSUME NEW t \in Stopper, EndWorker(t) PROVE NoExit'
  BY <1>23 DEF EndWorker, KilledCodes, To, NoReport
<1>24. ASSUME NEW t \in Stopper, SetShutdownEvent(t) PROVE NoExit'
  BY <1>24 DEF SetShutdownEvent, To
<1>25. ASSUME NEW c \in {0, 1}, ExitHooks(c) PROVE NoExit'
  BY <1>25 DEF ExitHooks, HookReports, ReportFinal
<1>26. CASE UNCHANGED vars
  BY <1>26 DEF vars
<1> QED
  BY <1>1, <1>2, <1>3, <1>4, <1>5, <1>6, <1>7, <1>8, <1>9, <1>10, <1>11, <1>12,
     <1>13, <1>14, <1>15, <1>16, <1>17, <1>18, <1>19, <1>20, <1>21, <1>22, <1>23, <1>24,
     <1>25, <1>26
  DEF Next, MainStep, StopStep

(* what is said during a start, *)
LEMMA StartSaidKept ==
  ASSUME ProcrunAssumption, PrInv, Asked, Ordered, Orderly(config'), main' # "off", [Next]_vars
  PROVE  StartSaid'
<1> USE Reporters, OrderlyFaults DEF PrInv, PrTypeOK, Structure, Fresh, Idle, WorkerWaitedFor,
        reportVars, Call, At, Asked, BeforeRunning, RunningOnce, OneStop, OneEvent, ControlFree,
        Ordered, NoExit, StartSaid, StopSaid, AcceptSaid, EndSaid, LastReport, Says, Pending
<1>1. CASE ScmStart
  BY <1>1, NobodyReports DEF ScmStart
<1>2. CASE Exit
  BY <1>2 DEF Exit
<1>3. CASE Prepare
  BY <1>3, SMTT(60) DEF Prepare, Report
<1>4. CASE ServiceStart
  <2>1. CASE worker' = "running" /\ main' = "run" /\ UNCHANGED reportVars
    BY <1>4, <2>1 DEF ServiceStart
  <2>2. CASE Call("main", "STOPPED", TRUE) /\ main' = "done"
    BY <1>4, <2>2 DEF ServiceStart
  <2> QED
    BY <1>4, <2>1, <2>2, StartCases
<1>5. CASE ReportRunning
  BY <1>5 DEF ReportRunning, Report
<1>6. CASE AfterWorker
  BY <1>6 DEF AfterWorker, WorkerEnded, StopKnown, Report
<1>7. CASE AwaitEvent
  BY <1>7 DEF AwaitEvent, Signalled, TimesOut, Report
<1>8. CASE DestroyInTime
  BY <1>8 DEF DestroyInTime
<1>9. CASE DestroyAtLast
  BY <1>9 DEF DestroyAtLast, Report
<1>10. CASE ReportStopped
  BY <1>10 DEF ReportStopped, ReportFinal
<1>11. CASE Interrogate
  BY <1>11 DEF Interrogate
<1>12. CASE WorkerEnds
  BY <1>12 DEF WorkerEnds, ExitCodes
<1>13. CASE WorkerExits
  BY <1>13 DEF WorkerExits
<1>14. ASSUME NEW r \in Reporter, Store(r) PROVE StartSaid'
  <2>1. CASE r = "main" /\ main \in {"prepare", "start", "run"}
    BY <1>14, <2>1 DEF Store
  <2>2. CASE r = "main" /\ main = "wait"
    BY <1>14, <2>2 DEF Store
  <2>3. CASE r = "main" /\ main \in {"event", "minute", "destroy", "stop"}
    BY <1>14, <2>3 DEF Store
  <2>4. CASE r = "main" /\ main = "done"
    BY <1>14, <2>4 DEF Store
  <2>5. CASE r \in Stopper /\ main = "wait" /\ Idle("main")
    BY <1>14, <2>5 DEF Store
  <2>6. CASE r \in Stopper /\ main = "event"
    BY <1>14, <2>6 DEF Store
  <2>7. Orderly(config) /\ main # "off" /\ ~Idle(r)
    BY <1>14 DEF Store
  <2> QED
    BY <2>1, <2>2, <2>3, <2>4, <2>5, <2>6, <2>7, WhoReports
<1>15. ASSUME NEW r \in Reporter, Send(r) PROVE StartSaid'
  <2>1. CASE r = "main" /\ main \in {"prepare", "start", "run"}
    BY <1>15, <2>1 DEF Send, NoReport
  <2>2. CASE r = "main" /\ main = "wait"
    BY <1>15, <2>2 DEF Send, NoReport
  <2>3. CASE r = "main" /\ main \in {"event", "minute", "destroy", "stop"}
    BY <1>15, <2>3 DEF Send, NoReport
  <2>4. CASE r = "main" /\ main = "done"
    BY <1>15, <2>4 DEF Send, NoReport
  <2>5. CASE r \in Stopper /\ main = "wait" /\ Idle("main")
    BY <1>15, <2>5 DEF Send, NoReport
  <2>6. CASE r \in Stopper /\ main = "event"
    BY <1>15, <2>6 DEF Send, NoReport
  <2>7. Orderly(config) /\ main # "off" /\ ~Idle(r)
    BY <1>15 DEF Send, NoReport
  <2> QED
    BY <2>1, <2>2, <2>3, <2>4, <2>5, <2>6, <2>7, WhoReports
<1>16. ASSUME NEW t \in Stopper, ScmStop(t) PROVE StartSaid'
  <2>1. told.accept /\ Orderly(config) /\ main # "off"
    BY <1>16 DEF ScmStop
  <2>2. told.state = "RUNNING" /\ event = "null" /\ \A u \in Stopper : pc[u] = "idle" /\ Idle(u)
    BY <1>16, <2>1 DEF ScmStop
  <2>3. main = "wait" /\ Idle("main") /\ worker = "running"
    BY <2>1, <2>2 DEF MainStates
  <2> QED
    BY <1>16, <2>1, <2>2, <2>3 DEF ScmStop, Report
<1>17. ASSUME NEW t \in Stopper, ConsoleEvent(t) PROVE StartSaid'
  BY <1>17 DEF ConsoleEvent
<1>18. ASSUME NEW t \in Stopper, Begin(t) PROVE StartSaid'
  BY <1>18 DEF Begin, To
<1>19. ASSUME NEW t \in Stopper, Launch(t) PROVE StartSaid'
  BY <1>19 DEF Launch, To
<1>20. ASSUME NEW t \in Stopper, LeaveToSystem(t) PROVE StartSaid'
  BY <1>20 DEF LeaveToSystem, To, Report
<1>21. ASSUME NEW t \in Stopper, StopWorkerEnds(t) PROVE StartSaid'
  BY <1>21 DEF StopWorkerEnds, ExitCodes, To
<1>22. ASSUME NEW t \in Stopper, Announce(t) PROVE StartSaid'
  BY <1>22 DEF Announce, To, Report
<1>23. ASSUME NEW t \in Stopper, EndWorker(t) PROVE StartSaid'
  BY <1>23 DEF EndWorker, KilledCodes, To, NoReport
<1>24. ASSUME NEW t \in Stopper, SetShutdownEvent(t) PROVE StartSaid'
  BY <1>24 DEF SetShutdownEvent, To
<1>25. ASSUME NEW c \in {0, 1}, ExitHooks(c) PROVE StartSaid'
  BY <1>25 DEF ExitHooks, HookReports, ReportFinal
<1>26. CASE UNCHANGED vars
  BY <1>26 DEF vars
<1> QED
  BY <1>1, <1>2, <1>3, <1>4, <1>5, <1>6, <1>7, <1>8, <1>9, <1>10, <1>11, <1>12,
     <1>13, <1>14, <1>15, <1>16, <1>17, <1>18, <1>19, <1>20, <1>21, <1>22, <1>23, <1>24,
     <1>25, <1>26
  DEF Next, MainStep, StopStep

(* during a stop, *)
LEMMA StopSaidKept ==
  ASSUME ProcrunAssumption, PrInv, Asked, Ordered, Orderly(config'), main' # "off", [Next]_vars
  PROVE  StopSaid'
<1> USE Reporters, OrderlyFaults DEF PrInv, PrTypeOK, Structure, Fresh, Idle, WorkerWaitedFor,
        reportVars, Call, At, Asked, BeforeRunning, RunningOnce, OneStop, OneEvent, ControlFree,
        Ordered, NoExit, StartSaid, StopSaid, AcceptSaid, EndSaid, LastReport, Says, Pending
<1>1. CASE ScmStart
  BY <1>1, NobodyReports DEF ScmStart
<1>2. CASE Exit
  BY <1>2 DEF Exit
<1>3. CASE Prepare
  BY <1>3 DEF Prepare, Report
<1>4. CASE ServiceStart
  <2>1. CASE worker' = "running" /\ main' = "run" /\ UNCHANGED reportVars
    BY <1>4, <2>1 DEF ServiceStart
  <2>2. CASE Call("main", "STOPPED", TRUE) /\ main' = "done"
    BY <1>4, <2>2 DEF ServiceStart
  <2> QED
    BY <1>4, <2>1, <2>2, StartCases
<1>5. CASE ReportRunning
  BY <1>5 DEF ReportRunning, Report
<1>6. CASE AfterWorker
  BY <1>6 DEF AfterWorker, WorkerEnded, StopKnown, Report
<1>7. CASE AwaitEvent
  BY <1>7 DEF AwaitEvent, Signalled, TimesOut, Report
<1>8. CASE DestroyInTime
  BY <1>8 DEF DestroyInTime
<1>9. CASE DestroyAtLast
  BY <1>9 DEF DestroyAtLast, Report
<1>10. CASE ReportStopped
  BY <1>10 DEF ReportStopped, ReportFinal
<1>11. CASE Interrogate
  BY <1>11 DEF Interrogate
<1>12. CASE WorkerEnds
  BY <1>12 DEF WorkerEnds, ExitCodes
<1>13. CASE WorkerExits
  BY <1>13 DEF WorkerExits
<1>14. ASSUME NEW r \in Reporter, Store(r) PROVE StopSaid'
  <2>1. CASE r = "main" /\ main \in {"prepare", "start", "run"}
    BY <1>14, <2>1 DEF Store
  <2>2. CASE r = "main" /\ main = "wait"
    BY <1>14, <2>2 DEF Store
  <2>3. CASE r = "main" /\ main \in {"event", "minute", "destroy", "stop"}
    BY <1>14, <2>3 DEF Store
  <2>4. CASE r = "main" /\ main = "done"
    BY <1>14, <2>4 DEF Store
  <2>5. CASE r \in Stopper /\ main = "wait" /\ Idle("main")
    BY <1>14, <2>5 DEF Store
  <2>6. CASE r \in Stopper /\ main = "event"
    BY <1>14, <2>6 DEF Store
  <2>7. Orderly(config) /\ main # "off" /\ ~Idle(r)
    BY <1>14 DEF Store
  <2> QED
    BY <2>1, <2>2, <2>3, <2>4, <2>5, <2>6, <2>7, WhoReports
<1>15. ASSUME NEW r \in Reporter, Send(r) PROVE StopSaid'
  <2>1. CASE r = "main" /\ main \in {"prepare", "start", "run"}
    BY <1>15, <2>1 DEF Send, NoReport
  <2>2. CASE r = "main" /\ main = "wait"
    BY <1>15, <2>2 DEF Reporter, Send, NoReport
  <2>3. CASE r = "main" /\ main \in {"event", "minute", "destroy", "stop"}
    BY <1>15, <2>3 DEF Send, NoReport
  <2>4. CASE r = "main" /\ main = "done"
    BY <1>15, <2>4 DEF Send, NoReport
  <2>5. CASE r \in Stopper /\ main = "wait" /\ Idle("main")
    BY <1>15, <2>5 DEF Send, NoReport
  <2>6. CASE r \in Stopper /\ main = "event"
    BY <1>15, <2>6 DEF Send, NoReport
  <2>7. Orderly(config) /\ main # "off" /\ ~Idle(r)
    BY <1>15 DEF Send, NoReport
  <2> QED
    BY <2>1, <2>2, <2>3, <2>4, <2>5, <2>6, <2>7, WhoReports
<1>16. ASSUME NEW t \in Stopper, ScmStop(t) PROVE StopSaid'
  <2>1. told.accept /\ Orderly(config) /\ main # "off"
    BY <1>16 DEF ScmStop
  <2>2. told.state = "RUNNING" /\ event = "null" /\ \A u \in Stopper : pc[u] = "idle" /\ Idle(u)
    BY <1>16, <2>1 DEF ScmStop
  <2>3. main = "wait" /\ Idle("main") /\ worker = "running"
    BY <2>1, <2>2 DEF MainStates
  <2> QED
    BY <1>16, <2>1, <2>2, <2>3 DEF ScmStop, Report
<1>17. ASSUME NEW t \in Stopper, ConsoleEvent(t) PROVE StopSaid'
  BY <1>17 DEF ConsoleEvent
<1>18. ASSUME NEW t \in Stopper, Begin(t) PROVE StopSaid'
  BY <1>18 DEF Begin, To
<1>19. ASSUME NEW t \in Stopper, Launch(t) PROVE StopSaid'
  BY <1>19 DEF Launch, To
<1>20. ASSUME NEW t \in Stopper, LeaveToSystem(t) PROVE StopSaid'
  BY <1>20 DEF LeaveToSystem, To, Report
<1>21. ASSUME NEW t \in Stopper, StopWorkerEnds(t) PROVE StopSaid'
  BY <1>21 DEF StopWorkerEnds, ExitCodes, To
<1>22. ASSUME NEW t \in Stopper, Announce(t) PROVE StopSaid'
  BY <1>22 DEF Announce, To, Report
<1>23. ASSUME NEW t \in Stopper, EndWorker(t) PROVE StopSaid'
  BY <1>23 DEF EndWorker, KilledCodes, To, NoReport
<1>24. ASSUME NEW t \in Stopper, SetShutdownEvent(t) PROVE StopSaid'
  BY <1>24 DEF SetShutdownEvent, To
<1>25. ASSUME NEW c \in {0, 1}, ExitHooks(c) PROVE StopSaid'
  BY <1>25 DEF ExitHooks, HookReports, ReportFinal
<1>26. CASE UNCHANGED vars
  BY <1>26 DEF vars
<1> QED
  BY <1>1, <1>2, <1>3, <1>4, <1>5, <1>6, <1>7, <1>8, <1>9, <1>10, <1>11, <1>12,
     <1>13, <1>14, <1>15, <1>16, <1>17, <1>18, <1>19, <1>20, <1>21, <1>22, <1>23, <1>24,
     <1>25, <1>26
  DEF Next, MainStep, StopStep

(* of the controls, *)
LEMMA AcceptSaidKept ==
  ASSUME ProcrunAssumption, PrInv, Asked, Ordered, Orderly(config'), main' # "off", [Next]_vars
  PROVE  AcceptSaid'
<1> USE Reporters, OrderlyFaults DEF PrInv, PrTypeOK, Structure, Fresh, Idle, WorkerWaitedFor,
        reportVars, Call, At, Asked, BeforeRunning, RunningOnce, OneStop, OneEvent, ControlFree,
        Ordered, NoExit, StartSaid, StopSaid, AcceptSaid, EndSaid, LastReport, Says, Pending
<1>1. CASE ScmStart
  BY <1>1, NobodyReports DEF ScmStart
<1>2. CASE Exit
  BY <1>2 DEF Exit
<1>3. CASE Prepare
  BY <1>3 DEF Prepare, Report
<1>4. CASE ServiceStart
  <2>1. CASE worker' = "running" /\ main' = "run" /\ UNCHANGED reportVars
    BY <1>4, <2>1 DEF ServiceStart
  <2>2. CASE Call("main", "STOPPED", TRUE) /\ main' = "done"
    BY <1>4, <2>2 DEF ServiceStart
  <2> QED
    BY <1>4, <2>1, <2>2, StartCases
<1>5. CASE ReportRunning
  BY <1>5 DEF ReportRunning, Report
<1>6. CASE AfterWorker
  BY <1>6 DEF AfterWorker, WorkerEnded, StopKnown, Report
<1>7. CASE AwaitEvent
  BY <1>7 DEF AwaitEvent, Signalled, TimesOut, Report
<1>8. CASE DestroyInTime
  BY <1>8 DEF DestroyInTime
<1>9. CASE DestroyAtLast
  BY <1>9 DEF DestroyAtLast, Report
<1>10. CASE ReportStopped
  BY <1>10 DEF ReportStopped, ReportFinal
<1>11. CASE Interrogate
  BY <1>11 DEF Interrogate
<1>12. CASE WorkerEnds
  BY <1>12 DEF WorkerEnds, ExitCodes
<1>13. CASE WorkerExits
  BY <1>13 DEF WorkerExits
<1>14. ASSUME NEW r \in Reporter, Store(r) PROVE AcceptSaid'
  <2>1. CASE r = "main" /\ main \in {"prepare", "start", "run"}
    BY <1>14, <2>1 DEF Store
  <2>2. CASE r = "main" /\ main = "wait"
    BY <1>14, <2>2 DEF Reporter, Store
  <2>3. CASE r = "main" /\ main \in {"event", "minute", "destroy", "stop"}
    BY <1>14, <2>3 DEF Store
  <2>4. CASE r = "main" /\ main = "done"
    BY <1>14, <2>4 DEF Store
  <2>5. CASE r \in Stopper /\ main = "wait" /\ Idle("main")
    BY <1>14, <2>5 DEF Store
  <2>6. CASE r \in Stopper /\ main = "event"
    BY <1>14, <2>6 DEF Store
  <2>7. Orderly(config) /\ main # "off" /\ ~Idle(r)
    BY <1>14 DEF Store
  <2> QED
    BY <2>1, <2>2, <2>3, <2>4, <2>5, <2>6, <2>7, WhoReports
<1>15. ASSUME NEW r \in Reporter, Send(r) PROVE AcceptSaid'
  <2>1. CASE r = "main" /\ main \in {"prepare", "start", "run"}
    BY <1>15, <2>1 DEF Send, NoReport
  <2>2. CASE r = "main" /\ main = "wait"
    BY <1>15, <2>2 DEF Send, NoReport
  <2>3. CASE r = "main" /\ main \in {"event", "minute", "destroy", "stop"}
    BY <1>15, <2>3 DEF Send, NoReport
  <2>4. CASE r = "main" /\ main = "done"
    BY <1>15, <2>4 DEF Send, NoReport
  <2>5. CASE r \in Stopper /\ main = "wait" /\ Idle("main")
    BY <1>15, <2>5 DEF Send, NoReport
  <2>6. CASE r \in Stopper /\ main = "event"
    BY <1>15, <2>6 DEF Send, NoReport
  <2>7. Orderly(config) /\ main # "off" /\ ~Idle(r)
    BY <1>15 DEF Send, NoReport
  <2> QED
    BY <2>1, <2>2, <2>3, <2>4, <2>5, <2>6, <2>7, WhoReports
<1>16. ASSUME NEW t \in Stopper, ScmStop(t) PROVE AcceptSaid'
  <2>1. told.accept /\ Orderly(config) /\ main # "off"
    BY <1>16 DEF ScmStop
  <2>2. told.state = "RUNNING" /\ event = "null" /\ \A u \in Stopper : pc[u] = "idle" /\ Idle(u)
    BY <1>16, <2>1 DEF ScmStop
  <2>3. main = "wait" /\ Idle("main") /\ worker = "running"
    BY <2>1, <2>2 DEF MainStates
  <2> QED
    BY <1>16, <2>1, <2>2, <2>3 DEF ScmStop, Report
<1>17. ASSUME NEW t \in Stopper, ConsoleEvent(t) PROVE AcceptSaid'
  BY <1>17 DEF ConsoleEvent
<1>18. ASSUME NEW t \in Stopper, Begin(t) PROVE AcceptSaid'
  BY <1>18 DEF Begin, To
<1>19. ASSUME NEW t \in Stopper, Launch(t) PROVE AcceptSaid'
  BY <1>19 DEF Launch, To
<1>20. ASSUME NEW t \in Stopper, LeaveToSystem(t) PROVE AcceptSaid'
  BY <1>20 DEF LeaveToSystem, To, Report
<1>21. ASSUME NEW t \in Stopper, StopWorkerEnds(t) PROVE AcceptSaid'
  BY <1>21 DEF StopWorkerEnds, ExitCodes, To
<1>22. ASSUME NEW t \in Stopper, Announce(t) PROVE AcceptSaid'
  BY <1>22 DEF Announce, To, Report
<1>23. ASSUME NEW t \in Stopper, EndWorker(t) PROVE AcceptSaid'
  BY <1>23 DEF EndWorker, KilledCodes, To, NoReport
<1>24. ASSUME NEW t \in Stopper, SetShutdownEvent(t) PROVE AcceptSaid'
  BY <1>24 DEF SetShutdownEvent, To
<1>25. ASSUME NEW c \in {0, 1}, ExitHooks(c) PROVE AcceptSaid'
  BY <1>25 DEF ExitHooks, HookReports, ReportFinal
<1>26. CASE UNCHANGED vars
  BY <1>26 DEF vars
<1> QED
  BY <1>1, <1>2, <1>3, <1>4, <1>5, <1>6, <1>7, <1>8, <1>9, <1>10, <1>11, <1>12,
     <1>13, <1>14, <1>15, <1>16, <1>17, <1>18, <1>19, <1>20, <1>21, <1>22, <1>23, <1>24,
     <1>25, <1>26
  DEF Next, MainStep, StopStep

(* and at the end, *)
LEMMA EndSaidKept ==
  ASSUME ProcrunAssumption, PrInv, Asked, Ordered, Orderly(config'), main' # "off", [Next]_vars
  PROVE  EndSaid'
<1> USE Reporters, OrderlyFaults DEF PrInv, PrTypeOK, Structure, Fresh, Idle, WorkerWaitedFor,
        reportVars, Call, At, Asked, BeforeRunning, RunningOnce, OneStop, OneEvent, ControlFree,
        Ordered, NoExit, StartSaid, StopSaid, AcceptSaid, EndSaid, LastReport, Says, Pending
<1>1. CASE ScmStart
  BY <1>1, NobodyReports DEF ScmStart
<1>2. CASE Exit
  BY <1>2 DEF Exit
<1>3. CASE Prepare
  BY <1>3 DEF Prepare, Report
<1>4. CASE ServiceStart
  <2>1. CASE worker' = "running" /\ main' = "run" /\ UNCHANGED reportVars
    BY <1>4, <2>1 DEF ServiceStart
  <2>2. CASE Call("main", "STOPPED", TRUE) /\ main' = "done"
    BY <1>4, <2>2 DEF ServiceStart
  <2> QED
    BY <1>4, <2>1, <2>2, StartCases
<1>5. CASE ReportRunning
  BY <1>5 DEF ReportRunning, Report
<1>6. CASE AfterWorker
  BY <1>6 DEF AfterWorker, WorkerEnded, StopKnown, Report
<1>7. CASE AwaitEvent
  BY <1>7 DEF AwaitEvent, Signalled, TimesOut, Report
<1>8. CASE DestroyInTime
  BY <1>8 DEF DestroyInTime
<1>9. CASE DestroyAtLast
  BY <1>9 DEF DestroyAtLast, Report
<1>10. CASE ReportStopped
  BY <1>10 DEF ReportStopped, ReportFinal
<1>11. CASE Interrogate
  BY <1>11 DEF Interrogate
<1>12. CASE WorkerEnds
  BY <1>12 DEF WorkerEnds, ExitCodes
<1>13. CASE WorkerExits
  BY <1>13 DEF WorkerExits
<1>14. ASSUME NEW r \in Reporter, Store(r) PROVE EndSaid'
  <2>1. CASE r = "main" /\ main \in {"prepare", "start", "run"}
    BY <1>14, <2>1 DEF Store
  <2>2. CASE r = "main" /\ main = "wait"
    BY <1>14, <2>2 DEF Store
  <2>3. CASE r = "main" /\ main \in {"event", "minute", "destroy", "stop"}
    BY <1>14, <2>3 DEF Store
  <2>4. CASE r = "main" /\ main = "done"
    BY <1>14, <2>4 DEF Store
  <2>5. CASE r \in Stopper /\ main = "wait" /\ Idle("main")
    BY <1>14, <2>5 DEF Store
  <2>6. CASE r \in Stopper /\ main = "event"
    BY <1>14, <2>6 DEF Store
  <2>7. Orderly(config) /\ main # "off" /\ ~Idle(r)
    BY <1>14 DEF Store
  <2> QED
    BY <2>1, <2>2, <2>3, <2>4, <2>5, <2>6, <2>7, WhoReports
<1>15. ASSUME NEW r \in Reporter, Send(r) PROVE EndSaid'
  <2>1. CASE r = "main" /\ main \in {"prepare", "start", "run"}
    BY <1>15, <2>1 DEF Send, NoReport
  <2>2. CASE r = "main" /\ main = "wait"
    BY <1>15, <2>2 DEF Send, NoReport
  <2>3. CASE r = "main" /\ main \in {"event", "minute", "destroy", "stop"}
    BY <1>15, <2>3 DEF Send, NoReport
  <2>4. CASE r = "main" /\ main = "done"
    BY <1>15, <2>4 DEF Send, NoReport
  <2>5. CASE r \in Stopper /\ main = "wait" /\ Idle("main")
    BY <1>15, <2>5 DEF Send, NoReport
  <2>6. CASE r \in Stopper /\ main = "event"
    BY <1>15, <2>6 DEF Send, NoReport
  <2>7. Orderly(config) /\ main # "off" /\ ~Idle(r)
    BY <1>15 DEF Send, NoReport
  <2> QED
    BY <2>1, <2>2, <2>3, <2>4, <2>5, <2>6, <2>7, WhoReports
<1>16. ASSUME NEW t \in Stopper, ScmStop(t) PROVE EndSaid'
  <2>1. told.accept /\ Orderly(config) /\ main # "off"
    BY <1>16 DEF ScmStop
  <2>2. told.state = "RUNNING" /\ event = "null" /\ \A u \in Stopper : pc[u] = "idle" /\ Idle(u)
    BY <1>16, <2>1 DEF ScmStop
  <2>3. main = "wait" /\ Idle("main") /\ worker = "running"
    BY <2>1, <2>2 DEF MainStates
  <2> QED
    BY <1>16, <2>1, <2>2, <2>3 DEF ScmStop, Report
<1>17. ASSUME NEW t \in Stopper, ConsoleEvent(t) PROVE EndSaid'
  BY <1>17 DEF ConsoleEvent
<1>18. ASSUME NEW t \in Stopper, Begin(t) PROVE EndSaid'
  BY <1>18 DEF Begin, To
<1>19. ASSUME NEW t \in Stopper, Launch(t) PROVE EndSaid'
  BY <1>19 DEF Launch, To
<1>20. ASSUME NEW t \in Stopper, LeaveToSystem(t) PROVE EndSaid'
  BY <1>20 DEF LeaveToSystem, To, Report
<1>21. ASSUME NEW t \in Stopper, StopWorkerEnds(t) PROVE EndSaid'
  BY <1>21 DEF StopWorkerEnds, ExitCodes, To
<1>22. ASSUME NEW t \in Stopper, Announce(t) PROVE EndSaid'
  BY <1>22 DEF Announce, To, Report
<1>23. ASSUME NEW t \in Stopper, EndWorker(t) PROVE EndSaid'
  BY <1>23 DEF EndWorker, KilledCodes, To, NoReport
<1>24. ASSUME NEW t \in Stopper, SetShutdownEvent(t) PROVE EndSaid'
  BY <1>24 DEF SetShutdownEvent, To
<1>25. ASSUME NEW c \in {0, 1}, ExitHooks(c) PROVE EndSaid'
  BY <1>25 DEF ExitHooks, HookReports, ReportFinal
<1>26. CASE UNCHANGED vars
  BY <1>26 DEF vars
<1> QED
  BY <1>1, <1>2, <1>3, <1>4, <1>5, <1>6, <1>7, <1>8, <1>9, <1>10, <1>11, <1>12,
     <1>13, <1>14, <1>15, <1>16, <1>17, <1>18, <1>19, <1>20, <1>21, <1>22, <1>23, <1>24,
     <1>25, <1>26
  DEF Next, MainStep, StopStep

(* and that the stopping thread has reported before. *)
LEMMA LastReportKept ==
  ASSUME ProcrunAssumption, PrInv, Asked, Ordered, Orderly(config'), main' # "off", [Next]_vars
  PROVE  LastReport'
<1> USE Reporters, OrderlyFaults DEF PrInv, PrTypeOK, Structure, Fresh, Idle, WorkerWaitedFor,
        reportVars, Call, At, Asked, BeforeRunning, RunningOnce, OneStop, OneEvent, ControlFree,
        Ordered, NoExit, StartSaid, StopSaid, AcceptSaid, EndSaid, LastReport, Says, Pending
<1>1. CASE ScmStart
  BY <1>1, NobodyReports DEF ScmStart
<1>2. CASE Exit
  BY <1>2 DEF Exit
<1>3. CASE Prepare
  BY <1>3 DEF Prepare, Report
<1>4. CASE ServiceStart
  <2>1. CASE worker' = "running" /\ main' = "run" /\ UNCHANGED reportVars
    BY <1>4, <2>1 DEF ServiceStart
  <2>2. CASE Call("main", "STOPPED", TRUE) /\ main' = "done"
    BY <1>4, <2>2 DEF ServiceStart
  <2> QED
    BY <1>4, <2>1, <2>2, StartCases
<1>5. CASE ReportRunning
  BY <1>5 DEF ReportRunning, Report
<1>6. CASE AfterWorker
  BY <1>6 DEF AfterWorker, WorkerEnded, StopKnown, Report
<1>7. CASE AwaitEvent
  BY <1>7 DEF AwaitEvent, Signalled, TimesOut, Report
<1>8. CASE DestroyInTime
  BY <1>8 DEF DestroyInTime
<1>9. CASE DestroyAtLast
  BY <1>9 DEF DestroyAtLast, Report
<1>10. CASE ReportStopped
  BY <1>10 DEF ReportStopped, ReportFinal
<1>11. CASE Interrogate
  BY <1>11 DEF Interrogate
<1>12. CASE WorkerEnds
  BY <1>12 DEF WorkerEnds, ExitCodes
<1>13. CASE WorkerExits
  BY <1>13 DEF WorkerExits
<1>14. ASSUME NEW r \in Reporter, Store(r) PROVE LastReport'
  <2>1. CASE r = "main" /\ main \in {"prepare", "start", "run"}
    BY <1>14, <2>1 DEF Store
  <2>2. CASE r = "main" /\ main = "wait"
    BY <1>14, <2>2 DEF Store
  <2>3. CASE r = "main" /\ main \in {"event", "minute", "destroy", "stop"}
    BY <1>14, <2>3 DEF Store
  <2>4. CASE r = "main" /\ main = "done"
    BY <1>14, <2>4 DEF Store
  <2>5. CASE r \in Stopper /\ main = "wait" /\ Idle("main")
    BY <1>14, <2>5, SMTT(60) DEF Store
  <2>6. CASE r \in Stopper /\ main = "event"
    BY <1>14, <2>6 DEF Store
  <2>7. Orderly(config) /\ main # "off" /\ ~Idle(r)
    BY <1>14 DEF Store
  <2> QED
    BY <2>1, <2>2, <2>3, <2>4, <2>5, <2>6, <2>7, WhoReports
<1>15. ASSUME NEW r \in Reporter, Send(r) PROVE LastReport'
  <2>1. CASE r = "main" /\ main \in {"prepare", "start", "run"}
    BY <1>15, <2>1 DEF Send, NoReport
  <2>2. CASE r = "main" /\ main = "wait"
    BY <1>15, <2>2 DEF Send, NoReport
  <2>3. CASE r = "main" /\ main \in {"event", "minute", "destroy", "stop"}
    BY <1>15, <2>3 DEF Send, NoReport
  <2>4. CASE r = "main" /\ main = "done"
    BY <1>15, <2>4 DEF Send, NoReport
  <2>5. CASE r \in Stopper /\ main = "wait" /\ Idle("main")
    BY <1>15, <2>5 DEF Send, NoReport
  <2>6. CASE r \in Stopper /\ main = "event"
    BY <1>15, <2>6 DEF Send, NoReport
  <2>7. Orderly(config) /\ main # "off" /\ ~Idle(r)
    BY <1>15 DEF Send, NoReport
  <2> QED
    BY <2>1, <2>2, <2>3, <2>4, <2>5, <2>6, <2>7, WhoReports
<1>16. ASSUME NEW t \in Stopper, ScmStop(t) PROVE LastReport'
  <2>1. told.accept /\ Orderly(config) /\ main # "off"
    BY <1>16 DEF ScmStop
  <2>2. told.state = "RUNNING" /\ event = "null" /\ \A u \in Stopper : pc[u] = "idle" /\ Idle(u)
    BY <1>16, <2>1 DEF ScmStop
  <2>3. main = "wait" /\ Idle("main") /\ worker = "running"
    BY <2>1, <2>2 DEF MainStates
  <2> QED
    BY <1>16, <2>1, <2>2, <2>3 DEF ScmStop, Report
<1>17. ASSUME NEW t \in Stopper, ConsoleEvent(t) PROVE LastReport'
  BY <1>17 DEF ConsoleEvent
<1>18. ASSUME NEW t \in Stopper, Begin(t) PROVE LastReport'
  BY <1>18 DEF Begin, To
<1>19. ASSUME NEW t \in Stopper, Launch(t) PROVE LastReport'
  BY <1>19 DEF Launch, To
<1>20. ASSUME NEW t \in Stopper, LeaveToSystem(t) PROVE LastReport'
  BY <1>20 DEF LeaveToSystem, To, Report
<1>21. ASSUME NEW t \in Stopper, StopWorkerEnds(t) PROVE LastReport'
  BY <1>21 DEF StopWorkerEnds, ExitCodes, To
<1>22. ASSUME NEW t \in Stopper, Announce(t) PROVE LastReport'
  <2>1. Orderly(config) /\ main # "off" /\ main \in {"wait", "event"} /\ pc[t] \in {"announce", "hurry"}
    BY <1>22 DEF Announce, To
  <2>2. CASE config.stop = "jvm"
    BY <1>22, <2>1, <2>2 DEF Announce, To, Report
  <2>3. CASE config.stop = "none"
    BY <1>22, <2>1, <2>3, SMTT(20) DEF Announce, To, Report
  <2> QED
    BY <2>1, <2>2, <2>3
<1>23. ASSUME NEW t \in Stopper, EndWorker(t) PROVE LastReport'
  <2>1. /\ Orderly(config) /\ main # "off" /\ pc[t] \in {"wait", "close"} /\ Idle(t)
        /\ \A u \in Stopper : u # t => pc[u] = "idle" /\ Idle(u)
        /\ report' = report /\ UNCHANGED <<config, shared, told, main, event>>
        /\ pc' = [pc EXCEPT ![t] = "set"]
    BY <1>23 DEF EndWorker, To
  <2>2. main = "wait" => Idle("main") /\ told.state = "STOP_PENDING"
    BY <2>1
  <2>3. main \in {"wait", "event", "minute", "destroy", "stop", "done"}
    BY <2>1 DEF MainStates
  <2>4. CASE config.stop = "jvm"
    BY <2>1, <2>2, <2>3, <2>4
  <2>5. CASE config.stop = "none"
    BY <2>1, <2>2, <2>3, <2>5
  <2> QED
    BY <2>1, <2>4, <2>5
<1>24. ASSUME NEW t \in Stopper, SetShutdownEvent(t) PROVE LastReport'
  BY <1>24 DEF SetShutdownEvent, To
<1>25. ASSUME NEW c \in {0, 1}, ExitHooks(c) PROVE LastReport'
  BY <1>25 DEF ExitHooks, HookReports, ReportFinal
<1>26. CASE UNCHANGED vars
  BY <1>26 DEF vars
<1> QED
  BY <1>1, <1>2, <1>3, <1>4, <1>5, <1>6, <1>7, <1>8, <1>9, <1>10, <1>11, <1>12,
     <1>13, <1>14, <1>15, <1>16, <1>17, <1>18, <1>19, <1>20, <1>21, <1>22, <1>23, <1>24,
     <1>25, <1>26
  DEF Next, MainStep, StopStep

LEMMA OrderedKept ==
  ASSUME ProcrunAssumption, PrInv, Asked, Ordered, [Next]_vars
  PROVE  Ordered'
<1> SUFFICES ASSUME Orderly(config'), main' # "off"
             PROVE  NoExit' /\ StartSaid' /\ StopSaid' /\ AcceptSaid' /\ EndSaid' /\ LastReport'
  BY DEF Ordered, Orderly
<1> QED
  BY NoExitKept, StartSaidKept, StopSaidKept, AcceptSaidKept, EndSaidKept, LastReportKept

(* A step is one that ServiceLife allows, or one that the service manager does
   not see: only Send, with the process's start and end, changes what it is
   told. *)
LEMMA SendSeen ==
  ASSUME PrInv, Asked, Ordered, Orderly(config), main # "off",
         NEW r \in Reporter, Send(r)
  PROVE  /\ told' = shared
         /\ \/ told.state = "START_PENDING" /\ shared.state \in {"START_PENDING", "RUNNING"}
            \/ told.state = "START_PENDING" /\ shared.state = "STOPPED" /\ shared.error
            \/ told.state = "RUNNING" /\ shared.state \in {"RUNNING", "STOP_PENDING"}
            \/ told.state = "STOP_PENDING" /\ shared.state \in {"STOP_PENDING", "STOPPED"}
<1> USE Reporters, OrderlyFaults DEF PrInv, PrTypeOK, Structure, Idle, Asked, Ordered,
        NoExit, StartSaid, StopSaid, EndSaid, LastReport, Says, Pending
<1>1. told' = shared /\ report[r].step = "send" /\ ~Idle(r)
  BY DEF Send
<1>2. CASE r = "main" /\ main \in {"prepare", "start", "run"}
  BY <1>1, <1>2
<1>3. CASE r = "main" /\ main = "wait"
  BY <1>1, <1>3
<1>4. CASE r = "main" /\ main \in {"event", "minute", "destroy", "stop"}
  BY <1>1, <1>4
<1>5. CASE r = "main" /\ main = "done"
  BY <1>1, <1>5
<1>6. CASE r \in Stopper /\ main = "wait" /\ Idle("main")
  BY <1>1, <1>6
<1>7. CASE r \in Stopper /\ main = "event"
  BY <1>1, <1>7
<1> QED
  BY <1>1, <1>2, <1>3, <1>4, <1>5, <1>6, <1>7, WhoReports

(* Nothing else tells the service manager anything. *)
LEMMA ToldBySend ==
  ASSUME ProcrunAssumption, PrInv, [Next]_vars, ~ScmStart, ~Exit, \A r \in Reporter : ~Send(r)
  PROVE  told' = told /\ config' = config /\ (main # "off" <=> main' # "off")
<1> USE DEF reportVars, Call, At, Fresh, PrInv
<1>1. CASE ScmStart
  BY <1>1 DEF ScmStart
<1>2. CASE Exit
  BY <1>2 DEF Exit
<1>3. CASE Prepare
  BY <1>3 DEF Prepare, Report
<1>4. CASE ServiceStart
  BY <1>4 DEF ServiceStart, ReportFinal
<1>5. CASE ReportRunning
  BY <1>5 DEF ReportRunning, Report
<1>6. CASE AfterWorker
  BY <1>6 DEF AfterWorker, WorkerEnded, StopKnown, Report
<1>7. CASE AwaitEvent
  BY <1>7 DEF AwaitEvent, Signalled, TimesOut, Report
<1>8. CASE DestroyInTime
  BY <1>8 DEF DestroyInTime
<1>9. CASE DestroyAtLast
  BY <1>9 DEF DestroyAtLast, Report
<1>10. CASE ReportStopped
  BY <1>10 DEF ReportStopped, ReportFinal
<1>11. CASE Interrogate
  BY <1>11 DEF Interrogate
<1>12. CASE WorkerEnds
  BY <1>12 DEF WorkerEnds, ExitCodes
<1>13. CASE WorkerExits
  BY <1>13 DEF WorkerExits
<1>14. ASSUME NEW r \in Reporter, Store(r) PROVE told' = told /\ config' = config /\ (main # "off" <=> main' # "off")
  BY <1>14 DEF Store
<1>15. ASSUME NEW r \in Reporter, Send(r) PROVE told' = told /\ config' = config /\ (main # "off" <=> main' # "off")
  BY <1>15 DEF Send
<1>16. ASSUME NEW t \in Stopper, ScmStop(t) PROVE told' = told /\ config' = config /\ (main # "off" <=> main' # "off")
  BY <1>16 DEF ScmStop, Report
<1>17. ASSUME NEW t \in Stopper, ConsoleEvent(t) PROVE told' = told /\ config' = config /\ (main # "off" <=> main' # "off")
  BY <1>17 DEF ConsoleEvent
<1>18. ASSUME NEW t \in Stopper, Begin(t) PROVE told' = told /\ config' = config /\ (main # "off" <=> main' # "off")
  BY <1>18 DEF Begin, To
<1>19. ASSUME NEW t \in Stopper, Launch(t) PROVE told' = told /\ config' = config /\ (main # "off" <=> main' # "off")
  BY <1>19 DEF Launch, To
<1>20. ASSUME NEW t \in Stopper, LeaveToSystem(t) PROVE told' = told /\ config' = config /\ (main # "off" <=> main' # "off")
  BY <1>20 DEF LeaveToSystem, To, Report
<1>21. ASSUME NEW t \in Stopper, StopWorkerEnds(t) PROVE told' = told /\ config' = config /\ (main # "off" <=> main' # "off")
  BY <1>21 DEF StopWorkerEnds, ExitCodes, To
<1>22. ASSUME NEW t \in Stopper, Announce(t) PROVE told' = told /\ config' = config /\ (main # "off" <=> main' # "off")
  BY <1>22 DEF Announce, To, Report
<1>23. ASSUME NEW t \in Stopper, EndWorker(t) PROVE told' = told /\ config' = config /\ (main # "off" <=> main' # "off")
  BY <1>23 DEF EndWorker, KilledCodes, To
<1>24. ASSUME NEW t \in Stopper, SetShutdownEvent(t) PROVE told' = told /\ config' = config /\ (main # "off" <=> main' # "off")
  BY <1>24 DEF SetShutdownEvent, To
<1>25. ASSUME NEW c \in {0, 1}, ExitHooks(c) PROVE told' = told /\ config' = config /\ (main # "off" <=> main' # "off")
  BY <1>25 DEF ExitHooks, HookReports, ReportFinal
<1>26. CASE UNCHANGED vars
  BY <1>26 DEF vars
<1> QED
  BY <1>1, <1>2, <1>3, <1>4, <1>5, <1>6, <1>7, <1>8, <1>9, <1>10, <1>11, <1>12,
     <1>13, <1>14, <1>15, <1>16, <1>17, <1>18, <1>19, <1>20, <1>21, <1>22, <1>23, <1>24,
     <1>25, <1>26
  DEF Next, MainStep, StopStep

LEMMA LifeStep ==
  ASSUME ProcrunAssumption, PrInv, Asked, Ordered, [Next]_vars
  PROVE  [Life!Next]_(IF main # "off" /\ Orderly(config) THEN Seen ELSE "GONE")
<1> DEFINE seen == IF main # "off" /\ Orderly(config) THEN Seen ELSE "GONE"
<1> USE DEF Life!Next, Life!Launch, Life!Answer, Life!Stop, Life!Finish, Life!Leave, Life!Goes,
        Seen
<1>1. CASE ScmStart
  <2>1. main = "off" /\ main' = "prepare" /\ told'.state = "START_PENDING"
    BY <1>1 DEF ScmStart
  <2> QED
    BY <2>1
<1>2. CASE Exit
  <2>1. main # "off" /\ main' = "off" /\ config' = config
    BY <1>2 DEF Exit
  <2>2. Orderly(config) => told.state = "STOPPED"
    BY <1>2, <2>1 DEF Exit, Ordered, NoExit
  <2>3. seen' = "GONE"
    BY <2>1
  <2> QED
    BY <2>1, <2>2, <2>3
<1>3. ASSUME NEW r \in Reporter, Send(r) PROVE [Life!Next]_seen
  <2>1. config' = config /\ main' = main
    BY <1>3 DEF Send
  <2>2. CASE main # "off" /\ Orderly(config)
    <3>1. /\ told' = shared
          /\ \/ told.state = "START_PENDING" /\ shared.state \in {"START_PENDING", "RUNNING"}
             \/ told.state = "START_PENDING" /\ shared.state = "STOPPED" /\ shared.error
             \/ told.state = "RUNNING" /\ shared.state \in {"RUNNING", "STOP_PENDING"}
             \/ told.state = "STOP_PENDING" /\ shared.state \in {"STOP_PENDING", "STOPPED"}
      BY <1>3, <2>2, SendSeen
    <3>4. CASE told.state = "START_PENDING" /\ shared.state \in {"START_PENDING", "RUNNING"}
      BY <2>1, <2>2, <3>1, <3>4
    <3>5. CASE told.state = "START_PENDING" /\ shared.state = "STOPPED" /\ shared.error
      BY <2>1, <2>2, <3>1, <3>5
    <3>6. CASE told.state = "RUNNING" /\ shared.state \in {"RUNNING", "STOP_PENDING"}
      BY <2>1, <2>2, <3>1, <3>6
    <3>7. CASE told.state = "STOP_PENDING" /\ shared.state \in {"STOP_PENDING", "STOPPED"}
      BY <2>1, <2>2, <3>1, <3>7
    <3> QED
      BY <3>1, <3>4, <3>5, <3>6, <3>7
  <2>3. CASE ~(main # "off" /\ Orderly(config))
    BY <2>1, <2>3
  <2> QED
    BY <2>2, <2>3
<1>4. CASE ~ScmStart /\ ~Exit /\ \A r \in Reporter : ~Send(r)
  BY <1>4, ToldBySend
<1> QED
  BY <1>1, <1>2, <1>3, <1>4

(* Whatever the service manager asks for and however starts, loads and workers
   fail, it is told the life that ServiceLife promises. *)
THEOREM LifeIsSafe == PrSpec => Life!Safety
<1>1. Init => Ordered /\ Life!Init
  BY DEF Init, Ordered, Life!Init
<1>2. PrInv /\ Asked /\ Ordered /\ [Next]_vars => Ordered'
  BY OrderedKept, ProcrunAssumption
<1>3. PrInv /\ Asked /\ Ordered /\ [Next]_vars =>
        [Life!Next]_(IF main # "off" /\ Orderly(config) THEN Seen ELSE "GONE")
  BY LifeStep, ProcrunAssumption
<1> QED
  BY <1>1, <1>2, <1>3, AskedHolds, PrInvHolds, PTL DEF PrSpec, Life!Safety
=============================================================================
