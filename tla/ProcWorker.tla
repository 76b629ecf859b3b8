----------------------------- MODULE ProcWorker -----------------------------
(***************************************************************************)
(* A worker that is a process of its own, as procrun runs it               *)
(* (windows/src/rprocess.c): the child, the pipes to it, the two threads   *)
(* that read its output, the thread that waits for its end, and the        *)
(* threads that wait for it, kill it and free what belongs to it: main     *)
(* (serviceMain, and the end of the program) and the threads of            *)
(* serviceStop.  A stop image, which such a thread may run first, is a     *)
(* process of the same kind: here it is its end and its monitor, which     *)
(* stores where the worker's does.                                         *)
(*                                                                         *)
(* When main and the stopping threads begin is Procrun's subject; here     *)
(* they begin whenever they like.  A step is a stretch of code between two *)
(* accesses to what other threads use.                                     *)
(***************************************************************************)
CONSTANTS Stopper,  \* threads of serviceStop
          main,     \* the thread of serviceMain
          Configs   \* what the worker is run with: see ProcWorkerAssumption

FaultKinds == {"execute",    \* the pipes or the child cannot be created
               "duplicate",  \* DuplicateHandle fails
               "remote",     \* CreateRemoteThread fails
               "thread",     \* CreateThread fails for the worker, which nobody looks at
               "watch",      \* CreateThread fails for a stop image
               "empty",      \* the child writes a block of no bytes
               "heir"}       \* the child passes its output to a child of its own

(* timed: serviceStop has a timeout.  imaged: the threads that run a stop image,
   where the others have none or fail to.  faults: what may go wrong. *)
ConfigTypes == [timed : BOOLEAN, imaged : SUBSET Stopper, faults : SUBSET FaultKinds]

ASSUME ProcWorkerAssumption ==
    /\ main \notin Stopper
    /\ Configs \subseteq ConfigTypes

Thread == Stopper \cup {main}
Output == {"out", "err"}

VARIABLES
    config,   \* the configuration of this run
    child,    \* the child process, and how it ended
    writers,  \* the processes that hold the write ends of the output pipes
    spared,   \* no remote thread could be put into it, and it was left alone
    running,  \* CHILD_RUNNING
    handle,   \* stProcInfo.hProcess is open
    pipes,    \* our ends of the pipes that are open
    reader,   \* where the readers of the output are
    monitor,  \* where the thread that waits for the child is
    code,     \* vmExitCode; ok is 0
    image,    \* the stop image of each stopping thread, or what it stored
    pc        \* where each thread is

images == <<config, image>>
vars == <<child, spared, writers, running, handle, pipes, reader, monitor, code, images, pc>>
pipeVars == <<writers, reader, monitor, code>>

Dead == {"ok", "failed", "killed"}
(* lock: it waits for the spin lock of the handle. *)
Closing == {"test", "close", "grace", "remote", "dying", "clean", "join", "release"}
Places == {"execute", "idle", "image", "wait", "lock", "done"} \cup Closing

PwTypeOK ==
    /\ config \in ConfigTypes
    /\ spared \in BOOLEAN
    /\ child \in {"none", "alive"} \cup Dead
    /\ writers \subseteq {"child", "heir", "ours"}
    /\ running \in BOOLEAN
    /\ handle \in BOOLEAN
    /\ pipes \subseteq {"inp"} \cup Output
    /\ reader \in [Output -> {"none", "test", "read", "empty", "ended"}]
    /\ monitor \in {"none", "wait", "woken", "ended"}
    /\ code \in Dead
    /\ image \in [Stopper -> {"none", "runs", "left"} \cup Dead]
    /\ pc \in [Thread -> Places]

Init ==
    /\ config \in Configs
    /\ child = "none"
    /\ spared = FALSE
    /\ writers = {}
    /\ running = FALSE
    /\ handle = FALSE
    /\ pipes = {}
    /\ reader = [e \in Output |-> "none"]
    /\ monitor = "none"
    /\ code = "ok"
    /\ image = [t \in Stopper |-> "none"]
    /\ pc = [t \in Thread |-> IF t = main THEN "execute" ELSE "idle"]

(* The program goes on until main has freed the handle and calls ExitProcess. *)
Runs == pc[main] # "done"

Go(t, from, to) ==
    /\ Runs
    /\ pc[t] = from
    /\ pc' = [pc EXCEPT ![t] = to]

ThreadsEnded == monitor = "ended" /\ \A e \in Output : reader[e] \in {"empty", "ended"}

(* A wait for the three threads fails at once when one of them was never made
   or their handles are closed. *)
WaitFails ==
    \/ monitor = "none" \/ \E e \in Output : reader[e] = "none"
    \/ ~(Output \subseteq pipes)
WaitOver == ThreadsEnded \/ WaitFails

-----------------------------------------------------------------------------
(* The start *)

(* Who holds the write ends once the child is made: our copies are closed. *)
Holders_Ours == {"child", "ours"}                                   \* mutant
Holders == {"child"}

(* The threads that are made. *)
Threads == Output \cup {"monitor"}
Makes == IF "thread" \in config.faults THEN SUBSET Threads ELSE {Threads}

(* apxProcessExecute; when it fails serviceStart closes the worker. *)
Execute ==
    /\ \/ /\ Go(main, "execute", "idle")
          /\ child' = "alive"
          /\ writers' = Holders
          /\ running' = TRUE
          /\ handle' = TRUE
          /\ pipes' = {"inp"} \cup Output
          /\ \E made \in Makes :
               /\ reader' = [e \in Output |-> IF e \in made THEN "test" ELSE "none"]
               /\ monitor' = IF "monitor" \in made THEN "wait" ELSE "none"
       \/ /\ "execute" \in config.faults
          /\ Go(main, "execute", "test")
          /\ UNCHANGED <<child, writers, running, handle, pipes, reader, monitor>>
    /\ UNCHANGED <<images, spared, code>>

-----------------------------------------------------------------------------
(* The child and who inherits its output *)

ChildEnds ==
    /\ child = "alive"
    /\ child' \in {"ok", "failed"}
    /\ writers' = writers \ {"child"}
    /\ UNCHANGED <<images, spared, running, handle, pipes, reader, monitor, code, pc>>

ChildSpawns ==
    /\ "heir" \in config.faults
    /\ child = "alive"
    /\ writers' = writers \cup {"heir"}
    /\ UNCHANGED <<images, child, spared, running, handle, pipes, reader, monitor, code, pc>>

HeirEnds ==
    /\ "heir" \in writers
    /\ writers' = writers \ {"heir"}
    /\ UNCHANGED <<images, child, spared, running, handle, pipes, reader, monitor, code, pc>>

(* The child is made to end, by TerminateProcess or from inside. *)
Kill ==
    /\ child' = "killed"
    /\ writers' = writers \ {"child"}

(* The remote thread that a closing thread has put into the child. *)
RemoteExit ==
    /\ child = "alive"
    /\ \E t \in Thread : pc[t] = "dying"
    /\ Kill
    /\ UNCHANGED <<images, spared, running, handle, pipes, reader, monitor, code, pc>>

-----------------------------------------------------------------------------
(* The three threads that serve the child *)

ReaderTest(e) ==
    /\ Runs
    /\ reader[e] = "test"
    /\ reader' = [reader EXCEPT ![e] = IF running THEN "read" ELSE "ended"]
    /\ UNCHANGED <<images, child, spared, writers, running, handle, pipes, monitor, code, pc>>

(* A character has come and is handed on. *)
ReaderGets(e) ==
    /\ Runs
    /\ reader[e] = "read"
    /\ writers # {} /\ e \in pipes
    /\ reader' = [reader EXCEPT ![e] = "test"]
    /\ UNCHANGED <<images, child, spared, writers, running, handle, pipes, monitor, code, pc>>

ReaderStops(e) ==
    /\ Runs
    /\ reader[e] = "read"
    /\ writers = {} \/ e \notin pipes
    /\ reader' = [reader EXCEPT ![e] = "ended"]
    /\ UNCHANGED <<images, child, spared, writers, running, handle, pipes, monitor, code, pc>>

(* A read of no bytes ends it as well. *)
ReaderEmpty(e) ==
    /\ "empty" \in config.faults
    /\ Runs
    /\ reader[e] = "read"
    /\ writers # {} /\ e \in pipes
    /\ reader' = [reader EXCEPT ![e] = "empty"]
    /\ UNCHANGED <<images, child, spared, writers, running, handle, pipes, monitor, code, pc>>

(* What lets the monitor go on to read the exit code. *)
Ended_Idle == handle                                                \* mutant
Ended == child \in Dead

(* Without the handle the wait cannot begin, but one that has begun goes on. *)
MonitorWait ==
    /\ Runs
    /\ monitor = "wait"
    /\ \/ Ended /\ monitor' = "woken"
       \/ ~handle /\ monitor' = "ended"
    /\ UNCHANGED <<images, child, spared, writers, running, handle, pipes, reader, code, pc>>

(* What GetExitCodeProcess leaves in dwExitCode, which begins as 0. *)
ExitCode_Never == "ok"                                              \* mutant
ExitCode == IF handle THEN child ELSE "ok"

MonitorStores ==
    /\ Runs
    /\ monitor = "woken"
    /\ code' = ExitCode
    /\ monitor' = "ended"
    /\ UNCHANGED <<images, child, spared, writers, running, handle, pipes, reader, pc>>

-----------------------------------------------------------------------------
(* The stop image *)

(* A stopping thread executes it and waits for its three threads. *)
RunImage(t) ==
    /\ t \in config.imaged
    /\ child # "none"
    /\ Go(t, "idle", "image")
    /\ image' = [image EXCEPT ![t] = "runs"]
    /\ UNCHANGED <<config, child, spared, running, handle, pipes, pipeVars>>

(* It ends, which only its monitor sees, and the exit code is stored. *)
ImageEnds(t) ==
    /\ Runs
    /\ image[t] = "runs"
    /\ code' \in {"ok", "failed"}
    /\ image' = [image EXCEPT ![t] = code']
    /\ UNCHANGED <<config, child, spared, writers, running, handle, pipes, reader, monitor, pc>>

(* apxCloseHandle, which kills the image when the wait for it has failed; then
   the stopping thread comes to the worker, for five minutes at least. *)
ImageOver(t) ==
    /\ image[t] # "runs" \/ "watch" \in config.faults
    /\ Go(t, "image", IF running THEN "wait" ELSE "done")
    /\ image' = [image EXCEPT ![t] = IF image[t] = "runs" THEN "left" ELSE image[t]]
    /\ UNCHANGED <<config, child, spared, running, handle, pipes, pipeVars>>

(* The monitor, of which the closed handle knew nothing, reads the exit code of
   the killed image or, from freed memory, none. *)
StoresLate(t) ==
    /\ Runs
    /\ image[t] = "left"
    /\ code' \in {"ok", "killed"}
    /\ image' = [image EXCEPT ![t] = code']
    /\ UNCHANGED <<config, child, spared, writers, running, handle, pipes, reader, monitor, pc>>

-----------------------------------------------------------------------------
(* Waiting for the worker, and asking for its end *)

(* main comes to apxHandleWait, and a stopping thread to that or, without a
   timeout, to apxHandleSendMessage.  Controls are accepted once it runs. *)
Arrive(t) ==
    /\ child # "none"
    /\ t \notin config.imaged
    /\ IF t = main
       THEN Go(t, "idle", IF running THEN "wait" ELSE "test")
       ELSE Go(t, "idle", CASE ~config.timed -> "lock"
                            [] config.timed /\ running -> "wait"
                            [] OTHER -> "done")
    /\ UNCHANGED <<images, child, spared, running, handle, pipes, pipeVars>>

(* main goes on to its reports and, at the end, frees the worker. *)
WaitEnds(t) ==
    /\ WaitOver
    /\ Go(t, "wait", IF t = main THEN "test" ELSE "done")
    /\ UNCHANGED <<images, child, spared, running, handle, pipes, pipeVars>>

WaitTimesOut(t) ==
    /\ t # main
    /\ ~WaitOver
    /\ Go(t, "wait", "test")
    /\ UNCHANGED <<images, child, spared, running, handle, pipes, pipeVars>>

(* The spin lock is held for as long as the message is being handled. *)
Lock(t) ==
    /\ \A u \in Stopper : pc[u] \notin Closing
    /\ Go(t, "lock", "test")
    /\ UNCHANGED <<images, child, spared, running, handle, pipes, pipeVars>>

-----------------------------------------------------------------------------
(* __apxProcessCallback for WM_CLOSE, and __apxProcessClose *)

Test(t) ==
    /\ Go(t, "test", IF running THEN "close" ELSE "release")
    /\ UNCHANGED <<images, child, spared, running, handle, pipes, pipeVars>>

Active == handle /\ child = "alive"

(* The child's standard input is closed first. *)
Inputs_Kept(ps) == ps                                               \* mutant
Inputs(ps) == ps \ {"inp"}

Close(t) ==
    /\ \/ /\ Active
          /\ Go(t, "close", "grace")
          /\ pipes' = Inputs(pipes)
       \/ /\ ~Active
          /\ Go(t, "close", "clean")
          /\ UNCHANGED pipes
    /\ UNCHANGED <<images, child, spared, running, handle, pipeVars>>

(* Where it goes a second later. *)
AfterGrace_Clean == "clean"                                         \* mutant
AfterGrace == IF Active THEN "remote" ELSE "clean"

Grace(t) ==
    /\ Go(t, "grace", AfterGrace)
    /\ UNCHANGED <<images, child, spared, running, handle, pipes, pipeVars>>

(* Without a duplicate of the handle it ends the child at once. *)
DuplicateFails_Left == UNCHANGED <<child, writers>>                 \* mutant
DuplicateFails == IF Active THEN Kill ELSE UNCHANGED <<child, writers>>

Remote(t) ==
    /\ \/ /\ "duplicate" \in config.faults \/ ~handle
          /\ Go(t, "remote", "clean")
          /\ DuplicateFails
          /\ UNCHANGED spared
       \/ /\ "remote" \in config.faults \/ child # "alive"
          /\ Go(t, "remote", "clean")
          /\ spared' = (spared \/ child = "alive")
          /\ UNCHANGED <<child, writers>>
       \/ /\ Active
          /\ Go(t, "remote", "dying")
          /\ UNCHANGED <<child, spared, writers>>
    /\ UNCHANGED <<images, running, handle, pipes, reader, monitor, code>>

(* Two seconds later, or when the child has ended. *)
Dying(t) ==
    /\ Go(t, "dying", "clean")
    /\ IF Active THEN Kill ELSE UNCHANGED <<child, writers>>
    /\ UNCHANGED <<images, spared, running, handle, pipes, reader, monitor, code>>

Clean(t) ==
    /\ Go(t, "clean", "join")
    /\ handle' = FALSE
    /\ running' = FALSE
    /\ UNCHANGED <<images, child, spared, pipes, pipeVars>>

Join(t) ==
    /\ WaitOver
    /\ Go(t, "join", "release")
    /\ UNCHANGED <<images, child, spared, running, handle, pipes, pipeVars>>

Release(t) ==
    /\ Go(t, "release", "done")
    /\ handle' = FALSE
    /\ running' = FALSE
    /\ pipes' = {}
    /\ UNCHANGED <<images, child, spared, pipeVars>>

CloseStep(t) ==
    \/ Test(t) \/ Close(t) \/ Grace(t) \/ Remote(t)
    \/ Dying(t) \/ Clean(t) \/ Join(t) \/ Release(t)

ImageStep(t) == RunImage(t) \/ ImageEnds(t) \/ ImageOver(t) \/ StoresLate(t)
ThreadStep(t) == Arrive(t) \/ WaitEnds(t) \/ WaitTimesOut(t) \/ Lock(t) \/ CloseStep(t)
ReaderStep(e) == ReaderTest(e) \/ ReaderGets(e) \/ ReaderEmpty(e) \/ ReaderStops(e)

Next ==
    \/ Execute
    \/ ChildEnds \/ ChildSpawns \/ HeirEnds \/ RemoteExit
    \/ \E e \in Output : ReaderStep(e)
    \/ MonitorWait \/ MonitorStores
    \/ \E t \in Stopper : ImageStep(t)
    \/ \E t \in Thread : ThreadStep(t)

(* The threads of the service run; the child, its heirs and a stop image owe
   nothing. *)
Spec ==
    /\ Init /\ [][Next]_vars
    /\ WF_vars(Execute)
    /\ \A e \in Output : WF_vars(ReaderTest(e)) /\ WF_vars(ReaderStops(e))
    /\ WF_vars(MonitorWait) /\ WF_vars(MonitorStores)
    /\ WF_vars(Arrive(main)) /\ WF_vars(WaitEnds(main)) /\ WF_vars(CloseStep(main))
    /\ \A t \in Stopper : /\ WF_vars(WaitEnds(t)) /\ WF_vars(WaitTimesOut(t))
                          /\ WF_vars(Lock(t)) /\ WF_vars(CloseStep(t))

-----------------------------------------------------------------------------
(* Properties *)

(* While the child lives nothing that closes it takes away our ends of its
   output pipes or ends a thread that reads them, also when two threads are
   closing it at once: what it writes is read unless a reader was never made or
   has read an empty block, or CreateRemoteThread has failed.
   (__apxProcessClose, WM_CLOSE) *)
OutputRead ==
    child = "alive" /\ ~spared =>
        Output \subseteq pipes /\ \A e \in Output : reader[e] # "ended"

(* The exit code that procrun reports at its end is 0, the worker's or that of
   a stop image; and without a stop image it is the worker's, if no thread has
   closed the child's handle before the monitor could ask.
   (__apxProcWorkerThread) *)
CodeStored ==
    /\ code \in {"ok", child} \cup {image[t] : t \in Stopper}
    /\ monitor = "ended" /\ handle /\ (\A t \in Stopper : image[t] = "none") => code = child

(* A child is killed only after its standard input was closed, which is its
   chance to end by itself.  (__apxProcessClose) *)
KilledLast == [][child = "alive" /\ child' = "killed" => "inp" \notin pipes]_vars

(* Once the child and whoever inherited its output have ended the program
   ends, whatever the stopping threads were doing.  (apxProcessWait, WM_CLOSE) *)
EndsWithChild ==
    (child \in Dead /\ "heir" \notin writers) ~> (pc[main] = "done")

(* A thread that has begun to close the worker sees its child dead, unless
   CreateRemoteThread has failed: then nothing terminates it. *)
StopKills == (\E t \in Stopper : pc[t] \in Closing) ~> (child \in Dead \/ spared)

=============================================================================
