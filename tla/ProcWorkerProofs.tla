-------------------------- MODULE ProcWorkerProofs --------------------------
(* Theorems about ProcWorker: the order in which a worker process is taken
   apart, for any number of stopping threads. *)
EXTENDS ProcWorker, TLAPS

(* The monitor is woken by the end of the child and nothing else. *)
WokenByEnd == monitor = "woken" => child \in Dead

(* Until the child has been made nobody else has come, and a stop image is run
   by a thread that has come. *)
AloneAtStart ==
    /\ pc[main] = "execute" => child = "none"
    /\ child = "none" => \A t \in Stopper : pc[t] = "idle"
    /\ \A t \in Stopper : pc[t] = "idle" => image[t] = "none"

(* A thread on its way to kill the child has closed its standard input. *)
InputClosed ==
    \A t \in Thread : pc[t] \in {"grace", "remote", "dying"} => "inp" \notin pipes

(* The strengthening of OutputRead: while the child lives, and no thread has
   failed to put a remote thread into it, it is marked as running and holds its
   pipes, and nobody is past the point of killing it. *)
LiveChild ==
    child = "alive" /\ ~spared =>
        /\ running /\ handle
        /\ "child" \in writers
        /\ Output \subseteq pipes
        /\ \A e \in Output : reader[e] # "ended"
        /\ \A t \in Thread : pc[t] \notin {"clean", "join", "release"}
        /\ pc[main] # "done"

PwInv == PwTypeOK /\ WokenByEnd /\ AloneAtStart /\ InputClosed /\ CodeStored /\ LiveChild

-----------------------------------------------------------------------------
(* The initial states. *)
LEMMA PwStarts == ASSUME ProcWorkerAssumption, Init PROVE PwInv
<1> USE DEF Init, Thread, Output, Dead, Places, Closing
<1>1. PwTypeOK
  BY ProcWorkerAssumption DEF PwTypeOK, ProcWorkerAssumption
<1>2. WokenByEnd /\ CodeStored /\ LiveChild
  BY DEF WokenByEnd, CodeStored, LiveChild
<1>3. AloneAtStart /\ InputClosed
  BY ProcWorkerAssumption DEF AloneAtStart, InputClosed, ProcWorkerAssumption
<1> QED
  BY <1>1, <1>2, <1>3 DEF PwInv

(* Nobody but the remote thread and a closing thread with an open handle kills. *)
LEMMA KillingSteps ==
    ASSUME NEW t \in Thread, ThreadStep(t), child' # child
    PROVE  /\ child = "alive" /\ child' = "killed"
           /\ pc[t] \in {"remote", "dying"}
<1> USE DEF ThreadStep, CloseStep, Go, Active, Kill
<1>1. Remote(t) \/ Dying(t)
  BY DEF Arrive, WaitEnds, WaitTimesOut, Lock, Test, Close, Grace, Clean, Join, Release
<1>2. CASE Remote(t)
  BY <1>2 DEF Remote, DuplicateFails
<1>3. CASE Dying(t)
  BY <1>3 DEF Dying
<1> QED
  BY <1>1, <1>2, <1>3

(* The closing threads leave alone what the monitors write. *)
LEMMA ThreadSteps ==
    ASSUME NEW t \in Thread, ThreadStep(t)
    PROVE  UNCHANGED <<config, image, monitor, code>> /\ (handle' => handle)
BY DEF ThreadStep, CloseStep, Arrive, WaitEnds, WaitTimesOut, Lock, Test, Close,
   Grace, Remote, Dying, Clean, Join, Release, pipeVars, images

(* What the stop image touches: its thread, and the code. *)
LEMMA ImageSteps ==
    ASSUME NEW t \in Stopper, ImageStep(t)
    PROVE  /\ UNCHANGED <<config, child, spared, running, handle, pipes, writers, reader, monitor>>
           /\ \E x : image' = [image EXCEPT ![t] = x]
           /\ \/ pc' = pc /\ image[t] # "none"
              \/ child # "none" /\ pc[t] = "idle" /\ pc' = [pc EXCEPT ![t] = "image"]
              \/ pc[t] = "image" /\ pc' = [pc EXCEPT ![t] = "wait"]
              \/ pc[t] = "image" /\ pc' = [pc EXCEPT ![t] = "done"]
BY DEF ImageStep, RunImage, ImageEnds, ImageOver, StoresLate, Go, pipeVars

-----------------------------------------------------------------------------
(* Every step keeps the types. *)
LEMMA PwTypeKept ==
    ASSUME ProcWorkerAssumption, PwTypeOK, WokenByEnd, [Next]_vars PROVE PwTypeOK'
<1> USE DEF PwTypeOK, Places, Closing, Dead, images
<1>1. CASE Execute
  <2>1. pc' \in [Thread -> Places]
    BY <1>1 DEF Execute, Go
  <2>2. child' \in {"none", "alive"} \cup Dead /\ running' \in BOOLEAN /\ handle' \in BOOLEAN
    BY <1>1 DEF Execute
  <2>3. writers' \subseteq {"child", "heir", "ours"} /\ pipes' \subseteq {"inp"} \cup Output
    BY <1>1 DEF Execute, Holders
  <2>4. reader' \in [Output -> {"none", "test", "read", "empty", "ended"}]
    BY <1>1 DEF Execute
  <2>5. monitor' \in {"none", "wait", "woken", "ended"}
    BY <1>1 DEF Execute
  <2> QED
    BY <1>1, <2>1, <2>2, <2>3, <2>4, <2>5 DEF Execute, images
<1>2. CASE ChildEnds \/ ChildSpawns \/ HeirEnds
  BY <1>2, ZenonT(30) DEF ChildEnds, ChildSpawns, HeirEnds
<1>3. CASE RemoteExit
  BY <1>3 DEF RemoteExit, Kill
<1>4. ASSUME NEW e \in Output, ReaderStep(e) PROVE PwTypeOK'
  <2>1. CASE ReaderTest(e)
    BY <2>1 DEF ReaderTest
  <2>2. CASE ReaderGets(e)
    BY <2>2 DEF ReaderGets
  <2>3. CASE ReaderEmpty(e)
    BY <2>3 DEF ReaderEmpty
  <2>4. CASE ReaderStops(e)
    BY <2>4 DEF ReaderStops
  <2> QED
    BY <1>4, <2>1, <2>2, <2>3, <2>4 DEF ReaderStep
<1>5. CASE MonitorWait \/ MonitorStores
  BY <1>5 DEF MonitorWait, MonitorStores, ExitCode, WokenByEnd, Ended
<1>6. ASSUME NEW t \in Thread, ThreadStep(t) PROVE PwTypeOK'
  <2> USE DEF Go, pipeVars
  <2>1. CASE Arrive(t)
    BY <2>1 DEF Arrive
  <2>2. CASE WaitEnds(t)
    BY <2>2 DEF WaitEnds
  <2>3. CASE WaitTimesOut(t)
    BY <2>3 DEF WaitTimesOut
  <2>4. CASE Lock(t)
    BY <2>4 DEF Lock
  <2>5. CASE Test(t)
    BY <2>5 DEF Test
  <2>6. CASE Close(t)
    BY <2>6, ZenonT(30) DEF Close, Inputs
  <2>7. CASE Grace(t)
    BY <2>7 DEF Grace, AfterGrace
  <2>8. CASE Remote(t)
    BY <2>8, ZenonT(30) DEF Remote, DuplicateFails, Kill
  <2>9. CASE Dying(t)
    BY <2>9 DEF Dying, Kill
  <2>10. CASE Clean(t)
    BY <2>10 DEF Clean
  <2>11. CASE Join(t)
    BY <2>11 DEF Join
  <2>12. CASE Release(t)
    BY <2>12 DEF Release
  <2> QED
    BY <1>6, <2>1, <2>2, <2>3, <2>4, <2>5, <2>6, <2>7, <2>8, <2>9, <2>10, <2>11, <2>12
       DEF ThreadStep, CloseStep
<1>7. ASSUME NEW t \in Stopper, ImageStep(t) PROVE PwTypeOK'
  <2>1. pc' \in [Thread -> Places]
    BY <1>7, ImageSteps DEF Thread
  <2>2. code' \in Dead /\ image' \in [Stopper -> {"none", "runs", "left"} \cup Dead]
    BY <1>7 DEF ImageStep, RunImage, ImageEnds, ImageOver, StoresLate, pipeVars
  <2> QED
    BY <1>7, <2>1, <2>2, ImageSteps
<1>8. CASE UNCHANGED vars
  BY <1>8 DEF vars
<1> QED
  BY <1>1, <1>2, <1>3, <1>4, <1>5, <1>6, <1>7, <1>8 DEF Next

(* Every step keeps the order of the start. *)
LEMMA AloneKept ==
    ASSUME ProcWorkerAssumption, PwTypeOK, AloneAtStart, [Next]_vars
    PROVE  AloneAtStart'
<1> USE ProcWorkerAssumption DEF AloneAtStart, PwTypeOK, Thread, ProcWorkerAssumption, images
<1>1. CASE Execute
  BY <1>1 DEF Execute, Go
<1>2. CASE ChildEnds \/ ChildSpawns \/ HeirEnds \/ RemoteExit
  BY <1>2 DEF ChildEnds, ChildSpawns, HeirEnds, RemoteExit, Kill
<1>3. ASSUME NEW e \in Output, ReaderStep(e) PROVE AloneAtStart'
  BY <1>3 DEF ReaderStep, ReaderTest, ReaderGets, ReaderEmpty, ReaderStops
<1>4. CASE MonitorWait \/ MonitorStores
  BY <1>4 DEF MonitorWait, MonitorStores
<1>5. ASSUME NEW t \in Thread, ThreadStep(t) PROVE AloneAtStart'
  <2>1. child = "none" => child' = "none"
    BY <1>5, KillingSteps
  <2>2. CASE Arrive(t)
    BY <2>2 DEF Arrive, Go
  <2>3. CASE ~Arrive(t)
    <3>1. pc[t] \notin {"execute", "idle"} /\ \E p \in Places \ {"idle"} : pc' = [pc EXCEPT ![t] = p]
      BY <1>5, <2>3 DEF ThreadStep, CloseStep, Go, WaitEnds, WaitTimesOut, Lock, Test, Close,
         Grace, AfterGrace, Remote, Dying, Clean, Join, Release, Places, Closing
    <3>2. pc'[main] = "execute" => pc[main] = "execute"
      BY <1>5, <2>3 DEF ThreadStep, CloseStep, Go, WaitEnds, WaitTimesOut, Lock, Test, Close,
         Grace, AfterGrace, Remote, Dying, Clean, Join, Release
    <3>3. child' = "none" => child = "none"
      BY <1>5, KillingSteps
    <3> QED
      BY <1>5, <2>1, <3>1, <3>2, <3>3, ThreadSteps
  <2> QED
    BY <2>2, <2>3
<1>6. ASSUME NEW t \in Stopper, ImageStep(t) PROVE AloneAtStart'
  BY <1>6, ImageSteps DEF Thread
<1>7. CASE UNCHANGED vars
  BY <1>7 DEF vars
<1> QED
  BY <1>1, <1>2, <1>3, <1>4, <1>5, <1>6, <1>7 DEF Next

(* Every step leaves the input closed for those on their way to kill. *)
LEMMA InputKept ==
    ASSUME ProcWorkerAssumption, PwTypeOK, AloneAtStart, InputClosed, [Next]_vars
    PROVE  InputClosed'
<1> USE DEF InputClosed, PwTypeOK
<1>1. CASE Execute
  <2>1. \A t \in Thread : pc'[t] \in {"idle", "test"} \/ pc'[t] = pc[t]
    BY <1>1 DEF Execute, Go
  <2>2. ASSUME NEW t \in Thread PROVE pc[t] \notin {"grace", "remote", "dying"}
    <3>1. pc[main] = "execute" /\ child = "none"
      BY <1>1 DEF Execute, Go, AloneAtStart
    <3> QED
      BY <3>1 DEF AloneAtStart, Thread
  <2> QED
    BY <2>1, <2>2
<1>2. CASE ChildEnds \/ ChildSpawns \/ HeirEnds \/ RemoteExit
  BY <1>2 DEF ChildEnds, ChildSpawns, HeirEnds, RemoteExit
<1>3. ASSUME NEW e \in Output, ReaderStep(e) PROVE InputClosed'
  BY <1>3 DEF ReaderStep, ReaderTest, ReaderGets, ReaderEmpty, ReaderStops
<1>4. CASE MonitorWait \/ MonitorStores
  BY <1>4 DEF MonitorWait, MonitorStores
<1>5. ASSUME NEW t \in Thread, ThreadStep(t) PROVE InputClosed'
  <2> USE DEF Go, pipeVars
  <2>1. CASE Arrive(t)
    BY <2>1 DEF Arrive
  <2>2. CASE WaitEnds(t) \/ WaitTimesOut(t) \/ Lock(t) \/ Test(t)
    BY <2>2 DEF WaitEnds, WaitTimesOut, Lock, Test
  <2>3. CASE Close(t)
    BY <2>3 DEF Close, Inputs
  <2>4. CASE Grace(t) \/ Remote(t) \/ Dying(t)
    BY <2>4 DEF Grace, AfterGrace, Remote, Dying
  <2>5. CASE Clean(t) \/ Join(t) \/ Release(t)
    BY <2>5 DEF Clean, Join, Release
  <2> QED
    BY <1>5, <2>1, <2>2, <2>3, <2>4, <2>5 DEF ThreadStep, CloseStep
<1>6. ASSUME NEW t \in Stopper, ImageStep(t) PROVE InputClosed'
  BY <1>6, ImageSteps DEF Thread
<1>7. CASE UNCHANGED vars
  BY <1>7 DEF vars
<1> QED
  BY <1>1, <1>2, <1>3, <1>4, <1>5, <1>6, <1>7 DEF Next

(* Every step keeps what is known of the exit code. *)
LEMMA CodeKept ==
    ASSUME ProcWorkerAssumption, PwTypeOK, WokenByEnd, AloneAtStart, CodeStored,
           [Next]_vars
    PROVE  WokenByEnd' /\ CodeStored'
<1> USE DEF WokenByEnd, CodeStored, PwTypeOK, Dead, images
<1>1. CASE Execute
  BY <1>1 DEF Execute, Go, AloneAtStart
<1>2. CASE ChildEnds \/ ChildSpawns \/ HeirEnds \/ RemoteExit
  BY <1>2 DEF ChildEnds, ChildSpawns, HeirEnds, RemoteExit, Kill
<1>3. ASSUME NEW e \in Output, ReaderStep(e) PROVE WokenByEnd' /\ CodeStored'
  BY <1>3 DEF ReaderStep, ReaderTest, ReaderGets, ReaderEmpty, ReaderStops
<1>4. CASE MonitorWait \/ MonitorStores
  BY <1>4 DEF MonitorWait, MonitorStores, ExitCode, Ended
<1>5. ASSUME NEW t \in Thread, ThreadStep(t) PROVE WokenByEnd' /\ CodeStored'
  <2>1. CASE child' = child
    BY <1>5, <2>1, ThreadSteps
  <2>2. CASE child' # child
    BY <1>5, <2>2, KillingSteps, ThreadSteps
  <2> QED
    BY <2>1, <2>2
<1>6. ASSUME NEW t \in Stopper, ImageStep(t) PROVE WokenByEnd' /\ CodeStored'
  <2>1. CASE RunImage(t) \/ ImageOver(t)
    <3>1. UNCHANGED code /\ (image' = image \/ image[t] \notin Dead)
      BY <2>1 DEF RunImage, ImageOver, Go, pipeVars, AloneAtStart
    <3>2. image' = image \/ image'[t] # "none"
      BY <2>1 DEF RunImage, ImageOver, Go
    <3>3. \A u \in Stopper \ {t} : image'[u] = image[u]
      BY <2>1 DEF RunImage, ImageOver, Go, AloneAtStart
    <3> QED
      BY <1>6, <3>1, <3>2, <3>3, ImageSteps
  <2>2. CASE ImageEnds(t) \/ StoresLate(t)
    <3>1. code' = image'[t] /\ image'[t] # "none"
      BY <2>2 DEF ImageEnds, StoresLate
    <3> QED
      BY <1>6, <3>1, ImageSteps
  <2> QED
    BY <1>6, <2>1, <2>2 DEF ImageStep
<1>7. CASE UNCHANGED vars
  BY <1>7 DEF vars, images
<1> QED
  BY <1>1, <1>2, <1>3, <1>4, <1>5, <1>6, <1>7 DEF Next

(* Every step keeps a living child's pipes and readers, until a thread gives up
   on CreateRemoteThread and leaves it alive. *)
LEMMA LiveKept ==
    ASSUME ProcWorkerAssumption, PwTypeOK, AloneAtStart, LiveChild, [Next]_vars
    PROVE  LiveChild'
<1> SUFFICES ASSUME child' = "alive", ~spared' PROVE LiveChild'
  BY DEF LiveChild
<1>0. main \in Thread
  BY DEF Thread
<1> USE <1>0 DEF LiveChild, PwTypeOK, images
<1>1. CASE Execute
  <2>1. CASE child = "alive"
    BY <1>1, <2>1 DEF Execute, Go, AloneAtStart
  <2>2. CASE child # "alive"
    <3>1. pc[main] = "execute" /\ child = "none" /\ pc' = [pc EXCEPT ![main] = "idle"]
      BY <1>1, <2>2 DEF Execute, Go, AloneAtStart
    <3>2. \A t \in Thread : pc'[t] = "idle"
      BY <3>1 DEF AloneAtStart, Thread
    <3>3. running' /\ handle' /\ "child" \in writers' /\ Output \subseteq pipes'
      BY <1>1, <2>2 DEF Execute, Holders
    <3>4. \A e \in Output : reader'[e] # "ended"
      BY <1>1, <2>2 DEF Execute
    <3> QED
      BY <3>2, <3>3, <3>4
  <2> QED
    BY <2>1, <2>2
<1>2. CASE ChildEnds \/ ChildSpawns \/ HeirEnds \/ RemoteExit
  BY <1>2 DEF ChildEnds, ChildSpawns, HeirEnds, RemoteExit, Kill, Dead
<1>3. ASSUME NEW e \in Output, ReaderStep(e) PROVE LiveChild'
  <2>1. child = "alive" /\ ~spared /\ running /\ writers # {} /\ e \in pipes
    BY <1>3 DEF ReaderStep, ReaderTest, ReaderGets, ReaderEmpty, ReaderStops
  <2>2. ~ReaderStops(e)
    BY <2>1 DEF ReaderStops
  <2>3. CASE ReaderTest(e)
    BY <2>1, <2>3 DEF ReaderTest
  <2>4. CASE ReaderGets(e) \/ ReaderEmpty(e)
    BY <2>1, <2>4, ZenonT(30) DEF ReaderGets, ReaderEmpty
  <2> QED
    BY <1>3, <2>2, <2>3, <2>4 DEF ReaderStep
<1>4. CASE MonitorWait \/ MonitorStores
  BY <1>4 DEF MonitorWait, MonitorStores
<1>5. ASSUME NEW t \in Thread, ThreadStep(t) PROVE LiveChild'
  <2>1. child = "alive" /\ ~spared
    BY <1>5, KillingSteps DEF ThreadStep, CloseStep, Arrive, WaitEnds, WaitTimesOut, Lock, Test,
       Close, Grace, Remote, Dying, Clean, Join, Release
  <2>2. Active /\ running
    BY <2>1 DEF Active
  <2> USE <2>1, <2>2 DEF Go, pipeVars
  <2>3. CASE Arrive(t)
    BY <2>3 DEF Arrive
  <2>4. CASE WaitEnds(t) \/ WaitTimesOut(t) \/ Lock(t) \/ Test(t) \/ Grace(t)
    <3>1. \/ pc' = [pc EXCEPT ![t] = "test"]
          \/ pc' = [pc EXCEPT ![t] = "close"]
          \/ pc' = [pc EXCEPT ![t] = "remote"]
          \/ t # main /\ pc' = [pc EXCEPT ![t] = "done"]
      BY <2>4 DEF WaitEnds, WaitTimesOut, Lock, Test, Grace, AfterGrace
    <3>2. UNCHANGED <<running, handle, writers, pipes, reader>>
      BY <2>4 DEF WaitEnds, WaitTimesOut, Lock, Test, Grace
    <3> QED
      BY <3>1, <3>2
  <2>5. CASE Close(t)
    <3>1. pc' = [pc EXCEPT ![t] = "grace"] /\ pipes' = pipes \ {"inp"}
      BY <2>5 DEF Close, Inputs
    <3>2. Output \subseteq pipes'
      BY <3>1 DEF Output
    <3> QED
      BY <2>5, <3>1, <3>2 DEF Close
  <2>6. CASE Remote(t)
    BY <2>6 DEF Remote, DuplicateFails, Kill, Active
  <2>7. CASE Dying(t)
    BY <2>7 DEF Dying, Kill
  <2>8. ~Clean(t) /\ ~Join(t) /\ ~Release(t)
    BY DEF Clean, Join, Release
  <2> QED
    BY <1>5, <2>3, <2>4, <2>5, <2>6, <2>7, <2>8 DEF ThreadStep, CloseStep
<1>6. ASSUME NEW t \in Stopper, ImageStep(t) PROVE LiveChild'
  <2>1. t # main
    BY ProcWorkerAssumption DEF ProcWorkerAssumption
  <2> QED
    BY <1>6, <2>1, ImageSteps DEF Thread
<1>7. CASE UNCHANGED vars
  BY <1>7 DEF vars
<1> QED
  BY <1>1, <1>2, <1>3, <1>4, <1>5, <1>6, <1>7 DEF Next

(* The inductive invariant. *)
LEMMA PwInvHolds == ASSUME ProcWorkerAssumption PROVE Spec => []PwInv
<1>1. Init => PwInv
  BY PwStarts
<1>2. PwInv /\ [Next]_vars => PwInv'
  <2> SUFFICES ASSUME PwInv, [Next]_vars PROVE PwInv'
    OBVIOUS
  <2> QED
    BY PwTypeKept, AloneKept, InputKept, CodeKept, LiveKept DEF PwInv
<1> QED
  BY <1>1, <1>2, PTL DEF Spec

-----------------------------------------------------------------------------
(* Every variable of the worker keeps its type, for any number of stopping
   threads and any faults. *)
THEOREM PwTypeCorrect == ASSUME ProcWorkerAssumption PROVE Spec => []PwTypeOK
BY PwInvHolds, PTL DEF PwInv

(* procrun reports no exit code but 0, the worker's or a stop image's, and the
   worker's when there is no stop image and nobody has closed the child's handle
   too early, whatever goes wrong. *)
THEOREM CodeIsStored == ASSUME ProcWorkerAssumption PROVE Spec => []CodeStored
BY PwInvHolds, PTL DEF PwInv

(* The output of a living child is read, however many threads are closing it and
   whatever has gone wrong, until one of them has failed to put a remote thread
   into it. *)
THEOREM OutputIsRead == ASSUME ProcWorkerAssumption PROVE Spec => []OutputRead
<1>1. LiveChild => OutputRead
  BY DEF LiveChild, OutputRead
<1> QED
  BY <1>1, PwInvHolds, PTL DEF PwInv

(* No thread kills a child whose standard input is still open. *)
THEOREM KilledIsLast == ASSUME ProcWorkerAssumption PROVE Spec => KilledLast
<1>1. PwInv /\ [Next]_vars => [child = "alive" /\ child' = "killed" => "inp" \notin pipes]_vars
  <2> SUFFICES ASSUME PwInv, Next, child = "alive", child' = "killed"
               PROVE  "inp" \notin pipes
    BY DEF vars
  <2> USE DEF PwInv, InputClosed
  <2>1. CASE Execute \/ ChildEnds \/ ChildSpawns \/ HeirEnds \/ MonitorWait \/ MonitorStores
    BY <2>1 DEF Execute, ChildEnds, ChildSpawns, HeirEnds, MonitorWait, MonitorStores, Dead
  <2>2. CASE RemoteExit
    BY <2>2 DEF RemoteExit
  <2>3. ASSUME NEW e \in Output, ReaderStep(e) PROVE FALSE
    BY <2>3 DEF ReaderStep, ReaderTest, ReaderGets, ReaderEmpty, ReaderStops
  <2>4. ASSUME NEW t \in Thread, ThreadStep(t) PROVE "inp" \notin pipes
    BY <2>4, KillingSteps
  <2>5. ASSUME NEW t \in Stopper, ImageStep(t) PROVE FALSE
    BY <2>5, ImageSteps
  <2> QED
    BY <2>1, <2>2, <2>3, <2>4, <2>5 DEF Next
<1> QED
  BY <1>1, PwInvHolds, PTL DEF Spec, KilledLast

=============================================================================
