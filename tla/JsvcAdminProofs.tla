--------------------------- MODULE JsvcAdminProofs ---------------------------
(***************************************************************************)
(* What is proved of Jsvc holds beside an administrator too: commands read *)
(* the pid file and send TERM to whatever pid they read, which disturbs    *)
(* neither the types nor the claim of any child, nor what Supervised       *)
(* promises.  Then what the commands themselves rely on: that "ready" is   *)
(* said of a service that was up, and, for a careful administrator, that   *)
(* the pid file leads to the one service there is and a stop leaves none.  *)
(***************************************************************************)
EXTENDS JsvcAdmin, JsvcProofs

AdmInv == AdmTypeOK /\ Inv

LEMMA GetPidfTyped ==
  ASSUME TypeOK
  PROVE  Written \in Pid \cup {NoPid} /\ GetPidf \in Pid \cup {NoPid}
BY DEF TypeOK, Written, GetPidf

LEMMA ReturnsTyped ==
  ASSUME NEW what \in Outcomes, Returns(what)
  PROVE  /\ adm' \in AdmStates /\ mark' \in Pid \cup {NoPid}
         /\ cur' \in Inst \cup {NoInst} /\ havejvm' \in BOOLEAN /\ outcome' \in Outcomes
BY DEF Returns, AdmStates

(* The administrator's own variables. *)
LEMMA AdminTyped ==
  ASSUME AdmTypeOK, Admin
  PROVE  /\ adm' \in AdmStates /\ mark' \in Pid \cup {NoPid}
         /\ cur' \in Inst \cup {NoInst} /\ havejvm' \in BOOLEAN /\ outcome' \in Outcomes
<1> USE DEF AdmTypeOK, AdmStates, Waiting, Outcomes
<1>1. CASE AdmStart
  BY <1>1, ReturnsTyped DEF AdmStart
<1>2. CASE WaitChild \/ LastLook
  BY <1>2, ReturnsTyped DEF WaitChild, LastLook, Inherited
<1>3. CASE ReadPid \/ CheckTmpFile \/ OpenTmpFile
  BY <1>3, ReturnsTyped, GetPidfTyped DEF ReadPid, CheckTmpFile, OpenTmpFile, NextRound
<1>4. CASE ScriptStop
  BY <1>4, GetPidfTyped DEF ScriptStop
<1>5. CASE ScriptPoll
  BY <1>5, ReturnsTyped DEF ScriptPoll
<1>6. CASE StopChild
  BY <1>6, ReturnsTyped, GetPidfTyped DEF StopChild
<1>7. CASE Kill
  BY <1>7 DEF Kill
<1>8. CASE StopChildPoll
  BY <1>8, ReturnsTyped DEF StopChildPoll
<1> QED
  BY <1>1, <1>2, <1>3, <1>4, <1>5, <1>6, <1>7, <1>8 DEF Admin, Wait

(* A command launches an instance, sends one TERM, or only looks. *)
LEMMA AdminSteps ==
  ASSUME Admin
  PROVE  \/ \E i \in Inst : Launch(i)
         \/ Kill
         \/ UNCHANGED vars
BY DEF Admin, Wait, AdmStart, WaitChild, ReadPid, CheckTmpFile, OpenTmpFile, LastLook,
   ScriptStop, ScriptPoll, StopChild, StopChildPoll

LEMMA KillKeeps ==
  ASSUME Inv, Kill
  PROVE  Inv'
<1>1. "TERM" \in Signals
  BY DEF Signals
<1>2. pend' \in [Inst -> SUBSET Signals]
  BY <1>1, SentTyped DEF Kill, Inv, TypeInv, TypeOK
<1>3. TypeInv'
  BY <1>2 DEF Kill, Inv, TypeInv, TypeOK, HasPid, fileVars, ctlVars
<1>4. ClaimInv'
  BY ClaimFrame DEF Kill, Inv, fileVars, ctlVars
<1> QED
  BY <1>3, <1>4 DEF Inv

LEMMA AdmKept ==
  ASSUME AdmInv, [AdmNext]_allVars
  PROVE  AdmInv'
<1>1. [Next]_vars \/ Kill
  BY AdminSteps DEF AdmNext, Services, Next, allVars
<1>2. Inv'
  <2>1. CASE [Next]_vars
    BY <2>1, TypeKept, ClaimKept DEF AdmInv, Inv
  <2>2. CASE Kill
    BY <2>2, KillKeeps DEF AdmInv
  <2> QED
    BY <1>1, <2>1, <2>2
<1>3. wasUp' \subseteq Pid
  <2>1. CASE Remember
    BY <1>2, <2>1 DEF Remember, Inv, TypeInv, TypeOK, HasPid, AdmInv, AdmTypeOK
  <2>2. CASE UNCHANGED wasUp
    BY <2>2 DEF AdmInv, AdmTypeOK
  <2> QED
    BY <2>1, <2>2 DEF AdmNext, allVars
<1>4. CASE Admin
  BY <1>2, <1>3, <1>4, AdminTyped DEF AdmInv, AdmTypeOK, Inv, TypeInv
<1>5. CASE UNCHANGED admVars
  BY <1>2, <1>3, <1>5 DEF AdmInv, AdmTypeOK, Inv, TypeInv, admVars
<1> QED
  BY <1>4, <1>5 DEF AdmNext, allVars

LEMMA AdmInitially ==
  ASSUME AdmInit
  PROVE  AdmInv
<1>1. Inv
  BY InvInitially DEF AdmInit
<1> QED
  BY <1>1 DEF AdmInit, AdmInv, AdmTypeOK, Inv, TypeInv, AdmStates, Outcomes

(* Starting and stopping by command keeps every variable in its type. *)
THEOREM AdmTypeCorrect == AdmSpec => []AdmTypeOK
<1>1. AdmInv => AdmTypeOK
  BY DEF AdmInv
<1> QED
  BY <1>1, AdmInitially, AdmKept, PTL DEF AdmSpec

(* Nor does it let two children share an inode of the pid file, although a
   command may send its TERM to a pid that has changed hands. *)
THEOREM AdmSameFile == AdmSpec => []SameFileExclusion
<1>1. AdmInv => SameFileExclusion
  BY ClaimExcludes DEF AdmInv, Inv
<1> QED
  BY <1>1, AdmInitially, AdmKept, PTL DEF AdmSpec

-----------------------------------------------------------------------------
(* Supervision beside an administrator *)

LEMMA AdmSteps ==
  ASSUME [AdmNext]_allVars
  PROVE  [Next]_vars \/ Kill
BY AdminSteps DEF AdmNext, Services, Next, allVars

LEMMA AdmSupervisedStep ==
  ASSUME Orderly, AdmInv, StopAsked, [AdmNext]_allVars
  PROVE  StopAsked' /\ [Service!Next]_Phases
<1>1. CASE [Next]_vars
  BY <1>1, SupervisedStep DEF AdmInv
<1>2. CASE Kill
  BY <1>2 DEF Kill, ctlVars, StopAsked, Phases, Phase
<1> QED
  BY <1>1, <1>2, AdmSteps

(* A controller and its child keep to module Supervised when commands, of
   either tool and at any moment, start and stop them. *)
THEOREM AdmSupervisionIsSafe ==
  ASSUME Orderly
  PROVE  AdmSpec => Service!Safety
<1>1. AdmInit => StopAsked /\ Service!Init
  BY DEF AdmInit, Init, StopAsked, Service!Init, Phase, Handled, Live, Early, InJvm
<1>2. AdmInv /\ [AdmNext]_allVars => AdmInv'
  BY AdmKept
<1>3. AdmInv /\ StopAsked /\ [AdmNext]_allVars => StopAsked'
  BY AdmSupervisedStep
<1>4. AdmInv /\ StopAsked /\ [AdmNext]_allVars => [Service!Next]_[i \in Inst |-> Phase(i)]
  BY AdmSupervisedStep DEF Phases
<1> QED
  BY <1>1, <1>2, <1>3, <1>4, AdmInitially, PTL DEF AdmSpec, Service!Safety

-----------------------------------------------------------------------------
(* jsvc -wait reports a service that was up *)

(* Only a child that is up has its /tmp/<pid>.jsvc_up file, *)
UpFiles == \A p \in upfile : \E i \in Inst : child[i] = "up" /\ pid[i] = p

(* a controller that was killed has not exited with 0, *)
KilledFails == \A i \in Inst : ctl[i] = "killed" => status[i] = "fail"

(* wait_child waits for an instance, *)
WaitsForOne == adm \in Waiting => cur \in Inst

(* and when it has found the file of a pid, that service has been up. *)
FoundUp == adm = "last" => mark \in wasUp

ReadyInv == UpFiles /\ KilledFails /\ WaitsForOne /\ FoundUp

LEMMA EndKeepsFiles ==
  ASSUME TypeOK, UpFiles, KilledFails, NEW i \in Inst, NEW how, End(i, how),
         child[i] # "up", upfile' = upfile
  PROVE  UpFiles' /\ KilledFails'
<1> USE DEF TypeOK, End
<1>1. UpFiles'
  BY DEF UpFiles
<1>2. KilledFails'
  BY DEF KilledFails
<1> QED
  BY <1>1, <1>2

LEMMA FilesKept ==
  ASSUME Orderly, AdmInv, UpFiles, KilledFails, [Next]_vars
  PROVE  UpFiles' /\ KilledFails'
<1> USE DEF AdmInv, Inv, TypeInv, TypeOK, ClaimInv, Childless, UpFiles, KilledFails,
        fileVars, ctlVars, childVars
<1>0. ASSUME UNCHANGED <<ctl, status, child, pid, upfile>> PROVE UpFiles' /\ KilledFails'
  BY <1>0
<1>1. ASSUME NEW i \in Inst, Launch(i) \/ Controller(i) PROVE UpFiles' /\ KilledFails'
  <2>1. CASE Launch(i)
    BY <2>1 DEF Launch
  <2>2. CASE Fork(i)
    BY <2>2 DEF Fork
  <2>3. CASE ForkFails(i) \/ Arm(i) \/ Backoff(i)
    BY <2>3 DEF ForkFails, Arm, Backoff
  <2>4. CASE Reap(i)
    BY <2>4 DEF Reap
  <2>5. CASE Settle(i)
    BY <2>5 DEF Settle
  <2> QED
    BY <1>1, <2>1, <2>2, <2>3, <2>4, <2>5 DEF Controller
<1>2. ASSUME NEW i \in Inst, ClaimPidFile(i) PROVE UpFiles' /\ KilledFails'
  <2>1. CASE Open(i) \/ Lock(i) \/ Write(i)
    BY <2>1 DEF Open, Lock, Write, Moves
  <2>2. CASE OpenFails(i)
    BY <2>2, EndKeepsFiles DEF OpenFails, Moves
  <2>3. CASE Check(i)
    BY <2>3, EndKeepsFiles DEF Check, Moves
  <2> QED
    BY <1>2, <2>1, <2>2, <2>3 DEF ClaimPidFile
<1>3. ASSUME NEW i \in Inst, RunService(i) PROVE UpFiles' /\ KilledFails'
  <2>1. CASE InitJvm(i)
    BY <2>1, EndKeepsFiles DEF InitJvm, Moves
  <2>2. CASE StartFails(i) \/ StopService(i)
    BY <2>2, EndKeepsFiles DEF StartFails, StopService
  <2>3. CASE StartService(i)
    BY <2>3 DEF StartService, Moves
  <2>4. CASE CreateTmpFile(i)
    BY <2>4 DEF CreateTmpFile, Moves, UpFileName
  <2>5. CASE LeaveLoop(i)
    BY <2>5 DEF LeaveLoop, Moves, RemoveTmpFile, UpFileName
  <2> QED
    BY <1>3, <2>1, <2>2, <2>3, <2>4, <2>5 DEF RunService
<1>4. ASSUME NEW i \in Inst, NEW s \in Signals, Deliver(i, s) PROVE UpFiles' /\ KilledFails'
  BY <1>0, <1>4, EndKeepsFiles DEF Deliver, Early
<1>5. ASSUME NEW i \in Inst, Orphan(i), ctl[i] # "killed", UNCHANGED upfile
      PROVE  UpFiles' /\ KilledFails'
  BY <1>5 DEF Orphan, Live, InJvm, Handled
<1>6. ASSUME NEW i \in Inst, Failures(i) PROVE UpFiles' /\ KilledFails'
  BY <1>5, <1>6 DEF Failures, CtlCrash, Abort, Crash, Orderly
<1>7. ASSUME NEW i \in Inst, Signalled(i) PROVE UpFiles' /\ KilledFails'
  <2>1. PICK s \in UserSignals : CtlSignal(i, s) \/ UserSignal(i, s) \/ JavaRequest(i, s)
    BY <1>7 DEF Signalled
  <2>2. CASE CtlSignal(i, s)
    BY <1>0, <1>5, <2>2 DEF CtlSignal
  <2>3. CASE UserSignal(i, s)
    BY <1>0, <2>3 DEF UserSignal
  <2>4. CASE JavaRequest(i, s)
    BY <2>4 DEF JavaRequest
  <2> QED
    BY <2>1, <2>2, <2>3, <2>4
<1> QED
  BY <1>0, <1>1, <1>2, <1>3, <1>4, <1>6, <1>7
     DEF Next, System, StrangerStarts, StrangerEnds, vars

LEMMA ReadyKept ==
  ASSUME Orderly, AdmInv, ReadyInv, [AdmNext]_allVars
  PROVE  ReadyInv'
<1>1. UpFiles' /\ KilledFails'
  <2>1. CASE [Next]_vars
    BY <2>1, FilesKept DEF ReadyInv
  <2>2. CASE Kill
    BY <2>2 DEF Kill, fileVars, ctlVars, ReadyInv, UpFiles, KilledFails
  <2> QED
    BY <2>1, <2>2, AdmSteps
<1>2. WaitsForOne'
  BY DEF AdmNext, Admin, Wait, AdmStart, WaitChild, ReadPid, CheckTmpFile, OpenTmpFile, LastLook,
     ScriptStop, ScriptPoll, StopChild, Kill, StopChildPoll, NextRound, Returns, Waiting,
     ReadyInv, WaitsForOne, allVars, admVars
<1>3. FoundUp'
  <2>1. CASE OpenTmpFile /\ Remember
    BY <2>1 DEF OpenTmpFile, NextRound, Returns, Remember, Waiting, ReadyInv, UpFiles, FoundUp,
       vars
  <2>2. CASE Admin /\ ~OpenTmpFile
    BY <2>2 DEF Admin, Wait, AdmStart, WaitChild, ReadPid, CheckTmpFile, LastLook,
       ScriptStop, ScriptPoll, StopChild, Kill, StopChildPoll, NextRound, Returns, FoundUp
  <2>3. CASE UNCHANGED admVars /\ (Remember \/ UNCHANGED wasUp)
    BY <2>3 DEF Remember, Waiting, ReadyInv, FoundUp, admVars
  <2> QED
    BY <2>1, <2>2, <2>3 DEF AdmNext, allVars
<1> QED
  BY <1>1, <1>2, <1>3 DEF ReadyInv

(* When jsvc -wait returns 0, the pid it found is that of a service that was up
   during the wait, or the controller has exited with 0 by itself.  wait_child
   looks at the pid, at the /tmp file and at the controller at different
   moments, while the service may end and pids may be reused; it is the order
   in which the child makes and removes its file that keeps the answer from
   being about another process.  A child that crashes leaves the file behind. *)
THEOREM ReadyHolds ==
  ASSUME Orderly
  PROVE  AdmSpec => ReadyMeansUp
<1>1. AdmInit => ReadyInv
  BY DEF AdmInit, Init, ReadyInv, UpFiles, KilledFails, WaitsForOne, FoundUp, Waiting
<1>2. AdmInv /\ ReadyInv /\ [AdmNext]_allVars => ReadyInv'
  BY ReadyKept
<1>3. AdmInv /\ [AdmNext]_allVars => AdmInv'
  BY AdmKept
<1>4. AdmInv /\ ReadyInv /\ [AdmNext]_allVars =>
        [outcome' = "ready" /\ outcome # "ready" =>
           \/ mark \in wasUp
           \/ ctl[cur] = "off" /\ status[cur] = "ok"]_allVars
  <2> SUFFICES ASSUME AdmInv, ReadyInv, AdmNext, outcome' = "ready", outcome # "ready"
               PROVE  \/ mark \in wasUp
                      \/ ctl[cur] = "off" /\ status[cur] = "ok"
    OBVIOUS
  <2>1. WaitChild \/ LastLook
    BY DEF AdmNext, Admin, Wait, AdmStart, ReadPid, CheckTmpFile, OpenTmpFile, ScriptStop,
       ScriptPoll, StopChild, Kill, StopChildPoll, NextRound, Returns, admVars
  <2>2. cur \in Inst
    BY <2>1 DEF WaitChild, LastLook, Waiting, ReadyInv, WaitsForOne
  <2>3. CASE ControllerGone /\ Inherited = "ready"
    BY <2>2, <2>3 DEF ControllerGone, Inherited, ReadyInv, KilledFails
  <2>4. CASE LastLook
    BY <2>3, <2>4 DEF LastLook, Returns, ReadyInv, FoundUp
  <2> QED
    BY <2>1, <2>3, <2>4 DEF WaitChild, Returns
<1> QED
  BY <1>1, <1>2, <1>3, <1>4, AdmInitially, PTL DEF AdmSpec, ReadyMeansUp

-----------------------------------------------------------------------------
(* The careful administrator with the init script: no service fails while it
   starts, none aborts or is killed, and nobody else sends signals.  Forks and
   stops may fail and controllers may be killed; instances, pids, inodes and
   unrelated processes are any number, and some runs may be checks. *)

Scripted ==
    /\ Tool = "script"
    /\ Careful
    /\ UserSignals = {}
    /\ Faults \subseteq {"fork", "stop", "controller"}

(* The script does not wait for a start. *)
ByScript == adm \in {"idle", "kill", "await"}

(* Nothing asks for a reload, so no child is started again by itself; a check
   ends before it has a JVM. *)
Plain ==
    \A i \in Inst :
        /\ ~doreload[i]
        /\ ctl[i] # "backoff"
        /\ status[i] \notin {"reload", "signal"}
        /\ pend[i] \subseteq {"TERM"}
        /\ child[i] \notin Live => pend[i] = {}
        /\ child[i] \in InJvm => mode[i] = "run"

(* Only a stop that is under way has sent a signal, *)
Unasked == adm # "await" => \A i \in Inst : pend[i] = {} /\ ~stopping[i]

(* and while one is under way no service starts. *)
NoneStarts == adm # "idle" => \A i \in Inst : ctl[i] # "fork" /\ child[i] \notin Early

(* The name stays bound to the inode that a child has opened, until that child
   is done with it: nobody unlinks a file that is claimed. *)
NameKept ==
    \A i \in Inst : child[i] \in {"lock", "check", "write"} \/ Served(i) => file[i] = pidfile

(* The service of i has ended and its controller is about to unlink the file. *)
Leaving(i) ==
    /\ mode[i] = "run"
    /\ child[i] = "zombie" \/ ctl[i] = "reaped"
    /\ status[i] # "running"

(* That happens during a stop alone, when no other service is there. *)
LeavesLast ==
    \A i \in Inst : Leaving(i) =>
        /\ adm = "await"
        /\ pidfile # NoInode
        /\ \A j \in Inst : ~Served(j) /\ (Leaving(j) => j = i)

AllDown ==
    outcome = "stopped" =>
        /\ adm = "idle"
        /\ \A i \in Inst : ctl[i] # "fork" /\ child[i] \notin Live

ScriptInv ==
    /\ ByScript /\ Plain /\ StopAsked /\ Unasked /\ NoneStarts
    /\ NameKept /\ LeavesLast /\ AllDown

(* A child ends: a check, one that found the service running, or the service
   that a stop is for. *)
LEMMA EndScript ==
  ASSUME AdmInv, ScriptInv, NEW i \in Inst, NEW how \in {"ok", "running", "fail"}, End(i, how),
         child[i] \in Live, mode[i] = "run" => how = "running" \/ (Served(i) /\ adm = "await"),
         UNCHANGED <<pidfile, admVars>>
  PROVE  ScriptInv'
<1> USE DEF AdmInv, Inv, TypeInv, TypeOK, ClaimInv, Childless, HasFile, ScriptInv, Served,
        Live, Early, InJvm, Handled, CtlStates, admVars
<1>1. ByScript' /\ Plain' /\ StopAsked'
  BY DEF End, ByScript, Plain, StopAsked
<1>2. Unasked' /\ NoneStarts'
  BY DEF End, Unasked, NoneStarts
<1>3. NameKept'
  BY DEF End, NameKept
<1>4. AllDown'
  BY DEF End, AllDown
<1>5. ctl[i] # "reaped"
  OBVIOUS
<1>6. LeavesLast'
  <2>1. \A j \in Inst \ {i} : (Leaving(j)' <=> Leaving(j)) /\ (Served(j)' <=> Served(j))
    BY DEF End, Leaving
  <2>2. ~Served(i)' /\ pidfile' = pidfile /\ adm' = adm
    BY DEF End
  <2>3. CASE how = "running" \/ mode[i] = "check"
    <3>1. ~Leaving(i)'
      BY <1>5, <2>3 DEF End, Leaving, Modes
    <3> QED
      BY <2>1, <2>2, <3>1 DEF LeavesLast
  <2>4. CASE how # "running" /\ mode[i] = "run"
    <3>1. Served(i) /\ adm = "await" /\ pidfile # NoInode
      BY <2>4 DEF NameKept
    <3>2. \A j \in Inst : ~Leaving(j) /\ (Served(j) => j = i)
      BY <3>1, ClaimExcludes DEF NameKept, SameFileExclusion, LeavesLast
    <3> QED
      BY <2>1, <2>2, <3>1, <3>2 DEF LeavesLast
  <2> QED
    BY <2>3, <2>4 DEF Modes
<1> QED
  BY <1>1, <1>2, <1>3, <1>4, <1>6

LEMMA OtherFaults ==
  ASSUME Scripted
  PROVE  /\ "open" \notin Faults /\ "start" \notin Faults
         /\ "abort" \notin Faults /\ "crash" \notin Faults
BY DEF Scripted

(* The commands: a stop ends when the file is gone, and with it the service. *)
LEMMA CommandKeepsScript ==
  ASSUME Scripted, AdmInv, ScriptInv, AdmInv', Admin
  PROVE  ScriptInv'
<1> USE DEF Scripted, AdmTypeOK, Childless, HasFile, OwnPidWritten,
        AdmInv, Inv, TypeInv, TypeOK, ClaimInv,
        ScriptInv, ByScript, Plain, StopAsked, Unasked, NoneStarts,
        NameKept, LeavesLast, Leaving, AllDown, Served, Live, Early, InJvm, Handled,
        CtlStates, ChildStates, admVars, fileVars, ctlVars, childVars
<1>1. CASE AdmStart
  BY <1>1 DEF AdmStart, Launch, Returns
<1>2. CASE ScriptStop
  BY <1>2 DEF ScriptStop, MayStop, vars
<1>3. CASE ScriptPoll
  BY <1>3 DEF ScriptPoll, Returns, vars
<1>4. CASE Kill
  BY <1>4 DEF Kill, Sent
<1> QED
  BY <1>1, <1>2, <1>3, <1>4
     DEF Admin, Wait, WaitChild, ReadPid, CheckTmpFile, OpenTmpFile, LastLook, Waiting,
         StopChild, StopChildPoll

(* The controller: what it unlinks is the file of its own child. *)
LEMMA ControllerKeepsScript ==
  ASSUME Scripted, AdmInv, ScriptInv, AdmInv', NEW i \in Inst,
         Controller(i) \/ CtlCrash(i), UNCHANGED admVars
  PROVE  ScriptInv'
<1> USE DEF Childless, HasFile, AdmInv, Inv, TypeInv, TypeOK, ClaimInv,
        ScriptInv, ByScript, Plain, StopAsked, Unasked, NoneStarts,
        NameKept, LeavesLast, Leaving, AllDown, Served, Live, Early, InJvm, Handled,
        CtlStates, ChildStates, admVars, fileVars, ctlVars, childVars
<1>1. CASE Fork(i)
  BY <1>1 DEF Fork
<1>2. CASE ForkFails(i)
  BY <1>2 DEF ForkFails
<1>3. CASE Arm(i)
  BY <1>3 DEF Arm
<1>4. CASE Reap(i)
  BY <1>4 DEF Reap
<1>5. CASE Settle(i)
  BY <1>5 DEF Settle, Restarts, Unlinks
<1>6. CASE CtlCrash(i)
  BY <1>6 DEF CtlCrash, Orphan
<1> QED
  BY <1>1, <1>2, <1>3, <1>4, <1>5, <1>6
     DEF Controller, Backoff

(* The child: with the name bound to the file it has locked, check_pid lets it
   through only when no other service is there. *)
LEMMA ChildKeepsScript ==
  ASSUME Scripted, AdmInv, ScriptInv, AdmInv', NEW i \in Inst,
         ClaimPidFile(i) \/ RunService(i) \/ \E s \in Signals : Deliver(i, s),
         UNCHANGED admVars
  PROVE  ScriptInv'
<1> USE DEF Childless, HasFile, OwnPidWritten, NoOverwrite, AdmInv, Inv, TypeInv, TypeOK, ClaimInv,
        ScriptInv, ByScript, Plain, StopAsked, Unasked, NoneStarts,
        NameKept, LeavesLast, Leaving, AllDown, Served, Live, Early, InJvm, Handled,
        CtlStates, ChildStates, Endings, Modes, Signals, admVars, fileVars, ctlVars
<1>1. CASE Open(i)
  BY <1>1 DEF Open, Moves
<1>2. CASE Lock(i)
  BY <1>2 DEF Lock, Moves
<1>3. CASE Check(i)
  <2>1. CASE child[i] = "check" /\ mode[i] = "run" /\ End(i, "running")
    BY <1>3, <2>1, EndScript DEF Check
  <2>2. CASE Moves(i, "check", "write") /\ mode[i] = "run"
               /\ UNCHANGED <<ctlVars, pid, file, target, stopping, doreload, pend>>
    BY <1>3, <2>2 DEF Check, Moves
  <2>3. CASE Moves(i, "check", "init") /\ mode[i] = "check"
               /\ UNCHANGED <<ctlVars, pid, file, target, stopping, doreload, pend>>
    BY <1>3, <2>3 DEF Check, Moves
  <2> QED
    BY <1>3, <2>1, <2>2, <2>3 DEF Check
<1>4. CASE Write(i)
  BY <1>4 DEF Write, Moves
<1>5. CASE InitJvm(i)
  <2>1. CASE child[i] = "init" /\ mode[i] = "check" /\ End(i, "ok")
    BY <1>5, <2>1, EndScript DEF InitJvm
  <2>2. CASE Moves(i, "init", "load") /\ mode[i] = "run"
               /\ UNCHANGED <<ctlVars, pid, file, target, stopping, doreload, pend>>
    BY <1>5, <2>2 DEF InitJvm, Moves
  <2> QED
    BY <1>5, <2>1, <2>2 DEF InitJvm
<1>6. CASE StartService(i) \/ CreateTmpFile(i)
  <2>1. CASE StartService(i)
    BY <2>1 DEF StartService, Moves
  <2>2. CASE CreateTmpFile(i)
    BY <2>2 DEF CreateTmpFile, Moves
  <2> QED
    BY <1>6, <2>1, <2>2
<1>7. CASE LeaveLoop(i)
  BY <1>7 DEF LeaveLoop, Moves
<1>8. CASE StopService(i)
  <2>1. ~doreload[i] /\ stopping[i]
    BY <1>8 DEF StopService
  <2>2. End(i, "ok") \/ End(i, "fail")
    BY <1>8, <2>1 DEF StopService
  <2> QED
    BY <1>8, <2>1, <2>2, EndScript DEF StopService
<1>9. ASSUME NEW s \in Signals, Deliver(i, s) PROVE ScriptInv'
  <2>1. s = "TERM" /\ adm = "await"
    BY <1>9 DEF Deliver
  <2>2. CASE child[i] = "load" /\ End(i, "fail")
    BY <1>9, <2>1, <2>2, EndScript DEF Deliver
  <2>3. CASE child[i] \in Handled /\ UNCHANGED <<ctlVars, child, pid, file, target>>
               /\ stopping' = [stopping EXCEPT ![i] = TRUE]
               /\ doreload' = [doreload EXCEPT ![i] = Reloads(i, s)]
               /\ pend' = [pend EXCEPT ![i] = @ \ {s}]
    <3>1. ~Reloads(i, s)
      BY <2>1 DEF Reloads
    <3> QED
    BY <1>9, <2>1, <2>3, <3>1 DEF Deliver
  <2> QED
    BY <1>9, <2>1, <2>2, <2>3 DEF Deliver
<1> QED
  BY <1>1, <1>2, <1>3, <1>4, <1>5, <1>6, <1>7, <1>8, <1>9, OtherFaults
     DEF ClaimPidFile, RunService, OpenFails, StartFails

LEMMA ScriptKept ==
  ASSUME Scripted, AdmInv, ScriptInv, [AdmNext]_allVars
  PROVE  ScriptInv'
<1>1. AdmInv'
  BY AdmKept
<1>2. ASSUME NEW i \in Inst, UNCHANGED admVars, System(i) \/ Failures(i) PROVE ScriptInv'
  BY <1>1, <1>2, ControllerKeepsScript, ChildKeepsScript, OtherFaults
     DEF System, Failures, Abort, Crash
<1>3. ~\E i \in Inst : Signalled(i)
  BY DEF Signalled, Scripted
<1>4. CASE Admin
  BY <1>1, <1>4, CommandKeepsScript
<1>5. CASE UNCHANGED <<pidfile, ctl, mode, status, child, file, stopping, doreload, pend, admVars>>
  BY <1>5 DEF ScriptInv, ByScript, Plain, StopAsked, Unasked, NoneStarts, NameKept, LeavesLast,
     Leaving, AllDown, Served, admVars
<1> QED
  BY <1>2, <1>3, <1>4, <1>5
     DEF AdmNext, Services, allVars, vars, StrangerStarts, StrangerEnds, fileVars, ctlVars,
         childVars

LEMMA ScriptInitially ==
  ASSUME AdmInit
  PROVE  ScriptInv
BY DEF AdmInit, Init, ScriptInv, ByScript, Plain, StopAsked, Unasked, NoneStarts, NameKept,
   LeavesLast, Leaving, AllDown, Served, Live, Early, InJvm, Handled

LEMMA OneService ==
  ASSUME AdmInv, ScriptInv
  PROVE  AtMostOneService
BY ClaimExcludes DEF AdmInv, Inv, ScriptInv, NameKept, SameFileExclusion, AtMostOneService

LEMMA NamedService ==
  ASSUME AdmInv, ScriptInv
  PROVE  UpIsNamed
BY DEF AdmInv, Inv, ClaimInv, OwnPidWritten, ScriptInv, NameKept, UpIsNamed, Served, InJvm, Handled

LEMMA NoService ==
  ASSUME AdmInv, ScriptInv
  PROVE  DownMeansDown
<1>1. \A i \in Inst : Served(i) => child[i] \in Live
  BY DEF Served, Live, Early
<1> QED
  BY <1>1 DEF ScriptInv, AllDown, DownMeansDown

(* check_pid and the removal of the file by the controller keep two services
   from running on one pid file, when services are started at any time but
   stopped only while none is starting. *)
THEOREM OneServiceHolds ==
  ASSUME Scripted
  PROVE  AdmSpec => []AtMostOneService
BY AdmInitially, AdmKept, ScriptInitially, ScriptKept, OneService, PTL DEF AdmSpec

(* Under the same conditions the pid file names every service that is up, so
   that the next stop finds it. *)
THEOREM NamedHolds ==
  ASSUME Scripted
  PROVE  AdmSpec => []UpIsNamed
BY AdmInitially, AdmKept, ScriptInitially, ScriptKept, NamedService, PTL DEF AdmSpec

(* And when the script has seen the pid file go, no service is left, nor does
   one start again by itself. *)
THEOREM DownStays ==
  ASSUME Scripted
  PROVE  AdmSpec => []DownMeansDown
BY AdmInitially, AdmKept, ScriptInitially, ScriptKept, NoService, PTL DEF AdmSpec
=============================================================================
