------------------------------ MODULE JsvcAdmin ------------------------------
(***************************************************************************)
(* An administrator who starts and stops the services of module Jsvc       *)
(* through the pid file, with one of two tools: the init script            *)
(* scripts/tomcat, or jsvc itself with -wait and -stop as                  *)
(* tomcat/bin/daemon.sh calls it.  One command runs at a time; a command   *)
(* polls, and gives up, at any time.                                       *)
(***************************************************************************)
EXTENDS Jsvc

CONSTANTS Tool,    \* "script" or "jsvc"
          Careful, \* stop only a service that is up while no start is under way
          NoInst

ASSUME AdminAssumption ==
    /\ Tool \in {"script", "jsvc"}
    /\ Careful \in BOOLEAN
    /\ NoInst \notin Inst

VARIABLES
    adm,     \* the command under way and where it is
    mark,    \* the pid that the command goes by: stop_child's, check_tmp_file's
    cur,     \* the instance wait_child waits for
    havejvm, \* wait_child's: the pid file named a live process once
    outcome, \* what the last command ended with
    wasUp    \* history: the pids of the services that were up during this wait

admVars == <<adm, mark, cur, havejvm, outcome>>
allVars == <<vars, admVars, wasUp>>

(* Where wait_child is in a round. *)
Waiting == {"waiting", "read", "probe", "open", "last"}
AdmStates == {"idle", "kill", "await"} \cup Waiting
(* "started": the script's start, which does not wait.  "ready" and "stopped"
   are exit status 0 of jsvc -wait and of a stop, "failed" any other. *)
Outcomes == {"never", "started", "ready", "stopped", "failed"}

AdmTypeOK ==
    /\ TypeOK
    /\ adm \in AdmStates
    /\ mark \in Pid \cup {NoPid}
    /\ cur \in Inst \cup {NoInst}
    /\ havejvm \in BOOLEAN
    /\ outcome \in Outcomes
    /\ wasUp \subseteq Pid

AdmInit ==
    /\ Init
    /\ adm = "idle"
    /\ mark = NoPid
    /\ cur = NoInst
    /\ havejvm = FALSE
    /\ outcome = "never"
    /\ wasUp = {}

-----------------------------------------------------------------------------
(* What a reader finds in the pid file: its lockf fails on a descriptor open
   for reading only, so it does not wait for the writer. *)
Written == IF pidfile = NoInode THEN NoPid ELSE content[pidfile]

(* get_pidf: the pid, if that process exists. *)
GetPidf == IF Written # NoPid /\ Alive(Written) THEN Written ELSE NoPid

Returns(what) ==
    /\ adm' = "idle"
    /\ mark' = NoPid
    /\ cur' = NoInst
    /\ havejvm' = FALSE
    /\ outcome' = what

(* Start: the script's jsvc returns once it has forked; with -wait it goes
   on in wait_child. *)
AdmStart ==
    /\ adm = "idle"
    /\ \E i \in Inst :
         /\ Launch(i)
         /\ IF Tool = "script"
            THEN Returns("started")
            ELSE /\ adm' = "waiting"
                 /\ cur' = i
                 /\ outcome' = "started"
                 /\ UNCHANGED <<mark, havejvm>>

(* What waitpid(pid, &status, WNOHANG) on the controller leads to: its exit
   status is passed on, 1 if it was killed. *)
ControllerGone == ctl[cur] \in {"off", "killed"}
Inherited == IF status[cur] = "ok" THEN "ready" ELSE "failed"

(* sleep(waittime), count--: another round, or none is left. *)
NextRound ==
    \/ Returns("failed")
    \/ /\ adm' = "waiting"
       /\ mark' = NoPid
       /\ UNCHANGED <<cur, havejvm, outcome>>

(* A round of wait_child begins with a look at the controller. *)
WaitChild ==
    /\ adm = "waiting"
    /\ IF ControllerGone
       THEN Returns(Inherited)
       ELSE /\ adm' = "read"
            /\ UNCHANGED <<mark, cur, havejvm, outcome>>
    /\ UNCHANGED vars

(* It reads the pid file, which must not vanish once it has named a process, *)
ReadPid ==
    /\ adm = "read"
    /\ \/ /\ pidfile = NoInode /\ havejvm
          /\ Returns("failed")
       \/ /\ GetPidf = NoPid
          /\ pidfile = NoInode => ~havejvm
          /\ NextRound
       \/ /\ GetPidf # NoPid
          /\ havejvm' = TRUE
          /\ adm' = "probe"
          /\ UNCHANGED <<mark, cur, outcome>>
    /\ UNCHANGED vars

(* and again in check_tmp_file, *)
CheckTmpFile ==
    /\ adm = "probe"
    /\ IF GetPidf = NoPid
       THEN NextRound
       ELSE /\ mark' = GetPidf
            /\ adm' = "open"
            /\ UNCHANGED <<cur, havejvm, outcome>>
    /\ UNCHANGED vars

(* which then opens /tmp/<pid>.jsvc_up; *)
OpenTmpFile ==
    /\ adm = "open"
    /\ IF mark \in upfile
       THEN adm' = "last" /\ UNCHANGED <<mark, cur, havejvm, outcome>>
       ELSE NextRound
    /\ UNCHANGED vars

(* and before it says "ready" it looks at the controller once more. *)
LastLook ==
    /\ adm = "last"
    /\ Returns(IF ControllerGone THEN Inherited ELSE "ready")
    /\ UNCHANGED vars

MayStop ==
    /\ adm = "idle"
    /\ Careful => /\ \E i \in Inst : child[i] = "up"
                  /\ \A i \in Inst : ctl[i] # "fork" /\ child[i] \notin Early

(* PID=`cat $PID_FILE`: without a pid, kill fails and the loop begins. *)
ScriptStop ==
    /\ Tool = "script"
    /\ MayStop
    /\ mark' = Written
    /\ adm' = IF Written = NoPid THEN "await" ELSE "kill"
    /\ UNCHANGED <<vars, cur, havejvm, outcome>>

(* while [ -e "$PID_FILE" ] *)
ScriptPoll ==
    /\ Tool = "script"
    /\ adm = "await"
    /\ pidfile = NoInode
    /\ Returns("stopped")
    /\ UNCHANGED vars

(* stop_child: -1 unless the file names a process. *)
StopChild ==
    /\ Tool = "jsvc"
    /\ MayStop
    /\ IF GetPidf = NoPid
       THEN Returns("failed")
       ELSE /\ mark' = GetPidf
            /\ adm' = "kill"
            /\ UNCHANGED <<cur, havejvm, outcome>>
    /\ UNCHANGED vars

(* kill(pid, SIGTERM), whoever has the pid by now. *)
Kill ==
    /\ adm = "kill"
    /\ pend' = Sent(pend, mark, "TERM")
    /\ adm' = "await"
    /\ UNCHANGED <<fileVars, foreign, ctlVars, child, pid, file, target, stopping,
                   doreload, mark, cur, havejvm, outcome>>

(* One round of stop_child's loop: 0 as soon as get_pidf finds no process;
   -1 when no round is left. *)
StopChildPoll ==
    /\ Tool = "jsvc"
    /\ adm = "await"
    /\ \/ GetPidf = NoPid /\ Returns("stopped")
       \/ Returns("failed")
    /\ UNCHANGED vars

Wait == WaitChild \/ ReadPid \/ CheckTmpFile \/ OpenTmpFile \/ LastLook

Admin == AdmStart \/ Wait \/ ScriptStop \/ ScriptPoll \/ StopChild \/ Kill \/ StopChildPoll

(* History: the services that a wait could have seen. *)
Remember ==
    wasUp' = IF adm' \in Waiting
             THEN wasUp \cup {pid'[i] : i \in {j \in Inst : child'[j] = "up"}}
             ELSE {}

Services ==
    \/ \E i \in Inst : System(i) \/ Failures(i) \/ Signalled(i)
    \/ \E p \in Strangers : StrangerStarts(p) \/ StrangerEnds(p)

AdmNext == (Admin \/ (Services /\ UNCHANGED admVars)) /\ Remember

AdmSpec == AdmInit /\ [][AdmNext]_allVars

-----------------------------------------------------------------------------
(* Fairness: the controller and the child of an instance are processes of
   their own that the kernel schedules, a pending signal is delivered, a
   waiter for the pid file's lock gets it when it is released again and
   again (the kernel queues waiters), and a command that has begun goes on.
   Nothing is assumed of the Java VM and the service's code (the steps of the
   child in "init", "load" and "stopping", and its end by a signal while the
   VM's own handlers stand), of the administrator's choices, users or faults. *)
OwnSteps(i) == ClaimPidFile(i) \/ CreateTmpFile(i) \/ LeaveLoop(i)

Fairness ==
    /\ \A i \in Inst :
         /\ WF_allVars(Controller(i) /\ UNCHANGED admVars /\ Remember)
         /\ WF_allVars(OwnSteps(i) /\ UNCHANGED admVars /\ Remember)
         /\ SF_allVars(Lock(i) /\ UNCHANGED admVars /\ Remember)
         /\ \A s \in Signals :
              WF_allVars(Deliver(i, s) /\ child[i] # "load" /\ UNCHANGED admVars /\ Remember)
    /\ WF_allVars(Wait /\ Remember)
    /\ WF_allVars(Kill /\ Remember)
    /\ WF_allVars(ScriptPoll /\ Remember)
    /\ WF_allVars(StopChildPoll /\ Remember)

AdmFairSpec == AdmSpec /\ Fairness

-----------------------------------------------------------------------------
(* Properties *)

(* Never two services on one pid file ("Check pid and if still running"). *)
AtMostOneService == \A i, j \in Inst : Served(i) /\ Served(j) => i = j

(* A service that is up can be found and stopped: the pid file exists and
   holds its child's pid, so no other controller removed or replaced it. *)
UpIsNamed ==
    \A i \in Inst : mode[i] = "run" /\ child[i] = "up" =>
        pidfile = file[i] /\ content[file[i]] = pid[i]

(* Once a stop has reported success, and until the next start, no service
   runs: none survived and none is restarted. *)
DownMeansDown ==
    outcome = "stopped" /\ adm = "idle" => \A i \in Inst : ~Served(i)

(* When jsvc -wait reports success ("ready JVM started"), the pid it went by
   is that of a service that was up while it waited, though it may have been
   told to stop since; or the controller that was waited for is gone already
   and exited with 0. *)
ReadyMeansUp ==
    [][outcome' = "ready" /\ outcome # "ready" =>
         \/ mark \in wasUp
         \/ ctl[cur] = "off" /\ status[cur] = "ok"]_allVars

(* A stop command ends, if the service's java_stop does. *)
StopCompletes == JavaReturns => (adm \in {"kill", "await"} ~> adm = "idle")

(* Every controller that is run gets a child past check_pid, or exits: nobody
   waits for the lock of the pid file for ever, whatever the services do. *)
ClaimCompletes == \A i \in Inst : ctl[i] = "fork" ~> Served(i) \/ ctl[i] = "off"
=============================================================================
