-------------------------------- MODULE Jsvc --------------------------------
(***************************************************************************)
(* The Unix service supervisor jsvc (unix/native/jsvc-unix.c) and the pid  *)
(* file its processes share.                                               *)
(*                                                                         *)
(* One run of the jsvc command is an instance: a controller process that   *)
(* forks a child, waits for it and decides, from how it ended, to fork     *)
(* again or to exit; and the child, which claims the pid file, creates the *)
(* Java VM, runs the service and ends it on a signal.  Any number of       *)
(* instances share one pid file.  A step of the model is a stretch of code *)
(* between two calls that other processes can observe (open, lockf, write, *)
(* unlink, fork, waitpid, kill, exit).                                     *)
(*                                                                         *)
(* Sleeps have no duration here: a process that sleeps takes its next step *)
(* at any later time.  SIGINT is handled as SIGTERM is; SIGUSR1, SIGUSR2   *)
(* and the logger process are left out.                                    *)
(***************************************************************************)
EXTENDS Naturals, FiniteSets

CONSTANTS Inst,       \* runs of the jsvc command
          Pid,        \* process ids a child can be given
          Inode,      \* inodes the pid file's name can be bound to
          NoPid,      \* no process: controlled = 0, or an empty pid file
          NoInode,    \* no inode: the name is absent, or no file is open
          Strangers,  \* process ids that unrelated processes may take
          Mode,       \* how instances are run: see Modes
          Faults,     \* what may go wrong: see FaultKinds
          UserSignals \* signals that users send at any time

(* "check" stands for -version and -check, "run" for every other run. *)
Modes == {"run", "check"}
Signals == {"TERM", "HUP"}
FaultKinds == {"fork",        \* fork() fails
               "open",        \* the pid file cannot be opened
               "start",       \* user switch, JVM creation, load or start fail
               "stop",        \* java_stop or JVM_destroy fail
               "abort",       \* the JVM aborts: java_abort123
               "crash",       \* the child is killed by SIGKILL, SIGSEGV, ...
               "controller"}  \* the controller is killed

ASSUME JsvcAssumption ==
    /\ NoPid \notin Pid
    /\ NoInode \notin Inode
    /\ Strangers \subseteq Pid
    /\ Mode \subseteq Modes
    /\ Faults \subseteq FaultKinds
    /\ UserSignals \subseteq Signals

VARIABLES
    \* the file system and the process table
    pidfile,     \* the inode args->pidf names, or NoInode
    content,     \* the pid written in each inode
    upfile,      \* the pids p for which /tmp/<p>.jsvc_up exists
    foreign,     \* the pids of live unrelated processes
    \* each controller: run_controller
    ctl,         \* where it is
    mode,        \* how it was run
    controlled,  \* its static variable; NoPid until the handlers are set
    status,      \* how its last child ended; its own exit status once it is off
    \* each child: child
    child,       \* where it is
    pid,         \* its process id
    file,        \* the inode check_pid opened
    target,      \* its own copy of the static variable controlled
    stopping, doreload,
    pend         \* signals sent to it and not yet delivered

fileVars  == <<pidfile, content, upfile>>
ctlVars   == <<ctl, mode, controlled, status>>
childVars == <<child, pid, file, target, stopping, doreload, pend>>
vars == <<pidfile, content, upfile, foreign, ctl, mode, controlled, status,
          child, pid, file, target, stopping, doreload, pend>>

CtlStates == {"off", "fork", "arm", "wait", "reaped", "backoff", "killed"}
(* Before the JVM: the dispositions are those inherited from the controller. *)
Early == {"open", "lock", "check", "write", "init"}
(* jsvc's own handlers are installed. *)
Handled == {"ready", "up", "stopping"}
(* The JVM exists. *)
InJvm == {"load"} \cup Handled
Live == Early \cup InJvm
ChildStates == Live \cup {"none", "zombie"}
(* ok is 0, reload is 123, running is 122, fail any other exit status;
   signal: the child did not exit but was killed by a signal. *)
Endings == {"ok", "reload", "running", "fail", "signal"}

TypeOK ==
    /\ pidfile \in Inode \cup {NoInode}
    /\ content \in [Inode -> Pid \cup {NoPid}]
    /\ upfile \subseteq Pid
    /\ foreign \subseteq Strangers
    /\ ctl \in [Inst -> CtlStates]
    /\ mode \in [Inst -> Modes]
    /\ controlled \in [Inst -> Pid \cup {NoPid}]
    /\ status \in [Inst -> Endings]
    /\ child \in [Inst -> ChildStates]
    /\ pid \in [Inst -> Pid \cup {NoPid}]
    /\ file \in [Inst -> Inode \cup {NoInode}]
    /\ target \in [Inst -> Pid \cup {NoPid}]
    /\ stopping \in [Inst -> BOOLEAN]
    /\ doreload \in [Inst -> BOOLEAN]
    /\ pend \in [Inst -> SUBSET Signals]

Init ==
    /\ pidfile = NoInode
    /\ content = [n \in Inode |-> NoPid]
    /\ upfile = {}
    /\ foreign = {}
    /\ ctl = [i \in Inst |-> "off"]
    /\ mode = [i \in Inst |-> "run"]
    /\ controlled = [i \in Inst |-> NoPid]
    /\ status = [i \in Inst |-> "ok"]
    /\ child = [i \in Inst |-> "none"]
    /\ pid = [i \in Inst |-> NoPid]
    /\ file = [i \in Inst |-> NoInode]
    /\ target = [i \in Inst |-> NoPid]
    /\ stopping = [i \in Inst |-> FALSE]
    /\ doreload = [i \in Inst |-> FALSE]
    /\ pend = [i \in Inst |-> {}]

-----------------------------------------------------------------------------
(* Processes, signals and the end of a process *)

(* kill(p, 0) = 0: a zombie still counts. *)
Alive(p) == p \in foreign \/ \E j \in Inst : child[j] # "none" /\ pid[j] = p

(* The pending signals q after kill(p, s): only a live child keeps it. *)
Sent(q, p, s) ==
    [j \in Inst |-> IF child[j] \in Live /\ pid[j] = p THEN q[j] \cup {s} ELSE q[j]]

(* lockf locks die with their owner, so who holds one follows from where
   the children are. *)
Locked_NoLock(n) == FALSE                                         \* mutant
Locked_NoUnlock(n) ==                                             \* mutant
    \E j \in Inst : child[j] \in Live \ {"open", "lock"} /\ file[j] = n
Locked(n) == \E j \in Inst : child[j] \in {"check", "write"} /\ file[j] = n

(* The child ends: a zombie for its controller, or gone at once if it has
   been orphaned.  Its /tmp/<pid>.jsvc_up file stays. *)
End(i, how) ==
    /\ IF ctl[i] = "killed"
       THEN /\ child' = [child EXCEPT ![i] = "none"]
            /\ pid' = [pid EXCEPT ![i] = NoPid]
            /\ ctl' = [ctl EXCEPT ![i] = "off"]
            /\ UNCHANGED status
       ELSE /\ child' = [child EXCEPT ![i] = "zombie"]
            /\ status' = [status EXCEPT ![i] = how]
            /\ UNCHANGED <<pid, ctl>>
    /\ file' = [file EXCEPT ![i] = NoInode]
    /\ target' = [target EXCEPT ![i] = NoPid]
    /\ stopping' = [stopping EXCEPT ![i] = FALSE]
    /\ doreload' = [doreload EXCEPT ![i] = FALSE]
    /\ pend' = [pend EXCEPT ![i] = {}]
    /\ UNCHANGED <<mode, controlled>>

(* The controller is killed; a live child is orphaned, a zombie reaped. *)
Orphan(i) ==
    /\ ctl' = [ctl EXCEPT ![i] = IF child[i] \in Live THEN "killed" ELSE "off"]
    /\ controlled' = [controlled EXCEPT ![i] = NoPid]
    /\ status' = [status EXCEPT ![i] = "fail"]
    /\ child' = [child EXCEPT ![i] = IF @ = "zombie" THEN "none" ELSE @]
    /\ pid' = [pid EXCEPT ![i] = IF child[i] \in Live THEN @ ELSE NoPid]

-----------------------------------------------------------------------------
(* The controller: main and run_controller *)

(* The jsvc command is run; without -nodetach this is the detached process. *)
Launch(i) ==
    /\ ctl[i] = "off"
    /\ \E m \in Mode : mode' = [mode EXCEPT ![i] = m]
    /\ ctl' = [ctl EXCEPT ![i] = "fork"]
    /\ status' = [status EXCEPT ![i] = "ok"]
    /\ UNCHANGED <<fileVars, foreign, controlled, childVars>>

(* The child starts as a copy of the controller: its variable controlled is
   0 the first time and the previous child's pid afterwards. *)
Fork(i) ==
    /\ ctl[i] = "fork"
    /\ \E p \in Pid :
         /\ ~Alive(p)
         /\ pid' = [pid EXCEPT ![i] = p]
    /\ child' = [child EXCEPT ![i] = "open"]
    /\ target' = [target EXCEPT ![i] = controlled[i]]
    /\ ctl' = [ctl EXCEPT ![i] = "arm"]
    /\ UNCHANGED <<fileVars, foreign, mode, controlled, status, file, stopping,
                   doreload, pend>>

ForkFails(i) ==
    /\ "fork" \in Faults
    /\ ctl[i] = "fork"
    /\ ctl' = [ctl EXCEPT ![i] = "off"]
    /\ controlled' = [controlled EXCEPT ![i] = NoPid]
    /\ status' = [status EXCEPT ![i] = "fail"]
    /\ UNCHANGED <<fileVars, foreign, mode, childVars>>

(* controlled = pid, then the five calls of signal(). *)
Arm(i) ==
    /\ ctl[i] = "arm"
    /\ controlled' = [controlled EXCEPT ![i] = pid[i]]
    /\ ctl' = [ctl EXCEPT ![i] = "wait"]
    /\ UNCHANGED <<fileVars, foreign, mode, status, childVars>>

(* waitpid: from here on the child's pid is free. *)
Reap(i) ==
    /\ ctl[i] = "wait"
    /\ child[i] = "zombie"
    /\ child' = [child EXCEPT ![i] = "none"]
    /\ pid' = [pid EXCEPT ![i] = NoPid]
    /\ ctl' = [ctl EXCEPT ![i] = "reaped"]
    /\ UNCHANGED <<fileVars, foreign, mode, controlled, status, file, target,
                   stopping, doreload, pend>>

(* The pid file is removed, whatever it names by now, unless the child was
   killed by a signal or found the service running. *)
Unlinks_Always(i) == mode[i] = "run" /\ status[i] # "signal"      \* mutant
Unlinks_OnReload(i) == mode[i] = "run" /\ status[i] = "reload"    \* mutant
Unlinks(i) == mode[i] = "run" /\ status[i] \notin {"running", "signal"}

(* Exit status 123 and a death by signal are answered with another child. *)
Restarts_Always(i) == status[i] # "fail"                          \* mutant
Restarts(i) == status[i] \in {"reload", "signal"}

(* status is a variable of the loop's body: it is 0 again next time. *)
Settle(i) ==
    /\ ctl[i] = "reaped"
    /\ pidfile' = IF Unlinks(i) THEN NoInode ELSE pidfile
    /\ IF Restarts(i)
       THEN /\ ctl' = [ctl EXCEPT ![i] = "backoff"]
            /\ status' = [status EXCEPT ![i] = "ok"]
            /\ UNCHANGED controlled
       ELSE /\ ctl' = [ctl EXCEPT ![i] = "off"]
            /\ controlled' = [controlled EXCEPT ![i] = NoPid]
            /\ UNCHANGED status
    /\ UNCHANGED <<content, upfile, foreign, mode, childVars>>

(* sleep(60) is over, interrupted or not needed. *)
Backoff(i) ==
    /\ ctl[i] = "backoff"
    /\ ctl' = [ctl EXCEPT ![i] = "fork"]
    /\ UNCHANGED <<fileVars, foreign, mode, controlled, status, childVars>>

(* A user's signal: forwarded to controlled, live or not, once the handlers
   are set; fatal before. *)
CtlSignal(i, s) ==
    /\ ctl[i] \in CtlStates \ {"off", "killed"}
    /\ IF controlled[i] # NoPid
       THEN /\ pend' = Sent(pend, controlled[i], s)
            /\ UNCHANGED <<ctlVars, child, pid>>
       ELSE /\ Orphan(i)
            /\ UNCHANGED pend
    /\ UNCHANGED <<fileVars, foreign, mode, file, target, stopping, doreload>>

CtlCrash(i) ==
    /\ "controller" \in Faults
    /\ ctl[i] \in CtlStates \ {"off", "killed"}
    /\ Orphan(i)
    /\ UNCHANGED <<fileVars, foreign, mode, file, target, stopping,
                   doreload, pend>>

-----------------------------------------------------------------------------
(* The child: check_pid *)

Moves(i, from, to) ==
    /\ child[i] = from
    /\ child' = [child EXCEPT ![i] = to]

(* open(O_RDWR | O_CREAT), the missing directory made on the way. *)
Open(i) ==
    /\ Moves(i, "open", "lock")
    /\ IF pidfile = NoInode
       THEN \E n \in Inode \ {file[j] : j \in Inst} :
              /\ pidfile' = n
              /\ content' = [content EXCEPT ![n] = NoPid]
              /\ file' = [file EXCEPT ![i] = n]
       ELSE /\ file' = [file EXCEPT ![i] = pidfile]
            /\ UNCHANGED <<pidfile, content>>
    /\ UNCHANGED <<upfile, foreign, ctlVars, pid, target, stopping, doreload, pend>>

(* check_pid returns -1: fatal unless the run is only a check. *)
OpenFails(i) ==
    /\ "open" \in Faults
    /\ \/ /\ mode[i] = "check"
          /\ Moves(i, "open", "init")
          /\ UNCHANGED <<ctlVars, pid, file, target, stopping, doreload, pend>>
       \/ /\ mode[i] = "run"
          /\ child[i] = "open"
          /\ End(i, "fail")
    /\ UNCHANGED <<fileVars, foreign>>

Lock(i) ==
    /\ Moves(i, "lock", "check")
    /\ ~Locked(file[i])
    /\ UNCHANGED <<fileVars, foreign, ctlVars, pid, file, target, stopping,
                   doreload, pend>>

(* read, atoi, kill(pid, 0). *)
StillRunning_IfReady(n) ==                                        \* mutant
    content[n] # NoPid /\ Alive(content[n]) /\ content[n] \in upfile
StillRunning(n) == content[n] # NoPid /\ Alive(content[n])

(* 122 if the process named exists; -version and -check ignore that. *)
Check(i) ==
    /\ \/ /\ child[i] = "check"
          /\ mode[i] = "run" /\ StillRunning(file[i])
          /\ End(i, "running")
       \/ /\ Moves(i, "check", "write")
          /\ mode[i] = "run" /\ ~StillRunning(file[i])
          /\ UNCHANGED <<ctlVars, pid, file, target, stopping, doreload, pend>>
       \/ /\ Moves(i, "check", "init")
          /\ mode[i] = "check"
          /\ UNCHANGED <<ctlVars, pid, file, target, stopping, doreload, pend>>
    /\ UNCHANGED <<fileVars, foreign>>

(* fprintf, fflush, unlock: into the inode opened, bound to the name or not. *)
Write(i) ==
    /\ Moves(i, "write", "init")
    /\ content' = [content EXCEPT ![file[i]] = pid[i]]
    /\ UNCHANGED <<pidfile, upfile, foreign, ctlVars, pid, file, target, stopping,
                   doreload, pend>>

-----------------------------------------------------------------------------
(* The child: from the Java VM's creation to its end *)

(* linuxset_user_group, java_init; -version and -check end here. *)
InitJvm(i) ==
    /\ \/ /\ mode[i] = "run"
          /\ Moves(i, "init", "load")
          /\ UNCHANGED <<ctlVars, pid, file, target, stopping, doreload, pend>>
       \/ /\ mode[i] = "check"
          /\ child[i] = "init"
          /\ End(i, "ok")
    /\ UNCHANGED <<fileVars, foreign>>

(* Any of the steps up to java_start fails: exit status 1, 2, 3, 4, 5, 7 or -1. *)
StartFails(i) ==
    /\ "start" \in Faults
    /\ child[i] \in {"init", "load"}
    /\ End(i, "fail")
    /\ UNCHANGED <<fileVars, foreign>>

(* java_load, set_caps, java_start; then the handlers and controlled = getpid(). *)
StartService(i) ==
    /\ Moves(i, "load", "ready")
    /\ target' = [target EXCEPT ![i] = pid[i]]
    /\ UNCHANGED <<fileVars, foreign, ctlVars, pid, file, stopping, doreload, pend>>

(* create_tmp_file, remove_tmp_file *)
UpFileName_Controlled(i) == controlled[i]                         \* mutant
UpFileName(i) == pid[i]

CreateTmpFile(i) ==
    /\ Moves(i, "ready", "up")
    /\ upfile' = upfile \cup {UpFileName(i)}
    /\ UNCHANGED <<pidfile, content, foreign, ctlVars, pid, file, target, stopping,
                   doreload, pend>>

RemoveTmpFile_Not(i) == upfile                                    \* mutant
RemoveTmpFile(i) == upfile \ {UpFileName(i)}

(* The loop finds stopping set. *)
LeaveLoop(i) ==
    /\ stopping[i]
    /\ Moves(i, "up", "stopping")
    /\ upfile' = RemoveTmpFile(i)
    /\ UNCHANGED <<pidfile, content, foreign, ctlVars, pid, file, target, stopping,
                   doreload, pend>>

(* java_stop, java_destroy, JVM_destroy. *)
StopService(i) ==
    /\ child[i] = "stopping"
    /\ \/ End(i, IF doreload[i] THEN "reload" ELSE "ok")
       \/ "stop" \in Faults /\ End(i, "fail")
    /\ UNCHANGED <<fileVars, foreign>>

(* The Java code calls shutdown or failed (main_shutdown, main_reload):
   kill(controlled, s).  Before the handlers are set, controlled is that of
   the controller: an earlier child's pid, or 0, the whole process group. *)
JavaRequest(i, s) ==
    /\ child[i] \in InJvm
    /\ IF target[i] # NoPid
       THEN /\ pend' = Sent(pend, target[i], s)
            /\ UNCHANGED <<ctl, controlled, status>>
       ELSE /\ pend' = Sent(pend, pid[i], s)
            /\ IF ctl[i] = "arm"
               THEN /\ ctl' = [ctl EXCEPT ![i] = "killed"]
                    /\ controlled' = [controlled EXCEPT ![i] = NoPid]
                    /\ status' = [status EXCEPT ![i] = "fail"]
               ELSE UNCHANGED <<ctl, controlled, status>>
    /\ UNCHANGED <<fileVars, foreign, mode, child, pid, file, target,
                   stopping, doreload>>

(* handler: doreload after signal s. *)
Reloads_NoBreak(i, s) == TRUE                                     \* mutant
Reloads(i, s) == IF stopping[i] THEN doreload[i] ELSE s = "HUP"

(* A signal reaches the child.  In its first generation it is fatal until
   the JVM exists; in a later one it is forwarded to the previous child's
   pid; while the JVM's own handlers stand it ends the JVM (status 143 or
   129); under handler the first request wins. *)
Deliver(i, s) ==
    /\ s \in pend[i]
    /\ \/ /\ child[i] \in Early /\ target[i] = NoPid
          /\ End(i, "signal")
       \/ /\ child[i] \in Early /\ target[i] # NoPid
          /\ pend' = Sent([pend EXCEPT ![i] = @ \ {s}], target[i], s)
          /\ UNCHANGED <<ctlVars, child, pid, file, target, stopping, doreload>>
       \/ /\ child[i] = "load"
          /\ End(i, "fail")
       \/ /\ child[i] \in Handled
          /\ stopping' = [stopping EXCEPT ![i] = TRUE]
          /\ doreload' = [doreload EXCEPT ![i] = Reloads(i, s)]
          /\ pend' = [pend EXCEPT ![i] = @ \ {s}]
          /\ UNCHANGED <<ctlVars, child, pid, file, target>>
    /\ UNCHANGED <<fileVars, foreign>>

(* The JVM aborts and java_abort123 exits with 123. *)
Abort(i) ==
    /\ "abort" \in Faults
    /\ child[i] \in InJvm
    /\ End(i, "reload")
    /\ UNCHANGED <<fileVars, foreign>>

Crash(i) ==
    /\ "crash" \in Faults
    /\ child[i] \in Live
    /\ End(i, "signal")
    /\ UNCHANGED <<fileVars, foreign>>

-----------------------------------------------------------------------------
(* The environment *)

UserSignal(i, s) ==
    /\ child[i] \in Live
    /\ pend' = Sent(pend, pid[i], s)
    /\ UNCHANGED <<fileVars, foreign, ctlVars, child, pid, file, target, stopping,
                   doreload>>

StrangerStarts(p) ==
    /\ ~Alive(p)
    /\ foreign' = foreign \cup {p}
    /\ UNCHANGED <<fileVars, ctlVars, childVars>>

StrangerEnds(p) ==
    /\ p \in foreign
    /\ foreign' = foreign \ {p}
    /\ UNCHANGED <<fileVars, ctlVars, childVars>>

-----------------------------------------------------------------------------

Controller(i) == Fork(i) \/ ForkFails(i) \/ Arm(i) \/ Reap(i) \/ Settle(i) \/ Backoff(i)

ClaimPidFile(i) == Open(i) \/ OpenFails(i) \/ Lock(i) \/ Check(i) \/ Write(i)

RunService(i) ==
    InitJvm(i) \/ StartFails(i) \/ StartService(i) \/ CreateTmpFile(i)
      \/ LeaveLoop(i) \/ StopService(i)

Failures(i) == CtlCrash(i) \/ Abort(i) \/ Crash(i)

(* What the processes of an instance do by themselves. *)
System(i) ==
    Controller(i) \/ ClaimPidFile(i) \/ RunService(i)
      \/ \E s \in Signals : Deliver(i, s)

Signalled(i) ==
    \E s \in UserSignals : CtlSignal(i, s) \/ UserSignal(i, s) \/ JavaRequest(i, s)

Next ==
    \/ \E i \in Inst : Launch(i) \/ System(i) \/ Failures(i) \/ Signalled(i)
    \/ \E p \in Strangers : StrangerStarts(p) \/ StrangerEnds(p)

Spec == Init /\ [][Next]_vars

-----------------------------------------------------------------------------
(* Properties *)

(* The child of i has passed check_pid and written its pid. *)
Served(i) == mode[i] = "run" /\ child[i] \in {"init"} \cup InJvm

(* Two children that check_pid let through never share an inode: however
   instances start, end, crash or are signalled, and however pids are reused,
   the lock of check_pid lets one pid file have one service. *)
SameFileExclusion ==
    \A i, j \in Inst : i # j /\ Served(i) /\ Served(j) => file[i] # file[j]

(* Why: pids tell the children apart, a controller between two children has
   none, the lock is exclusive, and under it a child reads and writes the
   file, so the pid of a child that was let through stays in its file for as
   long as that child lives, and nobody is about to write over it. *)
HasPid == \A i \in Inst : child[i] # "none" => pid[i] # NoPid
PidsDiffer ==
    \A i, j \in Inst :
        i # j /\ child[i] # "none" /\ child[j] # "none" => pid[i] # pid[j]
Childless ==
    \A i \in Inst : ctl[i] \in {"off", "fork", "reaped", "backoff"} => child[i] = "none"
HasFile ==
    \A i \in Inst : child[i] \in {"lock", "check", "write"} \/ Served(i) => file[i] # NoInode
LockExclusive ==
    \A i, j \in Inst :
        /\ i # j
        /\ child[i] \in {"check", "write"}
        /\ child[j] \in {"check", "write"}
        => file[i] # file[j]
OwnPidWritten == \A i \in Inst : Served(i) => content[file[i]] = pid[i]
NoOverwrite ==
    \A i, j \in Inst : Served(i) /\ child[j] = "write" => file[i] # file[j]

ClaimInv == HasPid /\ PidsDiffer /\ Childless /\ HasFile /\ LockExclusive
              /\ OwnPidWritten /\ NoOverwrite

(* The phase of the service an instance supervises: what its child does, or,
   once that is dead, what the controller will do about it. *)
Phase(i) ==
    CASE child[i] \in Handled /\ ~stopping[i] -> "up"
      [] child[i] \in Handled /\ stopping[i]  -> IF doreload[i] THEN "reloading" ELSE "closing"
      [] child[i] \in Live \ Handled -> "starting"
      [] child[i] \notin Live /\ ctl[i] = "off" -> "down"
      [] child[i] \notin Live /\ ctl[i] \in {"fork", "backoff"} -> "starting"
      [] child[i] \notin Live /\ ctl[i] \notin {"off", "fork", "backoff"} ->
           IF status[i] \in {"reload", "signal"} THEN "starting" ELSE "ended"

Service == INSTANCE Supervised WITH phase <- [i \in Inst |-> Phase(i)]

(* The Java VM and the code of the service, java_init, java_load, java_start,
   java_stop and JVM_destroy, do not keep the child for ever.  jsvc sets them no
   limit, so whatever waits for them is stated under this condition. *)
JavaReturns == \A i \in Inst : []<>(child[i] \notin {"init", "load", "stopping"})

(* Without crashes of the child, the controller and the child of an instance
   implement the supervision promised by module Supervised; a request that has
   been accepted is carried out if the Java code returns. *)
Supervision == Service!Safety /\ Service!Leaves /\ (JavaReturns => Service!Obeys)
=============================================================================
