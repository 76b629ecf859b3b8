----------------------------- MODULE JsvcProofs -----------------------------
(***************************************************************************)
(* Proofs about Jsvc, for any number of instances, pids and inodes and any *)
(* combination of faults and user signals: types, one child for each inode *)
(* of the pid file, and, without crashes of the child, the steps that      *)
(* module Supervised allows an instance.                                   *)
(***************************************************************************)
EXTENDS Jsvc, TLAPS

(* The end of a child keeps the types of what it changes. *)
LEMMA EndTyped ==
  ASSUME TypeOK, NEW i \in Inst, NEW how \in Endings, End(i, how)
  PROVE  /\ ctl' \in [Inst -> CtlStates]
         /\ mode' \in [Inst -> Modes]
         /\ controlled' \in [Inst -> Pid \cup {NoPid}]
         /\ status' \in [Inst -> Endings]
         /\ child' \in [Inst -> ChildStates]
         /\ pid' \in [Inst -> Pid \cup {NoPid}]
         /\ file' \in [Inst -> Inode \cup {NoInode}]
         /\ target' \in [Inst -> Pid \cup {NoPid}]
         /\ stopping' \in [Inst -> BOOLEAN]
         /\ doreload' \in [Inst -> BOOLEAN]
         /\ pend' \in [Inst -> SUBSET Signals]
<1> USE DEF TypeOK
<1>1. /\ ctl' \in [Inst -> CtlStates] /\ mode' \in [Inst -> Modes]
      /\ controlled' \in [Inst -> Pid \cup {NoPid}]
  BY DEF End, CtlStates
<1>2. status' \in [Inst -> Endings]
  BY DEF End
<1>3. child' \in [Inst -> ChildStates] /\ pid' \in [Inst -> Pid \cup {NoPid}]
  BY DEF End, ChildStates
<1>4. file' \in [Inst -> Inode \cup {NoInode}] /\ target' \in [Inst -> Pid \cup {NoPid}]
  BY DEF End
<1>5. /\ stopping' \in [Inst -> BOOLEAN]
      /\ doreload' \in [Inst -> BOOLEAN]
      /\ pend' \in [Inst -> SUBSET Signals]
  BY DEF End
<1> QED
  BY <1>1, <1>2, <1>3, <1>4, <1>5

LEMMA SentTyped ==
  ASSUME NEW q \in [Inst -> SUBSET Signals], NEW p, NEW s \in Signals
  PROVE  Sent(q, p, s) \in [Inst -> SUBSET Signals]
BY DEF Sent

(* Types, and that a process has a pid: create_tmp_file names a file after it. *)
TypeInv == TypeOK /\ HasPid

LEMMA EndKeeps ==
  ASSUME TypeInv, NEW i \in Inst, NEW how \in Endings, End(i, how),
         child[i] # "none", UNCHANGED <<pidfile, content, upfile, foreign>>
  PROVE  TypeInv'
<1>1. TypeOK'
  BY EndTyped DEF TypeInv, TypeOK
<1>2. HasPid'
  BY DEF TypeInv, TypeOK, HasPid, End
<1> QED
  BY <1>1, <1>2 DEF TypeInv

LEMMA TypeKept ==
  ASSUME TypeInv, [Next]_vars
  PROVE  TypeInv'
<1> USE JsvcAssumption DEF TypeInv, TypeOK, HasPid, CtlStates, Modes, Endings, ChildStates,
        Live, Early, InJvm, Handled, fileVars, ctlVars, childVars
<1>1. ASSUME NEW i \in Inst, Launch(i) PROVE TypeInv'
  BY <1>1 DEF Launch
<1>2. ASSUME NEW i \in Inst, Fork(i) PROVE TypeInv'
  BY <1>2 DEF Fork, Alive
<1>3. ASSUME NEW i \in Inst, ForkFails(i) PROVE TypeInv'
  BY <1>3 DEF ForkFails
<1>4. ASSUME NEW i \in Inst, Arm(i) PROVE TypeInv'
  BY <1>4 DEF Arm
<1>5. ASSUME NEW i \in Inst, Reap(i) PROVE TypeInv'
  BY <1>5 DEF Reap
<1>6. ASSUME NEW i \in Inst, Settle(i) PROVE TypeInv'
  BY <1>6 DEF Settle
<1>7. ASSUME NEW i \in Inst, Backoff(i) PROVE TypeInv'
  BY <1>7 DEF Backoff
<1>8. ASSUME NEW i \in Inst, Open(i) PROVE TypeInv'
  BY <1>8 DEF Open, Moves
<1>9. ASSUME NEW i \in Inst, OpenFails(i) PROVE TypeInv'
  <2>1. CASE mode[i] = "check" /\ Moves(i, "open", "init")
    BY <2>1, <1>9 DEF OpenFails, Moves
  <2>2. CASE child[i] = "open" /\ End(i, "fail")
    BY <2>2, <1>9, EndKeeps DEF OpenFails
  <2> QED
    BY <2>1, <2>2, <1>9 DEF OpenFails
<1>10. ASSUME NEW i \in Inst, Lock(i) PROVE TypeInv'
  BY <1>10 DEF Lock, Moves
<1>11. ASSUME NEW i \in Inst, Check(i) PROVE TypeInv'
  <2>1. CASE child[i] = "check" /\ End(i, "running")
    BY <2>1, <1>11, EndKeeps DEF Check
  <2>2. CASE Moves(i, "check", "write") \/ Moves(i, "check", "init")
    BY <2>2, <1>11 DEF Check, Moves, End
  <2> QED
    BY <2>1, <2>2, <1>11 DEF Check
<1>12. ASSUME NEW i \in Inst, Write(i) PROVE TypeInv'
  BY <1>12 DEF Write, Moves
<1>13. ASSUME NEW i \in Inst, InitJvm(i) PROVE TypeInv'
  <2>1. CASE Moves(i, "init", "load")
    BY <2>1, <1>13 DEF InitJvm, Moves, End
  <2>2. CASE child[i] = "init" /\ End(i, "ok")
    BY <2>2, <1>13, EndKeeps DEF InitJvm
  <2> QED
    BY <2>1, <2>2, <1>13 DEF InitJvm
<1>14. ASSUME NEW i \in Inst, StartFails(i) PROVE TypeInv'
  <2>1. child[i] # "none" /\ End(i, "fail")
    BY <1>14 DEF StartFails
  <2> QED
    BY <2>1, <1>14, EndKeeps DEF StartFails
<1>15. ASSUME NEW i \in Inst, StartService(i) PROVE TypeInv'
  BY <1>15 DEF StartService, Moves
<1>16. ASSUME NEW i \in Inst, CreateTmpFile(i) PROVE TypeInv'
  BY <1>16 DEF CreateTmpFile, Moves, UpFileName
<1>17. ASSUME NEW i \in Inst, LeaveLoop(i) PROVE TypeInv'
  BY <1>17 DEF LeaveLoop, Moves, RemoveTmpFile
<1>18. ASSUME NEW i \in Inst, StopService(i) PROVE TypeInv'
  <2>1. PICK how \in Endings : End(i, how)
    BY <1>18 DEF StopService, Endings
  <2> QED
    BY <2>1, <1>18, EndKeeps DEF StopService
<1>19. ASSUME NEW i \in Inst, NEW s \in Signals, Deliver(i, s) PROVE TypeInv'
  <2>1. CASE child[i] \in Live /\ (End(i, "signal") \/ End(i, "fail"))
    BY <2>1, <1>19, EndKeeps DEF Deliver
  <2>2. CASE child[i] \in Early /\ pend' = Sent([pend EXCEPT ![i] = @ \ {s}], target[i], s)
               /\ UNCHANGED <<ctlVars, child, pid, file, target, stopping, doreload>>
    <3>1. [pend EXCEPT ![i] = @ \ {s}] \in [Inst -> SUBSET Signals]
      OBVIOUS
    <3> QED
      BY <2>2, <3>1, <1>19, SentTyped DEF Deliver
  <2>3. CASE child[i] \in Handled /\ UNCHANGED <<ctlVars, child, pid, file, target>>
               /\ stopping' = [stopping EXCEPT ![i] = TRUE]
               /\ doreload' = [doreload EXCEPT ![i] = Reloads(i, s)]
               /\ pend' = [pend EXCEPT ![i] = @ \ {s}]
    BY <2>3, <1>19 DEF Deliver, Reloads
  <2> QED
    BY <2>1, <2>2, <2>3, <1>19 DEF Deliver
<1>20. ASSUME NEW i \in Inst, CtlCrash(i) PROVE TypeInv'
  BY <1>20 DEF CtlCrash, Orphan
<1>21. ASSUME NEW i \in Inst, Abort(i) PROVE TypeInv'
  <2>1. child[i] # "none" /\ End(i, "reload")
    BY <1>21 DEF Abort
  <2> QED
    BY <2>1, <1>21, EndKeeps DEF Abort
<1>22. ASSUME NEW i \in Inst, Crash(i) PROVE TypeInv'
  <2>1. child[i] # "none" /\ End(i, "signal")
    BY <1>22 DEF Crash
  <2> QED
    BY <2>1, <1>22, EndKeeps DEF Crash
<1>23. ASSUME NEW i \in Inst, NEW s \in Signals, CtlSignal(i, s) PROVE TypeInv'
  <2>1. CASE controlled[i] # NoPid
    BY <2>1, <1>23, SentTyped DEF CtlSignal
  <2>2. CASE controlled[i] = NoPid
    BY <2>2, <1>23 DEF CtlSignal, Orphan
  <2> QED
    BY <2>1, <2>2
<1>24. ASSUME NEW i \in Inst, NEW s \in Signals, UserSignal(i, s) PROVE TypeInv'
  BY <1>24, SentTyped DEF UserSignal
<1>25. ASSUME NEW i \in Inst, NEW s \in Signals, JavaRequest(i, s) PROVE TypeInv'
  BY <1>25, SentTyped DEF JavaRequest
<1>26. ASSUME NEW p \in Strangers, StrangerStarts(p) PROVE TypeInv'
  BY <1>26 DEF StrangerStarts, Alive
<1>27. ASSUME NEW p \in Strangers, StrangerEnds(p) PROVE TypeInv'
  BY <1>27 DEF StrangerEnds
<1>28. CASE UNCHANGED vars
  BY <1>28 DEF vars
<1> QED
  BY <1>1, <1>2, <1>3, <1>4, <1>5, <1>6, <1>7, <1>8, <1>9, <1>10, <1>11, <1>12, <1>13, <1>14,
     <1>15, <1>16, <1>17, <1>18, <1>19, <1>20, <1>21, <1>22, <1>23, <1>24, <1>25, <1>26, <1>27, <1>28
     DEF Next, System, Controller, ClaimPidFile, RunService, Failures, Signalled

(* Every operation keeps every variable in its type. *)
THEOREM TypeCorrect == Spec => []TypeOK
<1>1. Init => TypeInv
  BY JsvcAssumption DEF Init, TypeInv, TypeOK, HasPid, CtlStates, Modes, Endings, ChildStates
<1>2. TypeInv /\ [Next]_vars => TypeInv'
  BY TypeKept
<1>3. TypeInv => TypeOK
  BY DEF TypeInv
<1> QED
  BY <1>1, <1>2, <1>3, PTL DEF Spec

-----------------------------------------------------------------------------
(* One inode serves one child.  ClaimInv is inductive given the types; each
   of its conjuncts is what the next one needs: pids differ and exist, a
   controller that may fork or has reaped has no child, the lock is
   exclusive, so what a child wrote under it stays. *)

Inv == TypeInv /\ ClaimInv

(* Steps that leave alone what ClaimInv is about. *)
LEMMA ClaimFrame ==
  ASSUME ClaimInv, UNCHANGED <<content, ctl, mode, child, pid, file>>
  PROVE  ClaimInv'
BY DEF ClaimInv, HasPid, PidsDiffer, Childless, HasFile, LockExclusive, OwnPidWritten,
       NoOverwrite, Served

(* A child that ends gives up its claim and its lock. *)
LEMMA ClaimEnd ==
  ASSUME Inv, NEW i \in Inst, NEW how \in Endings, End(i, how), child[i] \in Live,
         UNCHANGED content
  PROVE  ClaimInv'
<1> USE DEF Inv, TypeInv, TypeOK, ClaimInv, Live, Early, InJvm, Handled, End
<1>1. HasPid' /\ PidsDiffer' /\ Childless'
  <2>1. CASE ctl[i] = "killed"
    BY <2>1 DEF HasPid, PidsDiffer, Childless
  <2>2. CASE ctl[i] # "killed"
    <3>1. HasPid' /\ PidsDiffer'
      BY <2>2 DEF HasPid, PidsDiffer
    <3>2. \A j \in Inst : child'[j] = "none" <=> child[j] = "none"
      BY <2>2
    <3>3. Childless'
      BY <2>2, <3>2 DEF Childless
    <3> QED
      BY <3>1, <3>3
  <2> QED
    BY <2>1, <2>2
<1>2. HasFile' /\ LockExclusive'
  BY DEF HasFile, LockExclusive, Served
<1>3. OwnPidWritten' /\ NoOverwrite'
  BY DEF OwnPidWritten, NoOverwrite, Served
<1> QED
  BY <1>1, <1>2, <1>3

(* A child goes on to a later place of its code and claims nothing new. *)
LEMMA ClaimMoves ==
  ASSUME Inv, NEW i \in Inst, NEW from \in Live, NEW to \in Live, Moves(i, from, to),
         \/ from \in {"init"} \cup InJvm /\ to \in {"init"} \cup InJvm
         \/ mode[i] = "check" /\ to = "init",
         UNCHANGED <<content, ctl, mode, pid, file>>
  PROVE  ClaimInv'
<1> USE DEF Inv, TypeInv, TypeOK, ClaimInv, Live, Early, InJvm, Handled, Moves
<1>1. HasPid' /\ PidsDiffer' /\ Childless'
  BY DEF HasPid, PidsDiffer, Childless
<1>2. HasFile' /\ LockExclusive'
  BY DEF HasFile, LockExclusive, Served
<1>3. OwnPidWritten' /\ NoOverwrite'
  BY DEF OwnPidWritten, NoOverwrite, Served
<1> QED
  BY <1>1, <1>2, <1>3

(* A controller is killed: its zombie goes with it, its live child goes on. *)
LEMMA ClaimOrphan ==
  ASSUME Inv, NEW i \in Inst, Orphan(i), UNCHANGED <<content, mode, file>>
  PROVE  ClaimInv'
<1> USE DEF Inv, TypeInv, TypeOK, ClaimInv, ChildStates, Live, Early, InJvm, Handled, Orphan
<1>1. HasPid' /\ PidsDiffer' /\ Childless'
  BY DEF HasPid, PidsDiffer, Childless
<1>2. HasFile' /\ LockExclusive'
  BY DEF HasFile, LockExclusive, Served
<1>3. OwnPidWritten' /\ NoOverwrite'
  BY DEF OwnPidWritten, NoOverwrite, Served
<1> QED
  BY <1>1, <1>2, <1>3

-----------------------------------------------------------------------------
(* The controller's steps *)

LEMMA ClaimController ==
  ASSUME Inv, NEW i \in Inst, Launch(i) \/ Controller(i)
  PROVE  ClaimInv'
<1> USE JsvcAssumption DEF Inv, TypeInv, TypeOK, ClaimInv, Live, Early, InJvm, Handled,
        fileVars, childVars
<1>1. CASE Launch(i)
  <2>1. child[i] = "none"
    BY <1>1 DEF Launch, Childless
  <2>2. HasPid' /\ PidsDiffer' /\ Childless'
    BY <1>1, <2>1 DEF Launch, HasPid, PidsDiffer, Childless
  <2>3. \A j \in Inst : Served(j)' => Served(j)
    BY <1>1, <2>1 DEF Launch, Served
  <2>4. HasFile' /\ LockExclusive' /\ OwnPidWritten' /\ NoOverwrite'
    BY <1>1, <2>3 DEF Launch, HasFile, LockExclusive, OwnPidWritten, NoOverwrite
  <2> QED
    BY <2>2, <2>4
<1>2. CASE Fork(i)
  <2>1. \A j \in Inst : child[j] # "none" => pid[j] # pid'[i]
    BY <1>2 DEF Fork, Alive
  <2>2. HasPid' /\ PidsDiffer' /\ Childless'
    BY <1>2, <2>1 DEF Fork, HasPid, PidsDiffer, Childless
  <2>3. \A j \in Inst : Served(j)' => Served(j) /\ j # i
    BY <1>2 DEF Fork, Served
  <2>4. HasFile' /\ LockExclusive' /\ OwnPidWritten' /\ NoOverwrite'
    BY <1>2, <2>3 DEF Fork, HasFile, LockExclusive, OwnPidWritten, NoOverwrite
  <2> QED
    BY <2>2, <2>4
<1>3. CASE ForkFails(i) \/ Arm(i) \/ Settle(i) \/ Backoff(i)
  <2>1. Childless'
    BY <1>3 DEF ForkFails, Arm, Settle, Backoff, Childless
  <2>2. UNCHANGED <<content, mode, child, pid, file>>
    BY <1>3 DEF ForkFails, Arm, Settle, Backoff
  <2> QED
    BY <2>1, <2>2 DEF HasPid, PidsDiffer, HasFile, LockExclusive, OwnPidWritten,
                      NoOverwrite, Served
<1>4. CASE Reap(i)
  <2>1. HasPid' /\ PidsDiffer' /\ Childless'
    BY <1>4 DEF Reap, HasPid, PidsDiffer, Childless
  <2>2. HasFile' /\ LockExclusive' /\ OwnPidWritten' /\ NoOverwrite'
    BY <1>4 DEF Reap, HasFile, LockExclusive, OwnPidWritten, NoOverwrite, Served
  <2> QED
    BY <2>1, <2>2
<1> QED
  BY <1>1, <1>2, <1>3, <1>4 DEF Controller

-----------------------------------------------------------------------------
(* check_pid *)

LEMMA ClaimOpen ==
  ASSUME Inv, NEW i \in Inst, Open(i)
  PROVE  ClaimInv'
<1> USE JsvcAssumption DEF Inv, TypeInv, TypeOK, ClaimInv, Live, Early, InJvm, Handled,
        ctlVars, Open, Moves
<1>1. HasPid' /\ PidsDiffer' /\ Childless'
  BY DEF HasPid, PidsDiffer, Childless
<1>2. \A j \in Inst : Served(j)' => Served(j) /\ j # i
  BY DEF Served
<1>3. HasFile'
  BY <1>2 DEF HasFile
<1>4. LockExclusive' /\ NoOverwrite'
  BY <1>2 DEF LockExclusive, NoOverwrite
<1>5. \A j \in Inst : content'[file[j]] = content[file[j]] \/ file[j] = NoInode
  OBVIOUS
<1>6. OwnPidWritten'
  BY <1>2, <1>5 DEF OwnPidWritten, HasFile
<1> QED
  BY <1>1, <1>3, <1>4, <1>6

LEMMA ClaimLock ==
  ASSUME Inv, NEW i \in Inst, Lock(i)
  PROVE  ClaimInv'
<1> USE DEF Inv, TypeInv, TypeOK, ClaimInv, Live, Early, InJvm, Handled, ctlVars, fileVars,
        Lock, Moves
<1>1. HasPid' /\ PidsDiffer' /\ Childless'
  BY DEF HasPid, PidsDiffer, Childless
<1>2. \A j \in Inst : Served(j)' => Served(j)
  BY DEF Served
<1>3. HasFile' /\ OwnPidWritten' /\ NoOverwrite'
  BY <1>2 DEF HasFile, OwnPidWritten, NoOverwrite
<1>4. LockExclusive'
  BY DEF LockExclusive, Locked
<1> QED
  BY <1>1, <1>3, <1>4

(* A child that goes on to write has found no live process in the file, so no
   child that was let through shares its file. *)
LEMMA ClaimCheck ==
  ASSUME Inv, NEW i \in Inst, mode[i] = "run", Moves(i, "check", "write"),
         ~StillRunning(file[i]),
         UNCHANGED <<content, ctl, mode, pid, file>>
  PROVE  ClaimInv'
<1> USE DEF Inv, TypeInv, TypeOK, ClaimInv, Live, Early, InJvm, Handled, Moves
<1>1. HasPid' /\ PidsDiffer' /\ Childless'
  BY DEF HasPid, PidsDiffer, Childless
<1>2. \A j \in Inst : Served(j)' => Served(j)
  BY DEF Served
<1>3. HasFile' /\ OwnPidWritten' /\ LockExclusive'
  BY <1>2 DEF HasFile, OwnPidWritten, LockExclusive
<1>4. ASSUME NEW j \in Inst, Served(j), file[j] = file[i] PROVE FALSE
  <2>1. content[file[i]] = pid[j] /\ child[j] # "none" /\ pid[j] # NoPid
    BY <1>4 DEF OwnPidWritten, Served, HasPid
  <2> QED
    BY <2>1 DEF StillRunning, Alive
<1>5. NoOverwrite'
  BY <1>2, <1>4 DEF NoOverwrite
<1> QED
  BY <1>1, <1>3, <1>5

LEMMA ClaimWrite ==
  ASSUME Inv, NEW i \in Inst, Write(i)
  PROVE  ClaimInv'
<1> USE DEF Inv, TypeInv, TypeOK, ClaimInv, Live, Early, InJvm, Handled, ctlVars, Write, Moves
<1>1. HasPid' /\ PidsDiffer' /\ Childless'
  BY DEF HasPid, PidsDiffer, Childless
<1>2. \A j \in Inst : Served(j)' => Served(j) \/ j = i
  BY DEF Served
<1>3. HasFile' /\ LockExclusive'
  BY <1>2 DEF HasFile, LockExclusive
<1>4. file[i] \in Inode /\ content'[file[i]] = pid[i]
  BY DEF HasFile
<1>5. OwnPidWritten'
  BY <1>2, <1>4 DEF OwnPidWritten, NoOverwrite
<1>6. NoOverwrite'
  BY <1>2 DEF NoOverwrite, LockExclusive
<1> QED
  BY <1>1, <1>3, <1>5, <1>6

LEMMA ClaimClaim ==
  ASSUME Inv, NEW i \in Inst, ClaimPidFile(i)
  PROVE  ClaimInv'
<1> USE DEF Live, Early, InJvm, Handled, ctlVars, fileVars, Endings
<1>1. CASE OpenFails(i)
  <2>1. CASE mode[i] = "check" /\ Moves(i, "open", "init")
    BY <1>1, <2>1, ClaimMoves DEF OpenFails, Moves, End
  <2>2. CASE child[i] = "open" /\ End(i, "fail")
    BY <1>1, <2>2, ClaimEnd DEF OpenFails
  <2> QED
    BY <1>1, <2>1, <2>2 DEF OpenFails
<1>2. CASE Check(i)
  <2>1. CASE child[i] = "check" /\ End(i, "running")
    BY <1>2, <2>1, ClaimEnd DEF Check
  <2>2. CASE mode[i] = "run" /\ Moves(i, "check", "write") /\ ~StillRunning(file[i])
               /\ UNCHANGED <<ctlVars, pid, file>>
    BY <1>2, <2>2, ClaimCheck DEF Check
  <2>3. CASE mode[i] = "check" /\ Moves(i, "check", "init") /\ UNCHANGED <<ctlVars, pid, file>>
    BY <1>2, <2>3, ClaimMoves DEF Check
  <2> QED
    BY <1>2, <2>1, <2>2, <2>3 DEF Check
<1> QED
  BY <1>1, <1>2, ClaimOpen, ClaimLock, ClaimWrite DEF ClaimPidFile

-----------------------------------------------------------------------------
(* The service, failures and signals *)

LEMMA ClaimService ==
  ASSUME Inv, NEW i \in Inst, RunService(i)
  PROVE  ClaimInv'
<1> USE DEF Live, Early, InJvm, Handled, ctlVars, fileVars, Endings
<1>1. CASE InitJvm(i)
  <2>1. CASE Moves(i, "init", "load") /\ UNCHANGED <<ctlVars, pid, file>>
    BY <1>1, <2>1, ClaimMoves DEF InitJvm
  <2>2. CASE child[i] = "init" /\ End(i, "ok")
    BY <1>1, <2>2, ClaimEnd DEF InitJvm
  <2> QED
    BY <1>1, <2>1, <2>2 DEF InitJvm
<1>2. CASE StartFails(i)
  BY <1>2, ClaimEnd DEF StartFails
<1>3. CASE StartService(i)
  BY <1>3, ClaimMoves DEF StartService
<1>4. CASE CreateTmpFile(i)
  BY <1>4, ClaimMoves DEF CreateTmpFile
<1>5. CASE LeaveLoop(i)
  BY <1>5, ClaimMoves DEF LeaveLoop
<1>6. CASE StopService(i)
  BY <1>6, ClaimEnd DEF StopService
<1> QED
  BY <1>1, <1>2, <1>3, <1>4, <1>5, <1>6 DEF RunService

LEMMA ClaimDeliver ==
  ASSUME Inv, NEW i \in Inst, NEW s \in Signals, Deliver(i, s)
  PROVE  ClaimInv'
<1> USE DEF Live, Early, InJvm, Handled, ctlVars, fileVars, Endings
<1>1. CASE child[i] \in Live /\ (End(i, "signal") \/ End(i, "fail"))
  BY <1>1, ClaimEnd DEF Deliver
<1>2. CASE UNCHANGED <<ctlVars, child, pid, file>>
  BY <1>2, ClaimFrame DEF Deliver, Inv
<1> QED
  BY <1>1, <1>2 DEF Deliver

LEMMA ClaimFailures ==
  ASSUME Inv, NEW i \in Inst, Failures(i)
  PROVE  ClaimInv'
<1> USE DEF Live, Early, InJvm, Handled, fileVars, Endings
<1>1. CASE CtlCrash(i)
  BY <1>1, ClaimOrphan DEF CtlCrash
<1>2. CASE Abort(i)
  BY <1>2, ClaimEnd DEF Abort
<1>3. CASE Crash(i)
  BY <1>3, ClaimEnd DEF Crash
<1> QED
  BY <1>1, <1>2, <1>3 DEF Failures

LEMMA ClaimSignalled ==
  ASSUME Inv, NEW i \in Inst, Signalled(i)
  PROVE  ClaimInv'
<1> PICK s \in UserSignals : CtlSignal(i, s) \/ UserSignal(i, s) \/ JavaRequest(i, s)
  BY DEF Signalled
<1> USE DEF fileVars, ctlVars
<1>1. CASE CtlSignal(i, s)
  <2>1. CASE controlled[i] # NoPid
    BY <1>1, <2>1, ClaimFrame DEF CtlSignal, Inv
  <2>2. CASE controlled[i] = NoPid
    BY <1>1, <2>2, ClaimOrphan DEF CtlSignal
  <2> QED
    BY <2>1, <2>2
<1>2. CASE UserSignal(i, s)
  BY <1>2, ClaimFrame DEF UserSignal, Inv
<1>3. CASE JavaRequest(i, s)
  <2>1. UNCHANGED <<content, mode, child, pid, file>>
    BY <1>3 DEF JavaRequest
  <2>2. ctl'[i] \in {ctl[i], "killed"} /\ \A j \in Inst \ {i} : ctl'[j] = ctl[j]
    BY <1>3 DEF JavaRequest, Inv, TypeInv, TypeOK
  <2>3. Childless'
    BY <2>1, <2>2 DEF Childless, Inv, ClaimInv
  <2> QED
    BY <2>1, <2>3 DEF Inv, ClaimInv, HasPid, PidsDiffer, HasFile, LockExclusive,
                      OwnPidWritten, NoOverwrite, Served
<1> QED
  BY <1>1, <1>2, <1>3

-----------------------------------------------------------------------------

LEMMA ClaimKept ==
  ASSUME Inv, [Next]_vars
  PROVE  ClaimInv'
<1>1. ASSUME NEW i \in Inst, System(i) PROVE ClaimInv'
  BY <1>1, ClaimController, ClaimClaim, ClaimService, ClaimDeliver DEF System
<1>2. ASSUME NEW p \in Strangers, StrangerStarts(p) \/ StrangerEnds(p) PROVE ClaimInv'
  BY <1>2, ClaimFrame DEF StrangerStarts, StrangerEnds, Inv, fileVars, ctlVars, childVars
<1>3. CASE UNCHANGED vars
  BY <1>3, ClaimFrame DEF Inv, vars
<1> QED
  BY <1>1, <1>2, <1>3, ClaimController, ClaimFailures, ClaimSignalled DEF Next

LEMMA InvInitially ==
  ASSUME Init
  PROVE  Inv
BY JsvcAssumption DEF Init, Inv, TypeInv, TypeOK, ClaimInv, HasPid, PidsDiffer, Childless,
   HasFile, LockExclusive, OwnPidWritten, NoOverwrite, Served, CtlStates, Modes, Endings,
   ChildStates, Live, Early, InJvm, Handled

(* Two children in one file would both find their own pid there. *)
LEMMA ClaimExcludes ==
  ASSUME ClaimInv
  PROVE  SameFileExclusion
<1> SUFFICES ASSUME NEW i \in Inst, NEW j \in Inst, i # j, Served(i), Served(j),
                    file[i] = file[j]
             PROVE  FALSE
  BY DEF SameFileExclusion
<1>1. pid[i] = pid[j]
  BY DEF ClaimInv, OwnPidWritten
<1>2. child[i] # "none" /\ child[j] # "none"
  BY DEF Served, InJvm, Handled
<1> QED
  BY <1>1, <1>2 DEF ClaimInv, PidsDiffer

(* The strengthening holds in every reachable state. *)
THEOREM ClaimHolds == Spec => []ClaimInv
<1>1. Inv /\ [Next]_vars => Inv'
  BY TypeKept, ClaimKept DEF Inv
<1>2. Inv => ClaimInv
  BY DEF Inv
<1> QED
  BY <1>1, <1>2, InvInitially, PTL DEF Spec

(* check_pid's lock and its test of the pid in the file admit one child for
   each inode. *)
THEOREM SameFile == Spec => []SameFileExclusion
BY ClaimHolds, ClaimExcludes, PTL

-----------------------------------------------------------------------------
(* What the controller and its child promise together *)

(* Only handler sets stopping, and only stopping ends the loop. *)
StopAsked ==
    \A i \in Inst :
        /\ child[i] \notin Handled => ~stopping[i]
        /\ child[i] = "stopping" => stopping[i]

(* The phases that one step of an instance may lead to. *)
Leads(from, to) ==
    \/ to = from
    \/ to = "starting" /\ from \in {"down", "reloading"}
    \/ to \in {"ended", "down"} /\ from \in {"starting", "closing", "reloading"}
    \/ to = "up" /\ from = "starting"
    \/ to \in {"closing", "reloading"} /\ from = "up"
    \/ to = "down" /\ from = "ended"

(* One instance goes on, the others stay what they are. *)
Alone(i) ==
    \A j \in Inst \ {i} :
        /\ child'[j] = child[j] /\ ctl'[j] = ctl[j] /\ status'[j] = status[j]
        /\ stopping'[j] = stopping[j] /\ doreload'[j] = doreload[j]

PhaseStep(i) == Alone(i) /\ Leads(Phase(i), Phase(i)') /\ StopAsked'

(* A child that ends as jsvc means it to: not from its loop, and with 123 only
   after a reload request. *)
LEMMA EndPhase ==
  ASSUME Inv, StopAsked, NEW i \in Inst, NEW how \in Endings, End(i, how),
         child[i] \in Live, child[i] \notin {"ready", "up"},
         child[i] = "stopping" => how # "signal" /\ (how = "reload" => doreload[i])
  PROVE  PhaseStep(i)
<1> USE DEF Inv, TypeInv, TypeOK, ClaimInv, Childless, StopAsked, Live, Early, InJvm, Handled
<1>1. Alone(i)
  BY DEF End, Alone
<1>2. StopAsked'
  BY DEF End
<1>3. ctl[i] \in {"arm", "wait", "killed"}
  BY DEF CtlStates
<1>4. Leads(Phase(i), Phase(i)')
  <2>1. CASE ctl[i] = "killed"
    BY <1>3, <2>1 DEF End, Leads, Phase
  <2>2. CASE ctl[i] # "killed"
    BY <1>3, <2>2, SMTT(60) DEF End, Leads, Phase
  <2> QED
    BY <2>1, <2>2
<1> QED
  BY <1>1, <1>2, <1>4 DEF PhaseStep

(* A child that goes on from one place before its loop to another, or within. *)
LEMMA MovesPhase ==
  ASSUME Inv, StopAsked, NEW i \in Inst, NEW from \in Live, NEW to \in Live, Moves(i, from, to),
         from \in Handled => to \in Handled,
         to = "stopping" => stopping[i],
         UNCHANGED <<ctl, status, stopping, doreload>>
  PROVE  PhaseStep(i)
<1> USE DEF Inv, TypeInv, TypeOK, StopAsked, Live, Early, InJvm, Handled, Moves
<1>1. Alone(i) /\ StopAsked'
  BY DEF Alone
<1>2. Leads(Phase(i), Phase(i)')
  BY DEF Leads, Phase
<1> QED
  BY <1>1, <1>2 DEF PhaseStep

(* A controller is killed. *)
LEMMA OrphanPhase ==
  ASSUME Inv, StopAsked, NEW i \in Inst, Orphan(i), ctl[i] \notin {"off", "killed"},
         UNCHANGED <<stopping, doreload>>
  PROVE  PhaseStep(i)
<1> USE DEF Inv, TypeInv, TypeOK, StopAsked, ChildStates, CtlStates, Live, Early, InJvm, Handled,
        Orphan
<1>1. Alone(i) /\ StopAsked'
  BY DEF Alone
<1>2. Leads(Phase(i), Phase(i)')
  BY DEF Leads, Phase
<1> QED
  BY <1>1, <1>2 DEF PhaseStep

LEMMA ControllerPhase ==
  ASSUME Inv, StopAsked, NEW i \in Inst, Launch(i) \/ Controller(i)
  PROVE  PhaseStep(i)
<1> USE DEF Inv, TypeInv, TypeOK, ClaimInv, Childless, StopAsked, ChildStates, CtlStates,
        Live, Early, InJvm, Handled, childVars, PhaseStep, Alone, Leads, Phase
<1>1. CASE Launch(i)
  BY <1>1 DEF Launch
<1>2. CASE Fork(i)
  BY <1>2 DEF Fork
<1>3. CASE ForkFails(i)
  BY <1>3 DEF ForkFails
<1>4. CASE Arm(i)
  BY <1>4 DEF Arm
<1>5. CASE Reap(i)
  BY <1>5 DEF Reap
<1>6. CASE Settle(i)
  <2>1. CASE Restarts(i)
    BY <1>6, <2>1 DEF Settle, Restarts
  <2>2. CASE ~Restarts(i)
    BY <1>6, <2>2 DEF Settle, Restarts
  <2> QED
    BY <2>1, <2>2
<1>7. CASE Backoff(i)
  BY <1>7 DEF Backoff
<1> QED
  BY <1>1, <1>2, <1>3, <1>4, <1>5, <1>6, <1>7 DEF Controller

LEMMA ChildPhase ==
  ASSUME Inv, StopAsked, NEW i \in Inst, ClaimPidFile(i) \/ RunService(i)
  PROVE  PhaseStep(i)
<1> USE DEF Live, Early, InJvm, Handled, Endings, ctlVars
<1>1. CASE Open(i)
  BY <1>1, MovesPhase DEF Open
<1>2. CASE OpenFails(i)
  <2>1. CASE mode[i] = "check"
    BY <1>2, <2>1, MovesPhase DEF OpenFails
  <2>2. CASE mode[i] # "check"
    BY <1>2, <2>2, EndPhase DEF OpenFails
  <2> QED
    BY <2>1, <2>2
<1>3. CASE Lock(i)
  BY <1>3, MovesPhase DEF Lock
<1>4. CASE Check(i)
  <2>1. CASE child[i] = "check" /\ End(i, "running")
    BY <2>1, EndPhase
  <2>2. CASE (Moves(i, "check", "write") \/ Moves(i, "check", "init"))
               /\ UNCHANGED <<ctl, status, stopping, doreload>>
    BY <2>2, MovesPhase
  <2> QED
    BY <1>4, <2>1, <2>2 DEF Check
<1>5. CASE Write(i)
  BY <1>5, MovesPhase DEF Write
<1>6. CASE InitJvm(i)
  <2>1. CASE child[i] = "init" /\ End(i, "ok")
    BY <2>1, EndPhase
  <2>2. CASE Moves(i, "init", "load") /\ UNCHANGED <<ctl, status, stopping, doreload>>
    BY <2>2, MovesPhase
  <2> QED
    BY <1>6, <2>1, <2>2 DEF InitJvm
<1>7. CASE StartFails(i)
  BY <1>7, EndPhase DEF StartFails
<1>8. CASE StartService(i)
  BY <1>8, MovesPhase DEF StartService
<1>9. CASE CreateTmpFile(i)
  BY <1>9, MovesPhase DEF CreateTmpFile
<1>10. CASE LeaveLoop(i)
  BY <1>10, MovesPhase DEF LeaveLoop
<1>11. CASE StopService(i)
  <2>1. PICK how \in Endings : End(i, how) /\ how # "signal" /\ (how = "reload" => doreload[i])
    BY <1>11 DEF StopService
  <2> QED
    BY <1>11, <2>1, EndPhase DEF StopService
<1> QED
  BY <1>1, <1>2, <1>3, <1>4, <1>5, <1>6, <1>7, <1>8, <1>9, <1>10, <1>11
     DEF ClaimPidFile, RunService

LEMMA SignalPhase ==
  ASSUME Inv, StopAsked, NEW i \in Inst, NEW s \in Signals,
         Deliver(i, s) \/ CtlSignal(i, s) \/ UserSignal(i, s) \/ JavaRequest(i, s)
  PROVE  PhaseStep(i)
<1> USE DEF Live, Early, InJvm, Handled, Endings, ctlVars
<1>0. ASSUME UNCHANGED <<child, ctl, status, stopping, doreload>> PROVE PhaseStep(i)
  BY <1>0 DEF PhaseStep, Alone, Leads, Phase, StopAsked
<1>1. CASE Deliver(i, s)
  <2>1. CASE child[i] \in Early /\ End(i, "signal")
    BY <2>1, EndPhase
  <2>2. CASE child[i] = "load" /\ End(i, "fail")
    BY <2>2, EndPhase
  <2>3. CASE child[i] \in Handled /\ UNCHANGED <<ctlVars, child>>
               /\ stopping' = [stopping EXCEPT ![i] = TRUE]
               /\ doreload' = [doreload EXCEPT ![i] = Reloads(i, s)]
    <3>1. Alone(i) /\ StopAsked'
      BY <2>3 DEF Alone, StopAsked, Inv, TypeInv, TypeOK
    <3>2. stopping'[i] /\ (stopping[i] => doreload'[i] = doreload[i])
      BY <2>3 DEF Inv, TypeInv, TypeOK, Reloads
    <3>3. Leads(Phase(i), Phase(i)')
      BY <2>3, <3>2 DEF Leads, Phase
    <3> QED
      BY <3>1, <3>3 DEF PhaseStep
  <2> QED
    BY <1>0, <1>1, <2>1, <2>2, <2>3 DEF Deliver
<1>2. CASE CtlSignal(i, s)
  <2>1. CASE controlled[i] = NoPid
    BY <1>2, <2>1, OrphanPhase DEF CtlSignal
  <2>2. CASE controlled[i] # NoPid
    BY <1>0, <1>2, <2>2 DEF CtlSignal
  <2> QED
    BY <2>1, <2>2
<1>3. CASE UserSignal(i, s)
  BY <1>0, <1>3 DEF UserSignal
<1>4. CASE JavaRequest(i, s)
  BY <1>4 DEF JavaRequest, PhaseStep, Alone, Leads, Phase, StopAsked, Inv, TypeInv, TypeOK
<1> QED
  BY <1>1, <1>2, <1>3, <1>4

(* The JVM does not abort and nobody kills the child. *)
Orderly == {"abort", "crash"} \cap Faults = {}

(* What Supervised sees of Jsvc. *)
Phases == [i \in Inst |-> Phase(i)]

(* A step of one instance is a step that Supervised allows, or none. *)
LEMMA PhaseImplies ==
  ASSUME NEW i \in Inst, PhaseStep(i)
  PROVE  [Service!Next]_Phases
<1> USE DEF PhaseStep
<1>1. \A j \in Inst \ {i} : Phase(j)' = Phase(j)
  BY DEF Alone, Phase
<1>2. Phases' = [Phases EXCEPT ![i] = Phase(i)']
  BY <1>1 DEF Phases
<1>3. Phases[i] = Phase(i)
  BY DEF Phases
<1>4. CASE Phase(i)' = Phase(i)
  BY <1>2, <1>3, <1>4 DEF Phases
<1>5. CASE Phase(i)' # Phase(i)
  <2>1. Service!Goes(i, Phase(i), Phase(i)')
    BY <1>2, <1>3 DEF Service!Goes, Phases
  <2> QED
    BY <1>5, <2>1 DEF Leads, Service!Next, Service!Start, Service!Serve, Service!Shutdown,
       Service!Reload, Service!Recycle, Service!End, Service!Leave, Service!Obey
<1> QED
  BY <1>4, <1>5

LEMMA SupervisedStep ==
  ASSUME Orderly, Inv, StopAsked, [Next]_vars
  PROVE  StopAsked' /\ [Service!Next]_Phases
<1>1. CASE \E i \in Inst : PhaseStep(i)
  BY <1>1, PhaseImplies DEF PhaseStep
<1>2. CASE UNCHANGED <<child, ctl, status, stopping, doreload>>
  BY <1>2 DEF StopAsked, Phases, Phase
<1>3. ASSUME NEW i \in Inst, Failures(i) PROVE PhaseStep(i)
  <2>1. CtlCrash(i)
    BY <1>3 DEF Failures, Abort, Crash, Orderly
  <2> QED
    BY <2>1, OrphanPhase DEF CtlCrash
<1>4. ASSUME NEW i \in Inst, Launch(i) \/ System(i) \/ Signalled(i) PROVE PhaseStep(i)
  BY <1>4, ControllerPhase, ChildPhase, SignalPhase, JsvcAssumption
     DEF System, Signalled, JsvcAssumption
<1> QED
  BY <1>1, <1>2, <1>3, <1>4 DEF Next, StrangerStarts, StrangerEnds, ctlVars, childVars, vars

LEMMA InvKept ==
  ASSUME Inv, [Next]_vars
  PROVE  Inv'
BY TypeKept, ClaimKept DEF Inv

(* Jsvc implements Supervised, but for the liveness of it: as long as no child
   crashes or aborts, whatever else fails, whoever sends it signals and
   however its pids are reused. *)
THEOREM SupervisionIsSafe ==
  ASSUME Orderly
  PROVE  Spec => Service!Safety
<1>1. Init => StopAsked
  BY DEF Init, StopAsked
<1>2. Init => Service!Init
  BY DEF Init, Service!Init, Phase, Handled, Live, Early, InJvm
<1>3. Inv /\ [Next]_vars => Inv'
  BY InvKept
<1>4. Inv /\ StopAsked /\ [Next]_vars => StopAsked'
  BY SupervisedStep
<1>5. Inv /\ StopAsked /\ [Next]_vars => [Service!Next]_[i \in Inst |-> Phase(i)]
  BY SupervisedStep DEF Phases
<1> QED
  BY <1>1, <1>2, <1>3, <1>4, <1>5, InvInitially, PTL DEF Spec, Service!Safety
=============================================================================
