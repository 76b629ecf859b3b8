-------------------------- MODULE HandlePoolProofs --------------------------
(***************************************************************************)
(* Theorems about HandlePool, for any set of stopping threads and any       *)
(* faults: the types; that no handle is used after its memory was       *)
(* freed; and that the size of the pool is that of its list.               *)
(*                                                                         *)
(* That needs an invariant, HpInv, which says where each handle's memory    *)
(* is while somebody makes, closes, lists or watches it.  Most of it holds  *)
(* only until main destroys the pool under a stop.                          *)
(***************************************************************************)
EXTENDS HandlePool, FiniteSetTheorems, TLAPS

(* main makes its handle before anybody can stop the service, and before it
   destroys the pool. *)
MainFirst ==
    /\ pc[main] \in Making \cup {"has"} => \A s \in Stopper : pc[s] = "idle"
    /\ pc[main] \in Making \cup {"has", "serve"} => cur = main /\ orderly

(* When main closes handles no stop is under way. *)
AloneAtEnd ==
    pc[main] \in Closing \cup {"destroy", "gone"} =>
        \A s \in Stopper : pc[s] \in {"idle", "left", "done"}

(* What a thread works on is there, *)
UsedWhile ==
    \A t \in Thread :
        /\ pc[t] \in Closing => block[Mine(t)] = "used"
        /\ pc[t] \in {"add", "link", "has"} => block[t] = "used"
(* and so is what is in the list. *)
ListedUsed == \A h \in listed : block[h] = "used"
FreedLast == \A t \in Thread : pc[t] = "free" => Mine(t) \notin listed
AllListed ==
    \A h \in Thread : block[h] = "used" =>
        \/ h \in listed
        \/ pc[h] \in {"add", "link"}
        \/ \E t \in Thread : pc[t] = "free" /\ Mine(t) = h

(* A handle with a thread has an event, and loses its thread first. *)
Ended == {"none", "ended"}
Watched == \A h \in Thread : watcher[h] \notin Ended => event[h] \in {"reset", "set"}
ThreadGone ==
    \A t \in Thread : pc[t] \in {"take", "drop", "free"} => watcher[Mine(t)] \in Ended

Orderly ==
    /\ AloneAtEnd
    /\ UsedWhile
    /\ ListedUsed
    /\ FreedLast
    /\ AllListed
    /\ Watched
    /\ ThreadGone
    /\ AliveWhenUsed

HpInv == HpTypeOK /\ MainFirst /\ (orderly => Orderly)

(* The lock is held between the read and the write of the size. *)
LockHeld ==
    \A t \in Thread :
        /\ pc[t] \in {"link", "drop"} <=> spin = t
        /\ pc[t] \in {"link", "drop"} => seen[t] = size
(* What is added is not in the list yet, what is taken out still is. *)
ListedWhile ==
    \A t \in Thread :
        /\ pc[t] \in {"idle"} \cup Making => t \notin listed
        /\ pc[t] = "has" => t \in listed
        /\ pc[t] \in Closing \ {"free"} => Mine(t) \in listed

CountInv ==
    /\ IsFiniteSet(listed)
    /\ size = Cardinality(listed)
    /\ LockHeld
    /\ ListedWhile

-----------------------------------------------------------------------------
(* Types *)

(* Every step keeps the types. *)
LEMMA HpTypeKept ==
  ASSUME HandlePoolAssumption, HpTypeOK, [Next]_vars PROVE HpTypeOK'
<1> USE HandlePoolAssumption DEF HandlePoolAssumption, HpTypeOK, Thread, Places, Making, Closing, Go,
    Mine, Use, poolVars
<1>1. ASSUME NEW t \in Thread, Create(t) PROVE HpTypeOK'
  BY <1>1 DEF Create, Alloc, Add, Link, Lock, Unlock
<1>2. ASSUME NEW t \in Thread, CloseStep(t) \/ JoinLate(t) PROVE HpTypeOK'
  <2>1. CASE Close(t)
    BY <2>1 DEF Close, Return
  <2>2. CASE Invalidate(t)
    BY <2>2 DEF Invalidate
  <2>3. CASE Signal(t)
    BY <2>3 DEF Signal
  <2>4. CASE Join(t)
    BY <2>4 DEF Join
  <2>5. CASE JoinLate(t)
    BY <2>5 DEF JoinLate
  <2>6. CASE Take(t)
    BY <2>6 DEF Take, Lock
  <2>7. CASE Drop(t)
    BY <2>7 DEF Drop, Unlock
  <2>8. CASE Free(t)
    BY <2>8 DEF Free, Return
  <2> QED
    BY <1>2, <2>1, <2>2, <2>3, <2>4, <2>5, <2>6, <2>7, <2>8 DEF CloseStep
<1>3. ASSUME NEW h \in Thread, WatcherStep(h) PROVE HpTypeOK'
  BY <1>3 DEF WatcherStep, Watch, Test, Wake, Woken, Last, Reset
<1>4. ASSUME NEW t \in Thread, StopWorkerEnds(t) PROVE HpTypeOK'
  BY <1>4 DEF StopWorkerEnds
<1>5. ASSUME NEW t \in Stopper, StopBegins(t) PROVE HpTypeOK'
  BY <1>5 DEF StopBegins
<1>6. CASE Started
  BY <1>6 DEF Started
<1>7. CASE DestroyBegins
  BY <1>7 DEF DestroyBegins
<1>8. CASE CloseNext
  BY <1>8 DEF CloseNext
<1>9. CASE DestroyHeap
  BY <1>9 DEF DestroyHeap
<1>10. CASE UNCHANGED vars
  BY <1>10 DEF vars
<1> QED
  BY <1>1, <1>2, <1>3, <1>4, <1>5, <1>6, <1>7, <1>8, <1>9, <1>10 DEF Next

-----------------------------------------------------------------------------
(* Steps *)

(* Every step keeps what holds at first: main never goes back. *)
LEMMA MainFirstKept ==
  ASSUME HandlePoolAssumption, HpTypeOK, MainFirst, [Next]_vars PROVE MainFirst'
<1> USE HandlePoolAssumption DEF HandlePoolAssumption, HpTypeOK, MainFirst, Thread, Making, Go
<1>1. ASSUME NEW t \in Thread, Alloc(t) PROVE MainFirst'
  BY <1>1 DEF Alloc
<1>2. ASSUME NEW t \in Thread, Add(t) PROVE MainFirst'
  BY <1>2 DEF Add, Lock
<1>3. ASSUME NEW t \in Thread, Link(t) PROVE MainFirst'
  BY <1>3 DEF Link, Unlock
<1>4. ASSUME NEW t \in Thread, Close(t) PROVE MainFirst'
  BY <1>4 DEF Close, Return
<1>5. ASSUME NEW t \in Thread, Invalidate(t) PROVE MainFirst'
  BY <1>5 DEF Invalidate
<1>6. ASSUME NEW t \in Thread, Signal(t) PROVE MainFirst'
  BY <1>6 DEF Signal
<1>7. ASSUME NEW t \in Thread, Join(t) PROVE MainFirst'
  BY <1>7 DEF Join
<1>8. ASSUME NEW t \in Thread, JoinLate(t) PROVE MainFirst'
  BY <1>8 DEF JoinLate
<1>9. ASSUME NEW t \in Thread, Take(t) PROVE MainFirst'
  BY <1>9 DEF Take, Lock
<1>10. ASSUME NEW t \in Thread, Drop(t) PROVE MainFirst'
  BY <1>10 DEF Drop, Unlock
<1>11. ASSUME NEW t \in Thread, Free(t) PROVE MainFirst'
  BY <1>11 DEF Free, Return
<1>12. ASSUME NEW t \in Thread, StopWorkerEnds(t) PROVE MainFirst'
  BY <1>12 DEF StopWorkerEnds
<1>13. ASSUME NEW t \in Thread, Test(t) PROVE MainFirst'
  BY <1>13 DEF Test, Watch
<1>14. ASSUME NEW t \in Thread, Wake(t) PROVE MainFirst'
  BY <1>14 DEF Wake, Watch
<1>15. ASSUME NEW t \in Thread, Woken(t) PROVE MainFirst'
  BY <1>15 DEF Woken, Watch, Reset
<1>16. ASSUME NEW t \in Thread, Last(t) PROVE MainFirst'
  BY <1>16 DEF Last, Watch, Reset
<1>17. ASSUME NEW t \in Stopper, StopBegins(t) PROVE MainFirst'
  BY <1>17 DEF StopBegins
<1>18. CASE Started
  BY <1>18 DEF Started
<1>19. CASE DestroyBegins
  BY <1>19 DEF DestroyBegins
<1>20. CASE CloseNext
  BY <1>20 DEF CloseNext
<1>21. CASE DestroyHeap
  BY <1>21 DEF DestroyHeap
<1>22. CASE UNCHANGED vars
  BY <1>22 DEF vars
<1> QED
  BY <1>1, <1>2, <1>3, <1>4, <1>5, <1>6, <1>7, <1>8, <1>9, <1>10, <1>11, <1>12,
     <1>13, <1>14, <1>15, <1>16, <1>17, <1>18, <1>19, <1>20, <1>21, <1>22
    DEF Next, Create, CloseStep, WatcherStep

(* A new block is in use and not yet in the list. *)
LEMMA AllocKeeps ==
  ASSUME HandlePoolAssumption, HpInv, NEW t \in Thread, Alloc(t), orderly' PROVE Orderly'
BY DEF Alloc, HandlePoolAssumption, HpInv, HpTypeOK, MainFirst, Orderly, Thread, Making,
    Closing, Ended, Go, Mine, Use, poolVars, AloneAtEnd, UsedWhile, ListedUsed, FreedLast,
    AllListed, Watched, ThreadGone, AliveWhenUsed

(* The lock of the pool, taken to list a handle: no memory changes. *)
LEMMA AddKeeps ==
  ASSUME HandlePoolAssumption, HpInv, NEW t \in Thread, Add(t), orderly' PROVE Orderly'
BY DEF Add, Lock, HandlePoolAssumption, HpInv, HpTypeOK, MainFirst, Orderly, Thread, Making,
    Closing, Ended, Go, Mine, Use, poolVars, AloneAtEnd, UsedWhile, ListedUsed, FreedLast,
    AllListed, Watched, ThreadGone, AliveWhenUsed

(* The handle is listed; its block has been in use since Alloc. *)
LEMMA LinkKeeps ==
  ASSUME HandlePoolAssumption, HpInv, NEW t \in Thread, Link(t), orderly' PROVE Orderly'
BY DEF Link, Unlock, HandlePoolAssumption, HpInv, HpTypeOK, MainFirst, Orderly, Thread, Making,
    Closing, Ended, Go, Mine, Use, poolVars, AloneAtEnd, UsedWhile, ListedUsed, FreedLast,
    AllListed, Watched, ThreadGone, AliveWhenUsed

(* A handle that its thread is closing is in use; if it is invalid, the thread goes on. *)
LEMMA CloseKeeps ==
  ASSUME HandlePoolAssumption, HpInv, NEW t \in Thread, Close(t), orderly' PROVE Orderly'
BY DEF Close, Return, HandlePoolAssumption, HpInv, HpTypeOK, MainFirst, Orderly, Thread, Making,
    Closing, Ended, Go, Mine, Use, poolVars, AloneAtEnd, UsedWhile, ListedUsed, FreedLast,
    AllListed, Watched, ThreadGone, AliveWhenUsed

(* Without an event there is no event thread: ThreadGone. *)
LEMMA InvalidateKeeps ==
  ASSUME HandlePoolAssumption, HpInv, NEW t \in Thread, Invalidate(t), orderly' PROVE Orderly'
BY DEF Invalidate, HandlePoolAssumption, HpInv, HpTypeOK, MainFirst, Orderly, Thread, Making,
    Closing, Ended, Go, Mine, Use, poolVars, AloneAtEnd, UsedWhile, ListedUsed, FreedLast,
    AllListed, Watched, ThreadGone, AliveWhenUsed

(* The event thread, if there is one, still has its event. *)
LEMMA SignalKeeps ==
  ASSUME HandlePoolAssumption, HpInv, NEW t \in Thread, Signal(t), orderly' PROVE Orderly'
BY DEF Signal, HandlePoolAssumption, HpInv, HpTypeOK, MainFirst, Orderly, Thread, Making,
    Closing, Ended, Go, Mine, Use, poolVars, AloneAtEnd, UsedWhile, ListedUsed, FreedLast,
    AllListed, Watched, ThreadGone, AliveWhenUsed

(* Only now is the event closed: its thread has ended. *)
LEMMA JoinKeeps ==
  ASSUME HandlePoolAssumption, HpInv, NEW t \in Thread, Join(t), orderly' PROVE Orderly'
BY DEF Join, HandlePoolAssumption, HpInv, HpTypeOK, MainFirst, Orderly, Thread, Making,
    Closing, Ended, Go, Mine, Use, poolVars, AloneAtEnd, UsedWhile, ListedUsed, FreedLast,
    AllListed, Watched, ThreadGone, AliveWhenUsed

(* The same after a second: the thread is terminated first. *)
LEMMA JoinLateKeeps ==
  ASSUME HandlePoolAssumption, HpInv, NEW t \in Thread, JoinLate(t), orderly' PROVE Orderly'
BY DEF JoinLate, HandlePoolAssumption, HpInv, HpTypeOK, MainFirst, Orderly, Thread, Making,
    Closing, Ended, Go, Mine, Use, poolVars, AloneAtEnd, UsedWhile, ListedUsed, FreedLast,
    AllListed, Watched, ThreadGone, AliveWhenUsed

(* The lock of the pool, taken to drop a handle. *)
LEMMA TakeKeeps ==
  ASSUME HandlePoolAssumption, HpInv, NEW t \in Thread, Take(t), orderly' PROVE Orderly'
BY DEF Take, Lock, HandlePoolAssumption, HpInv, HpTypeOK, MainFirst, Orderly, Thread, Making,
    Closing, Ended, Go, Mine, Use, poolVars, AloneAtEnd, UsedWhile, ListedUsed, FreedLast,
    AllListed, Watched, ThreadGone, AliveWhenUsed

(* The handle leaves the list, and is in use until Free. *)
LEMMA DropKeeps ==
  ASSUME HandlePoolAssumption, HpInv, NEW t \in Thread, Drop(t), orderly' PROVE Orderly'
BY DEF Drop, Unlock, HandlePoolAssumption, HpInv, HpTypeOK, MainFirst, Orderly, Thread, Making,
    Closing, Ended, Go, Mine, Use, poolVars, AloneAtEnd, UsedWhile, ListedUsed, FreedLast,
    AllListed, Watched, ThreadGone, AliveWhenUsed

(* It is in no list, has no thread, and nobody else closes it. *)
LEMMA FreeKeeps ==
  ASSUME HandlePoolAssumption, HpInv, NEW t \in Thread, Free(t), orderly' PROVE Orderly'
BY DEF Free, Return, HandlePoolAssumption, HpInv, HpTypeOK, MainFirst, Orderly, Thread, Making,
    Closing, Ended, Go, Mine, Use, poolVars, AloneAtEnd, UsedWhile, ListedUsed, FreedLast,
    AllListed, Watched, ThreadGone, AliveWhenUsed

(* A stop turns to the close of the handle it has made, which is in use. *)
LEMMA StopWorkerEndsKeeps ==
  ASSUME HandlePoolAssumption, HpInv, NEW t \in Thread, StopWorkerEnds(t), orderly' PROVE Orderly'
BY DEF StopWorkerEnds, HandlePoolAssumption, HpInv, HpTypeOK, MainFirst, Orderly, Thread, Making,
    Closing, Ended, Go, Mine, Use, poolVars, AloneAtEnd, UsedWhile, ListedUsed, FreedLast,
    AllListed, Watched, ThreadGone, AliveWhenUsed

(* A thread that has not ended has a block in use: AliveWhenUsed. *)
LEMMA TestKeeps ==
  ASSUME HandlePoolAssumption, HpInv, NEW t \in Thread, Test(t), orderly' PROVE Orderly'
BY DEF Test, Watch, HandlePoolAssumption, HpInv, HpTypeOK, MainFirst, Orderly, Thread, Making,
    Closing, Ended, Go, Mine, Use, poolVars, AloneAtEnd, UsedWhile, ListedUsed, FreedLast,
    AllListed, Watched, ThreadGone, AliveWhenUsed

(* The event thread returns from its wait. *)
LEMMA WakeKeeps ==
  ASSUME HandlePoolAssumption, HpInv, NEW t \in Thread, Wake(t), orderly' PROVE Orderly'
BY DEF Wake, Watch, HandlePoolAssumption, HpInv, HpTypeOK, MainFirst, Orderly, Thread, Making,
    Closing, Ended, Go, Mine, Use, poolVars, AloneAtEnd, UsedWhile, ListedUsed, FreedLast,
    AllListed, Watched, ThreadGone, AliveWhenUsed

(* It resets the event only if that is open: Watched. *)
LEMMA WokenKeeps ==
  ASSUME HandlePoolAssumption, HpInv, NEW t \in Thread, Woken(t), orderly' PROVE Orderly'
BY DEF Woken, Watch, Reset, HandlePoolAssumption, HpInv, HpTypeOK, MainFirst, Orderly, Thread, Making,
    Closing, Ended, Go, Mine, Use, poolVars, AloneAtEnd, UsedWhile, ListedUsed, FreedLast,
    AllListed, Watched, ThreadGone, AliveWhenUsed

(* It ends. *)
LEMMA LastKeeps ==
  ASSUME HandlePoolAssumption, HpInv, NEW t \in Thread, Last(t), orderly' PROVE Orderly'
BY DEF Last, Watch, Reset, HandlePoolAssumption, HpInv, HpTypeOK, MainFirst, Orderly, Thread, Making,
    Closing, Ended, Go, Mine, Use, poolVars, AloneAtEnd, UsedWhile, ListedUsed, FreedLast,
    AllListed, Watched, ThreadGone, AliveWhenUsed

(* main serves, so it closes nothing. *)
LEMMA StopBeginsKeeps ==
  ASSUME HandlePoolAssumption, HpInv, NEW t \in Stopper, StopBegins(t), orderly' PROVE Orderly'
BY DEF StopBegins, HandlePoolAssumption, HpInv, HpTypeOK, MainFirst, Orderly, Thread, Making,
    Closing, Ended, Go, Mine, Use, poolVars, AloneAtEnd, UsedWhile, ListedUsed, FreedLast,
    AllListed, Watched, ThreadGone, AliveWhenUsed

(* No stop has begun: MainFirst.  main closes its own handle or serves. *)
LEMMA StartedKeeps ==
  ASSUME HandlePoolAssumption, HpInv, Started, orderly' PROVE Orderly'
BY DEF Started, HandlePoolAssumption, HpInv, HpTypeOK, MainFirst, Orderly, Thread, Making,
    Closing, Ended, Go, Mine, Use, poolVars, AloneAtEnd, UsedWhile, ListedUsed, FreedLast,
    AllListed, Watched, ThreadGone, AliveWhenUsed

(* orderly says that no stop is under way. *)
LEMMA DestroyBeginsKeeps ==
  ASSUME HandlePoolAssumption, HpInv, DestroyBegins, orderly' PROVE Orderly'
BY ZenonT(30) DEF DestroyBegins, HandlePoolAssumption, HpInv, HpTypeOK, MainFirst, Orderly, Thread, Making,
    Closing, Ended, Go, Mine, Use, poolVars, AloneAtEnd, UsedWhile, ListedUsed, FreedLast,
    AllListed, Watched, ThreadGone, AliveWhenUsed

(* What is listed is in use. *)
LEMMA CloseNextKeeps ==
  ASSUME HandlePoolAssumption, HpInv, CloseNext, orderly' PROVE Orderly'
BY DEF CloseNext, HandlePoolAssumption, HpInv, HpTypeOK, MainFirst, Orderly, Thread, Making,
    Closing, Ended, Go, Mine, Use, poolVars, AloneAtEnd, UsedWhile, ListedUsed, FreedLast,
    AllListed, Watched, ThreadGone, AliveWhenUsed

(* Nothing is in use: it would be listed, and the list is empty. *)
LEMMA DestroyHeapKeeps ==
  ASSUME HandlePoolAssumption, HpInv, DestroyHeap, orderly' PROVE Orderly'
BY DEF DestroyHeap, HandlePoolAssumption, HpInv, HpTypeOK, MainFirst, Orderly, Thread, Making,
    Closing, Ended, Go, Mine, Use, poolVars, AloneAtEnd, UsedWhile, ListedUsed, FreedLast,
    AllListed, Watched, ThreadGone, AliveWhenUsed

(* The invariant is kept; what main destroys under a stop stays so. *)
LEMMA HpInvKept == ASSUME HandlePoolAssumption, HpInv, [Next]_vars PROVE HpInv'
<1>1. HpTypeOK'
  BY HpTypeKept DEF HpInv
<1>2. MainFirst'
  BY MainFirstKept DEF HpInv
<1>3. ASSUME orderly' PROVE Orderly'
  <2>1. ASSUME NEW t \in Thread, Alloc(t) PROVE Orderly'
    BY <1>3, <2>1, AllocKeeps
  <2>2. ASSUME NEW t \in Thread, Add(t) PROVE Orderly'
    BY <1>3, <2>2, AddKeeps
  <2>3. ASSUME NEW t \in Thread, Link(t) PROVE Orderly'
    BY <1>3, <2>3, LinkKeeps
  <2>4. ASSUME NEW t \in Thread, Close(t) PROVE Orderly'
    BY <1>3, <2>4, CloseKeeps
  <2>5. ASSUME NEW t \in Thread, Invalidate(t) PROVE Orderly'
    BY <1>3, <2>5, InvalidateKeeps
  <2>6. ASSUME NEW t \in Thread, Signal(t) PROVE Orderly'
    BY <1>3, <2>6, SignalKeeps
  <2>7. ASSUME NEW t \in Thread, Join(t) PROVE Orderly'
    BY <1>3, <2>7, JoinKeeps
  <2>8. ASSUME NEW t \in Thread, JoinLate(t) PROVE Orderly'
    BY <1>3, <2>8, JoinLateKeeps
  <2>9. ASSUME NEW t \in Thread, Take(t) PROVE Orderly'
    BY <1>3, <2>9, TakeKeeps
  <2>10. ASSUME NEW t \in Thread, Drop(t) PROVE Orderly'
    BY <1>3, <2>10, DropKeeps
  <2>11. ASSUME NEW t \in Thread, Free(t) PROVE Orderly'
    BY <1>3, <2>11, FreeKeeps
  <2>12. ASSUME NEW t \in Thread, StopWorkerEnds(t) PROVE Orderly'
    BY <1>3, <2>12, StopWorkerEndsKeeps
  <2>13. ASSUME NEW t \in Thread, Test(t) PROVE Orderly'
    BY <1>3, <2>13, TestKeeps
  <2>14. ASSUME NEW t \in Thread, Wake(t) PROVE Orderly'
    BY <1>3, <2>14, WakeKeeps
  <2>15. ASSUME NEW t \in Thread, Woken(t) PROVE Orderly'
    BY <1>3, <2>15, WokenKeeps
  <2>16. ASSUME NEW t \in Thread, Last(t) PROVE Orderly'
    BY <1>3, <2>16, LastKeeps
  <2>17. ASSUME NEW t \in Stopper, StopBegins(t) PROVE Orderly'
    BY <1>3, <2>17, StopBeginsKeeps
  <2>18. CASE Started
    BY <1>3, <2>18, StartedKeeps
  <2>19. CASE DestroyBegins
    BY <1>3, <2>19, DestroyBeginsKeeps
  <2>20. CASE CloseNext
    BY <1>3, <2>20, CloseNextKeeps
  <2>21. CASE DestroyHeap
    BY <1>3, <2>21, DestroyHeapKeeps
  <2>22. CASE UNCHANGED vars
    BY <1>3, <2>22 DEF vars, HpInv, Orderly, AloneAtEnd, UsedWhile, ListedUsed, FreedLast, AllListed,
        Watched, ThreadGone, AliveWhenUsed, Mine
  <2> QED
    BY <2>1, <2>2, <2>3, <2>4, <2>5, <2>6, <2>7, <2>8, <2>9, <2>10, <2>11, <2>12,
       <2>13, <2>14, <2>15, <2>16, <2>17, <2>18, <2>19, <2>20, <2>21, <2>22
      DEF Next, Create, CloseStep, WatcherStep
<1> QED
  BY <1>1, <1>2, <1>3 DEF HpInv

-----------------------------------------------------------------------------
(* The count *)

(* Linking a handle adds one to both the list and the size. *)
LEMMA LinkCounts ==
  ASSUME HandlePoolAssumption, HpInv, orderly, CountInv, NEW t \in Thread, Link(t) PROVE CountInv'
<1>1. t \notin listed /\ seen[t] = size /\ pc[t] = "link"
  BY DEF CountInv, LockHeld, ListedWhile, Link, Go, Making
<1>2. IsFiniteSet(listed') /\ Cardinality(listed') = Cardinality(listed) + 1
  BY <1>1, FS_AddElement DEF CountInv, Link
<1>3. size' = Cardinality(listed')
  BY <1>1, <1>2 DEF CountInv, Link
<1>4. LockHeld' /\ ListedWhile'
  BY DEF Link, Unlock, Go, HandlePoolAssumption, HpInv, HpTypeOK, Thread, Making, Closing, Mine,
      CountInv, LockHeld, ListedWhile
<1> QED
  BY <1>2, <1>3, <1>4 DEF CountInv

(* Dropping one takes one off both; nobody else is about to take it out. *)
LEMMA DropCounts ==
  ASSUME HandlePoolAssumption, HpInv, orderly, CountInv, NEW t \in Thread, Drop(t) PROVE CountInv'
<1>1. Mine(t) \in listed /\ seen[t] = size /\ pc[t] = "drop"
  BY DEF CountInv, LockHeld, ListedWhile, Drop, Go, Closing
<1>2. IsFiniteSet(listed') /\ Cardinality(listed') = Cardinality(listed) - 1
  BY <1>1, FS_RemoveElement DEF CountInv, Drop
<1>3. size' = Cardinality(listed')
  BY <1>1, <1>2 DEF CountInv, Drop
<1>4. LockHeld' /\ ListedWhile'
  BY DEF Drop, Unlock, Go, HandlePoolAssumption, HpInv, HpTypeOK, Thread, Making, Closing, Mine,
      Orderly, AloneAtEnd, MainFirst, CountInv, LockHeld, ListedWhile
<1> QED
  BY <1>2, <1>3, <1>4 DEF CountInv

(* No other step changes the list or the size. *)
LEMMA CountKept ==
  ASSUME HandlePoolAssumption, HpInv, orderly => CountInv, [Next]_vars, orderly'
  PROVE  CountInv'
<1> USE DEF HandlePoolAssumption, HpInv, HpTypeOK, Orderly, AloneAtEnd, Thread, Making, Closing,
    Go, Mine, poolVars, CountInv, LockHeld, ListedWhile, MainFirst
<1>1. ASSUME NEW t \in Thread, Alloc(t) PROVE CountInv'
  BY <1>1 DEF Alloc
<1>2. ASSUME NEW t \in Thread, Add(t) PROVE CountInv'
  BY <1>2 DEF Add, Lock
<1>3. ASSUME NEW t \in Thread, Link(t) PROVE CountInv'
  <2>1. orderly
    BY <1>3 DEF Link
  <2> QED
    BY <1>3, <2>1, LinkCounts
<1>4. ASSUME NEW t \in Thread, Close(t) PROVE CountInv'
  BY <1>4 DEF Close, Return
<1>5. ASSUME NEW t \in Thread, Invalidate(t) PROVE CountInv'
  BY <1>5 DEF Invalidate
<1>6. ASSUME NEW t \in Thread, Signal(t) PROVE CountInv'
  BY <1>6 DEF Signal
<1>7. ASSUME NEW t \in Thread, Join(t) PROVE CountInv'
  BY <1>7 DEF Join
<1>8. ASSUME NEW t \in Thread, JoinLate(t) PROVE CountInv'
  BY <1>8 DEF JoinLate
<1>9. ASSUME NEW t \in Thread, Take(t) PROVE CountInv'
  BY <1>9 DEF Take, Lock
<1>10. ASSUME NEW t \in Thread, Drop(t) PROVE CountInv'
  <2>1. orderly
    BY <1>10 DEF Drop
  <2> QED
    BY <1>10, <2>1, DropCounts
<1>11. ASSUME NEW t \in Thread, Free(t) PROVE CountInv'
  BY <1>11 DEF Free, Return
<1>12. ASSUME NEW t \in Thread, StopWorkerEnds(t) PROVE CountInv'
  BY <1>12 DEF StopWorkerEnds
<1>13. ASSUME NEW t \in Thread, Test(t) PROVE CountInv'
  BY <1>13 DEF Test, Watch
<1>14. ASSUME NEW t \in Thread, Wake(t) PROVE CountInv'
  BY <1>14 DEF Wake, Watch
<1>15. ASSUME NEW t \in Thread, Woken(t) PROVE CountInv'
  BY <1>15 DEF Woken, Watch, Reset
<1>16. ASSUME NEW t \in Thread, Last(t) PROVE CountInv'
  BY <1>16 DEF Last, Watch, Reset
<1>17. ASSUME NEW t \in Stopper, StopBegins(t) PROVE CountInv'
  BY <1>17 DEF StopBegins
<1>18. CASE Started
  BY <1>18 DEF Started
<1>19. CASE DestroyBegins
  BY <1>19 DEF DestroyBegins
<1>20. CASE CloseNext
  BY <1>20 DEF CloseNext
<1>21. CASE DestroyHeap
  BY <1>21 DEF DestroyHeap
<1>22. CASE UNCHANGED vars
  BY <1>22 DEF vars
<1> QED
  BY <1>1, <1>2, <1>3, <1>4, <1>5, <1>6, <1>7, <1>8, <1>9, <1>10, <1>11, <1>12,
     <1>13, <1>14, <1>15, <1>16, <1>17, <1>18, <1>19, <1>20, <1>21, <1>22
    DEF Next, Create, CloseStep, WatcherStep

-----------------------------------------------------------------------------
(* Theorems *)

(* At first main is about to make its handle, and there is none yet. *)
LEMMA HpInvFirst == ASSUME HandlePoolAssumption, Init PROVE HpInv
BY DEF Init, HandlePoolAssumption, HpInv, HpTypeOK, MainFirst, Orderly, Thread, Making,
    Closing, Ended, Go, Mine, Use, poolVars, AloneAtEnd, UsedWhile, ListedUsed, FreedLast,
    AllListed, Watched, ThreadGone, AliveWhenUsed, Places

(* HpInv holds whatever the threads do. *)
LEMMA HpInvHolds == HpSpec => []HpInv
<1>1. HandlePoolAssumption
  BY HandlePoolAssumption
<1>2. Init => HpInv
  BY <1>1, HpInvFirst
<1>3. HpInv /\ [Next]_vars => HpInv'
  BY <1>1, HpInvKept
<1> QED
  BY <1>2, <1>3, PTL DEF HpSpec

(* Every variable of the handles, their pool and their threads keeps its
   type, for any stopping threads and faults. *)
THEOREM HpTypeCorrect == HpSpec => []HpTypeOK
<1>1. HpInv => HpTypeOK
  BY DEF HpInv
<1> QED
  BY <1>1, HpInvHolds, PTL

(* However many threads make and close handles, none is used, by them or by
   its own event thread, after apxCloseHandle has freed it, as long as main
   does not destroy the pool under a stop. *)
THEOREM AliveHolds == HpSpec => []AliveWhenUsed
<1>1. HpInv => AliveWhenUsed
  BY DEF HpInv, Orderly, AliveWhenUsed
<1> QED
  BY <1>1, HpInvHolds, PTL

(* Whenever nobody holds the pool's lock, its size is that of its list,
   however many threads add and remove handles, as long as main does not
   destroy the pool under a stop. *)
THEOREM CountedHolds == HpSpec => []Counted
<1>1. HandlePoolAssumption
  BY HandlePoolAssumption
<1>2. Init => CountInv
  BY <1>1, FS_EmptySet DEF Init, HandlePoolAssumption, CountInv, LockHeld, ListedWhile, Making, Closing,
      Thread
<1>3. HpInv /\ (orderly => CountInv) /\ [Next]_vars => (orderly => CountInv)'
  BY <1>1, CountKept
<1>4. (orderly => CountInv) => Counted
  BY DEF CountInv, Counted
<1> QED
  BY <1>2, <1>3, <1>4, HpInvHolds, PTL DEF HpSpec
=============================================================================
