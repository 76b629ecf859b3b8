----------------------------- MODULE HandlePool -----------------------------
(***************************************************************************)
(* The handles of procrun and the pool they are in                          *)
(* (windows/src/handles.c), as prunsrv uses them: main makes the worker's   *)
(* handle and in the end destroys the pool, each thread of serviceStop      *)
(* makes a handle for its stop worker and closes it.  The handle of a       *)
(* process has a thread of its own that waits for messages.  Nobody posts   *)
(* any: all it ever learns is that the handle is being closed.              *)
(*                                                                         *)
(* A handle is named by the thread that made it.  A step is a stretch of    *)
(* code between two accesses to what other threads use.                    *)
(***************************************************************************)
EXTENDS Integers, FiniteSets

CONSTANTS Stopper,  \* threads of serviceStop
          main,     \* the thread that runs main and serviceMain
          nobody,
          Faults    \* what may go wrong: see FaultKinds

FaultKinds == {"second",  \* the wait of a second for the event thread times out
               "start"}   \* serviceStart fails

Thread == Stopper \cup {main}

ASSUME HandlePoolAssumption ==
    /\ main \notin Stopper
    /\ nobody \notin Thread
    /\ Faults \subseteq FaultKinds

VARIABLES
    type,     \* dwType of each handle; open stands for all that are valid
    block,    \* the memory each handle is in
    listed,   \* the handles in the pool's list
    size,     \* the pool's dwSize
    spin,     \* who holds the pool's spin lock
    seen,     \* the dwSize that each thread has read under it
    event,    \* hEventHandle; none without APXHANDLE_HAS_EVENT
    watcher,  \* where the event thread of each handle is
    pc,       \* where each thread is
    cur,      \* the handle that main is closing
    stale,    \* the handles that were used after they were freed
    orderly   \* main has not begun to destroy the pool under a stop

vars == <<type, block, listed, size, spin, seen, event, watcher, pc, cur, stale, orderly>>
poolVars == <<listed, size, spin, seen>>

Making == {"alloc", "add", "link"}
Closing == {"close", "invalidate", "signal", "join", "take", "drop", "free"}
(* left: it returns and does not close its handle; serve: serviceMain waits. *)
Places == {"idle", "has", "left", "done", "serve", "destroy", "gone"} \cup Making \cup Closing

HpTypeOK ==
    /\ type \in [Thread -> {"none", "open", "invalid"}]
    /\ block \in [Thread -> {"none", "used", "freed"}]
    /\ listed \subseteq Thread
    /\ size \in Int
    /\ spin \in Thread \cup {nobody}
    /\ seen \in [Thread -> Int]
    /\ event \in [Thread -> {"none", "reset", "set", "closed"}]
    /\ watcher \in [Thread -> {"none", "test", "wait", "woken", "last", "ended"}]
    /\ pc \in [Thread -> Places]
    /\ cur \in Thread
    /\ stale \subseteq Thread
    /\ orderly \in BOOLEAN

Init ==
    /\ type = [h \in Thread |-> "none"]
    /\ block = [h \in Thread |-> "none"]
    /\ listed = {}
    /\ size = 0
    /\ spin = nobody
    /\ seen = [t \in Thread |-> 0]
    /\ event = [h \in Thread |-> "none"]
    /\ watcher = [h \in Thread |-> "none"]
    /\ pc = [t \in Thread |-> IF t = main THEN "alloc" ELSE "idle"]
    /\ cur = main
    /\ stale = {}
    /\ orderly = TRUE

-----------------------------------------------------------------------------
(* The program runs until main has destroyed the pool.  What comes after a
   use of freed memory is undefined and not followed. *)
Runs == pc[main] # "gone" /\ stale = {}

Go(t, from, to) ==
    /\ Runs
    /\ pc[t] = from
    /\ pc' = [pc EXCEPT ![t] = to]

(* The handle a thread works on. *)
Mine(t) == IF t = main THEN cur ELSE t

(* The memory of a handle is read or written. *)
Use(h) == stale' = IF block[h] = "freed" THEN stale \cup {h} ELSE stale

(* APXHANDLE_SPINLOCK of the pool. *)
Lock_Never(t) == spin' = t /\ seen' = [seen EXCEPT ![t] = size]       \* mutant
Lock(t) ==
    /\ spin = nobody
    /\ spin' = t
    /\ seen' = [seen EXCEPT ![t] = size]

Unlock(t) == spin' = nobody /\ seen' = [seen EXCEPT ![t] = 0]

-----------------------------------------------------------------------------
(* apxHandleCreate *)

(* From here on the handle's thread runs, if there is one: a Java VM's has
   none, and CreateThread can fail. *)
Alloc(t) ==
    /\ Go(t, "alloc", "add")
    /\ type' = [type EXCEPT ![t] = "open"]
    /\ block' = [block EXCEPT ![t] = "used"]
    /\ \/ /\ event' = [event EXCEPT ![t] = "reset"]
          /\ watcher' = [watcher EXCEPT ![t] = "test"]
       \/ UNCHANGED <<event, watcher>>
    /\ UNCHANGED <<poolVars, cur, stale, orderly>>

Add(t) ==
    /\ Go(t, "add", "link")
    /\ Lock(t)
    /\ UNCHANGED <<type, block, listed, size, event, watcher, cur, stale, orderly>>

Link(t) ==
    /\ Go(t, "link", "has")
    /\ listed' = listed \cup {t}
    /\ size' = seen[t] + 1
    /\ Unlock(t)
    /\ UNCHANGED <<type, block, event, watcher, cur, stale, orderly>>

Create(t) == Alloc(t) \/ Add(t) \/ Link(t)

-----------------------------------------------------------------------------
(* apxCloseHandle *)

(* Where the caller goes on: main with the next handle of the pool. *)
Return(t, from) ==
    /\ Go(t, from, IF t = main THEN "destroy" ELSE "done")
    /\ cur' = IF t = main THEN main ELSE cur

(* A handle that is invalid is being closed already; for any other the
   handler of its kind is called. *)
Close(t) ==
    /\ \/ type[Mine(t)] = "invalid" /\ Return(t, "close")
       \/ type[Mine(t)] # "invalid" /\ Go(t, "close", "invalidate") /\ UNCHANGED cur
    /\ Use(Mine(t))
    /\ UNCHANGED <<type, block, poolVars, event, watcher, orderly>>

Invalidate_Not(t) ==                                                \* mutant
    /\ \/ event[Mine(t)] \in {"reset", "set"} /\ Go(t, "invalidate", "signal")
       \/ event[Mine(t)] \notin {"reset", "set"} /\ Go(t, "invalidate", "take")
    /\ Use(Mine(t))
    /\ UNCHANGED <<type, block, poolVars, event, watcher, cur, orderly>>
Invalidate(t) ==
    /\ \/ event[Mine(t)] \in {"reset", "set"} /\ Go(t, "invalidate", "signal")
       \/ event[Mine(t)] \notin {"reset", "set"} /\ Go(t, "invalidate", "take")
    /\ type' = [type EXCEPT ![Mine(t)] = "invalid"]
    /\ Use(Mine(t))
    /\ UNCHANGED <<block, poolVars, event, watcher, cur, orderly>>

Signal(t) ==
    /\ Go(t, "signal", "join")
    /\ event' = [event EXCEPT ![Mine(t)] = IF @ = "closed" THEN @ ELSE "set"]
    /\ Use(Mine(t))
    /\ UNCHANGED <<type, block, poolVars, watcher, cur, orderly>>

(* WaitForSingleObject(hEventThread, 1000), TerminateThread if that is over. *)
Join_Not(t) ==                                                      \* mutant
    /\ Go(t, "join", "take")
    /\ event' = [event EXCEPT ![Mine(t)] = "closed"]
    /\ Use(Mine(t))
    /\ UNCHANGED <<type, block, poolVars, watcher, cur, orderly>>
Join(t) ==
    /\ Go(t, "join", "take")
    /\ watcher[Mine(t)] = "ended"
    /\ event' = [event EXCEPT ![Mine(t)] = "closed"]
    /\ Use(Mine(t))
    /\ UNCHANGED <<type, block, poolVars, watcher, cur, orderly>>

JoinLate(t) ==
    /\ "second" \in Faults
    /\ Go(t, "join", "take")
    /\ watcher' = [watcher EXCEPT ![Mine(t)] = "ended"]
    /\ event' = [event EXCEPT ![Mine(t)] = "closed"]
    /\ Use(Mine(t))
    /\ UNCHANGED <<type, block, poolVars, cur, orderly>>

Take(t) ==
    /\ Go(t, "take", "drop")
    /\ Lock(t)
    /\ Use(Mine(t))
    /\ UNCHANGED <<type, block, listed, size, event, watcher, cur, orderly>>

Drop(t) ==
    /\ Go(t, "drop", "free")
    /\ listed' = listed \ {Mine(t)}
    /\ size' = seen[t] - 1
    /\ Unlock(t)
    /\ Use(Mine(t))
    /\ UNCHANGED <<type, block, event, watcher, cur, orderly>>

(* __apxPoolFreeCore marks the block and frees it: what a second call finds
   there is undefined. *)
Free(t) ==
    /\ Return(t, "free")
    /\ block' = [block EXCEPT ![Mine(t)] = "freed"]
    /\ Use(Mine(t))
    /\ UNCHANGED <<type, poolVars, event, watcher, orderly>>

CloseStep(t) ==
    \/ Close(t) \/ Invalidate(t) \/ Signal(t) \/ Join(t) \/ Take(t) \/ Drop(t) \/ Free(t)

-----------------------------------------------------------------------------
(* __apxHandleEventThread *)

Watch(h, from, to) ==
    /\ Runs
    /\ watcher[h] = from
    /\ watcher' = [watcher EXCEPT ![h] = to]

Test(h) ==
    /\ \/ type[h] # "invalid" /\ Watch(h, "test", "wait")
       \/ type[h] = "invalid" /\ Watch(h, "test", "last")
    /\ Use(h)
    /\ UNCHANGED <<type, block, poolVars, event, pc, cur, orderly>>

Wake(h) ==
    /\ event[h] = "set"
    /\ Watch(h, "wait", "woken")
    /\ UNCHANGED <<type, block, poolVars, event, pc, cur, stale, orderly>>

Reset(h) == event' = [event EXCEPT ![h] = IF @ = "closed" THEN @ ELSE "reset"]

Woken(h) ==
    /\ \/ type[h] # "invalid" /\ Watch(h, "woken", "test") /\ Reset(h)
       \/ type[h] = "invalid" /\ Watch(h, "woken", "last") /\ UNCHANGED event
    /\ Use(h)
    /\ UNCHANGED <<type, block, poolVars, pc, cur, orderly>>

Last(h) ==
    /\ Watch(h, "last", "ended")
    /\ Reset(h)
    /\ Use(h)
    /\ UNCHANGED <<type, block, poolVars, pc, cur, orderly>>

WatcherStep(h) == Test(h) \/ Wake(h) \/ Woken(h) \/ Last(h)

-----------------------------------------------------------------------------
(* prunsrv *)

(* serviceStart has made the worker, or has failed and closes it. *)
Started ==
    /\ \/ Go(main, "has", "serve")
       \/ "start" \in Faults /\ Go(main, "has", "close")
    /\ UNCHANGED <<type, block, poolVars, event, watcher, cur, stale, orderly>>

(* A stop makes its own worker. *)
StopBegins(t) ==
    /\ pc[main] = "serve"
    /\ Go(t, "idle", "alloc")
    /\ UNCHANGED <<type, block, poolVars, event, watcher, cur, stale, orderly>>

(* The stop worker has ended; java.lang.System's is never closed. *)
StopWorkerEnds(t) ==
    /\ t # main
    /\ \/ Go(t, "has", "close")
       \/ Go(t, "has", "left")
    /\ UNCHANGED <<type, block, poolVars, event, watcher, cur, stale, orderly>>

(* The dispatcher has returned: apxHandleManagerDestroy.  serviceMain waits
   for a stop only if that has made gShutdownEvent, and for a minute. *)
DestroyBegins ==
    /\ Go(main, "serve", "destroy")
    /\ orderly' = \A t \in Stopper : pc[t] \in {"idle", "left", "done"}
    /\ UNCHANGED <<type, block, poolVars, event, watcher, cur, stale>>

(* __apxPoolCallback takes the first of the list until there is none. *)
CloseNext ==
    /\ \E h \in listed : cur' = h
    /\ Go(main, "destroy", "close")
    /\ UNCHANGED <<type, block, poolVars, event, watcher, stale, orderly>>

(* The heap and all that is still in it. *)
DestroyHeap ==
    /\ listed = {}
    /\ Go(main, "destroy", "gone")
    /\ block' = [h \in Thread |-> IF block[h] = "used" THEN "freed" ELSE block[h]]
    /\ UNCHANGED <<type, poolVars, event, watcher, cur, stale, orderly>>

Next ==
    \/ \E t \in Thread : Create(t) \/ CloseStep(t) \/ JoinLate(t) \/ StopWorkerEnds(t)
    \/ \E t \in Stopper : StopBegins(t)
    \/ \E h \in Thread : WatcherStep(h)
    \/ Started \/ DestroyBegins \/ CloseNext \/ DestroyHeap

(* Some thread that can go on does; that a wait times out, or that a stop
   worker ends, is not relied on. *)
Fairness ==
    WF_vars(CloseNext \/ DestroyHeap \/ \E t \in Thread : Create(t) \/ CloseStep(t) \/ WatcherStep(t))

HpSpec == Init /\ [][Next]_vars /\ Fairness

-----------------------------------------------------------------------------
(* Properties *)

(* Nobody uses a handle whose memory was freed, nor is its own thread still
   there to do so, unless the pool is destroyed under a stop. *)
AliveWhenUsed ==
    orderly => /\ stale = {}
               /\ \A h \in Thread : block[h] = "freed" => watcher[h] \in {"none", "ended"}

(* The pool's size is that of its list whenever nobody is changing it. *)
Counted == orderly /\ spin = nobody => size = Cardinality(listed)

(* A handle that is being closed gets closed: its thread learns of it, also
   when it was not waiting at that moment.  The loop over the pool's list ends
   and leaves nothing, also of a stop that never closed its handle. *)
ClosesEnd ==
    /\ \A t \in Stopper : pc[t] = "close" ~> pc[t] = "done" \/ ~orderly
    /\ pc[main] = "destroy" /\ orderly ~> pc[main] = "gone"
=============================================================================
