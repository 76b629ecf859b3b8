------------------------------ MODULE Supervised ------------------------------
(***************************************************************************)
(* What jsvc promises of the service it supervises, as long as the service *)
(* process does not crash: a shutdown request that has been accepted is    *)
(* final, a reload request leads to one more start, a service that fails   *)
(* to start is given up, nothing else ends a service that is up, and one   *)
(* that has ended for good is started only by another run of the command.  *)
(***************************************************************************)
CONSTANT Inst

VARIABLE phase

Phases == {"down", "starting", "up", "closing", "reloading", "ended"}

Init == phase = [i \in Inst |-> "down"]

Goes(i, from, to) == phase[i] = from /\ phase' = [phase EXCEPT ![i] = to]

Start(i)    == Goes(i, "down", "starting")
Serve(i)    == Goes(i, "starting", "up")
Shutdown(i) == Goes(i, "up", "closing")
Reload(i)   == Goes(i, "up", "reloading")
Recycle(i)  == Goes(i, "reloading", "starting")
(* The service has ended for good and its controller will exit; one that has
   lost its controller, or could not be forked, is down at once. *)
End(i, from) == Goes(i, from, "ended") \/ Goes(i, from, "down")
Leave(i)    == Goes(i, "ended", "down")

(* A stop that fails, or a lost controller, leaves a reload unfinished. *)
Obey(i) == End(i, "closing") \/ Recycle(i) \/ End(i, "reloading")

Next ==
    \E i \in Inst : Start(i) \/ Serve(i) \/ End(i, "starting") \/ Shutdown(i)
                      \/ Reload(i) \/ Obey(i) \/ Leave(i)

Safety == Init /\ [][Next]_phase

(* A request that has been accepted is carried out, and a controller whose
   service has ended for good exits. *)
Obeys == \A i \in Inst : WF_phase(Obey(i))
Leaves == \A i \in Inst : WF_phase(Leave(i))
=============================================================================
