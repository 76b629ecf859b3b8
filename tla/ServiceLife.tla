----------------------------- MODULE ServiceLife -----------------------------
(***************************************************************************)
(* What the service manager is entitled to see of a procrun service: every *)
(* start is answered, every stop ends, the state never goes back and a     *)
(* service that has been reported stopped says nothing more.               *)
(***************************************************************************)
VARIABLE life

Lives == {"GONE", "START_PENDING", "RUNNING", "STOP_PENDING", "STOPPED", "FAILED"}

Init == life = "GONE"

Goes(from, to) == life = from /\ life' \in to

Launch == Goes("GONE", {"START_PENDING"})
Answer == Goes("START_PENDING", {"RUNNING", "FAILED"})
Stop   == Goes("RUNNING", {"STOP_PENDING"})
Finish == Goes("STOP_PENDING", {"STOPPED", "FAILED"})
Leave  == Goes("STOPPED", {"GONE"}) \/ Goes("FAILED", {"GONE"})

Next == Launch \/ Answer \/ Stop \/ Finish \/ Leave

Safety == Init /\ [][Next]_life

Spec ==
    /\ Safety
    /\ WF_life(Answer) /\ WF_life(Finish) /\ WF_life(Leave)
=============================================================================
