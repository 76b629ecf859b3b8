---------------------------- MODULE ServiceAdmin ----------------------------
(***************************************************************************)
(* prunsrv as the administrator's tool: //IS, //US, //DS, //ES and //SS     *)
(* (prunsrv.c docmd*, with the service manager calls of service.c and the   *)
(* settings of registry.c).  Every run of it is a process of its own that   *)
(* works on two stores, the service manager's database and the keys under   *)
(* SOFTWARE, one call after another; nothing makes them one transaction.    *)
(*                                                                         *)
(* There is one service.  A command's account and Java option are both     *)
(* called after the command: --ServiceUser c, --JvmOptions c or ++JvmOptions *)
(* c.  Any call may fail for reasons of its own; a key that is open takes   *)
(* what is written to it.                                                   *)
(***************************************************************************)
EXTENDS Integers

CONSTANTS Command,   \* the runs of prunsrv that there can be at a time
          MaxPoint   \* how often a service reports progress before it says no more

NoKey == [key |-> FALSE, options |-> {}]
Key(options) == [key |-> TRUE, options |-> options]
Default == "LocalSystem"

ASSUME ServiceAdminAssumption == MaxPoint \in Nat /\ Default \notin Command

VARIABLES
    entry,   \* the service manager's entry
    state,   \* the state of the service
    point,   \* its check point
    reg,     \* its key under SOFTWARE, with its Java options
    pc,      \* where each command is, or how the one before ended
    do,      \* what it does
    add,     \* its option is given with ++
    seen,    \* the options it has loaded
    opened,  \* it has the service open
    mark,    \* the check point it saw last
    alone,   \* no other command has run since it began, and it has read what
             \* there was to read
    quiet    \* no two commands have overlapped, none was cut short and no
             \* failure passed over

vars == <<entry, state, point, reg, pc, do, add, seen, opened, mark, alone, quiet>>
local == <<do, add, seen, mark, alone>>
service == <<state, point>>

Ended == {"ok", "failed"}
Busy(c) == pc[c] \notin Ended
Doing == {"install", "update", "delete", "start", "stop"}
Pending == {"START_PENDING", "STOP_PENDING"}
Absent == [is |-> "absent", user |-> Default, params |-> FALSE]

StoreTypes ==
    /\ entry \in [is : {"absent", "present", "marked"}, user : Command \cup {Default},
                  params : BOOLEAN]  \* params: its Parameters key under Services
    /\ state \in Pending \cup {"STOPPED", "RUNNING"}
    /\ point \in 0 .. MaxPoint
    /\ reg \in {NoKey} \cup {Key(o) : o \in SUBSET Command}
    /\ entry.is = "absent" => entry = Absent /\ state = "STOPPED"

CommandTypes ==
    /\ pc \in [Command -> Ended \cup {"load", "open", "create", "names", "options",
                  "save", "query", "control", "wait", "settle", "delete", "erase"}]
    /\ do \in [Command -> Doing]
    /\ add \in [Command -> BOOLEAN]
    /\ seen \in [Command -> SUBSET Command]
    /\ opened \in [Command -> BOOLEAN]
    /\ mark \in [Command -> 0 .. MaxPoint]
    /\ alone \in [Command -> BOOLEAN]
    /\ quiet \in BOOLEAN

(* Who has the service open runs, and there is one. *)
HeldOpen == \A c \in Command : opened[c] => Busy(c) /\ entry.is # "absent"

SaTypeOK == StoreTypes /\ CommandTypes /\ HeldOpen

Init ==
    /\ entry = Absent
    /\ state = "STOPPED" /\ point = 0
    /\ reg = NoKey
    /\ pc = [c \in Command |-> "failed"]
    /\ do = [c \in Command |-> "stop"]
    /\ add = [c \in Command |-> FALSE]
    /\ seen = [c \in Command |-> {}]
    /\ opened = [c \in Command |-> FALSE]
    /\ mark = [c \in Command |-> 0]
    /\ alone = [c \in Command |-> TRUE]
    /\ quiet = TRUE

-----------------------------------------------------------------------------
At(c, here) == pc[c] = here
Go(c, there) == pc' = [pc EXCEPT ![c] = there]
Opened(c, is) == opened' = [opened EXCEPT ![c] = is]

(* The command ends, and what it knew is gone. *)
Forget(c) ==
    /\ do' = [do EXCEPT ![c] = "stop"]
    /\ add' = [add EXCEPT ![c] = FALSE]
    /\ seen' = [seen EXCEPT ![c] = {}]
    /\ mark' = [mark EXCEPT ![c] = 0]
    /\ alone' = [alone EXCEPT ![c] = TRUE]
Done_Open(c, rv) == Go(c, rv) /\ Forget(c) /\ UNCHANGED opened       \* mutant
(* The handle of the service goes with it. *)
Done(c, rv) == Go(c, rv) /\ Forget(c) /\ Opened(c, FALSE)
Fail(c) == Done(c, "failed")
Goes(c, there) == Go(c, there) /\ UNCHANGED <<local, opened>>

(* A call that failed and that nobody asked. *)
PassedOver == quiet' = FALSE

(* Configuration options can be read when both stores have their key. *)
Loadable == reg.key /\ entry.params

Loads_Late(d) == d \in {"start", "stop"}                            \* mutant
Loads(d) == d \in {"start", "stop", "update"}

Begin(c, d) ==
    /\ ~Busy(c)
    /\ Go(c, CASE Loads(d) -> "load" [] d = "install" -> "create" [] OTHER -> "open")
    /\ do' = [do EXCEPT ![c] = d]
    /\ add' \in {[add EXCEPT ![c] = a] : a \in IF d \in {"install", "update"} THEN BOOLEAN ELSE {FALSE}}
    /\ LET others == \E b \in Command : Busy(b)
       IN  /\ alone' = [b \in Command |-> IF b = c THEN ~others ELSE alone[b] /\ ~Busy(b)]
           /\ quiet' = (quiet /\ ~others)
    /\ UNCHANGED <<entry, service, reg, seen, opened, mark>>

(* loadConfiguration; only an update goes on without. *)
Load(c) ==
    /\ At(c, "load")
    /\ \/ /\ Loadable
          /\ seen' = [seen EXCEPT ![c] = IF add[c] THEN reg.options ELSE {}]
          /\ Go(c, "open") /\ UNCHANGED <<opened, do, add, mark, alone, quiet>>
       \/ /\ do[c] = "update" /\ Go(c, "open")
          /\ alone' = [alone EXCEPT ![c] = @ /\ ~Loadable]
          /\ quiet' = (quiet /\ ~Loadable)
          /\ UNCHANGED <<opened, do, add, seen, mark>>
       \/ do[c] # "update" /\ Fail(c) /\ UNCHANGED quiet
    /\ UNCHANGED <<entry, service, reg>>

(* The service manager, which may refuse, and the service.  A service that
   cannot be opened to be updated is installed. *)
Open(c) ==
    /\ At(c, "open")
    /\ \/ /\ entry.is # "absent"
          /\ Go(c, CASE do[c] = "update" -> "names"
                     [] do[c] = "delete" -> "query"
                     [] OTHER -> "control")
          /\ Opened(c, TRUE) /\ UNCHANGED local
       \/ /\ do[c] = "update" /\ Go(c, "create")
          /\ do' = [do EXCEPT ![c] = "install"]
          /\ UNCHANGED <<add, seen, opened, mark, alone>>
       \/ Fail(c)
    /\ UNCHANGED <<entry, service, reg, quiet>>

-----------------------------------------------------------------------------
(* Install and update *)

Create(c) ==
    /\ At(c, "create")
    /\ \/ /\ entry.is = "absent"
          /\ entry' = [Absent EXCEPT !.is = "present"]
          /\ Go(c, "names") /\ Opened(c, TRUE) /\ UNCHANGED local
       \/ Fail(c) /\ UNCHANGED entry
    /\ UNCHANGED <<service, reg, quiet>>

Named(c) == entry.is = "present" /\ entry' = [entry EXCEPT !.user = c]

(* apxServiceSetNames; an install does not ask how it went.  The description
   comes second, and may fail when the account has been changed. *)
Names_Unasked(c) ==                                                 \* mutant
    /\ At(c, "names")
    /\ Named(c) \/ UNCHANGED entry
    /\ Go(c, IF do[c] = "install" THEN "save" ELSE "options")
    /\ Opened(c, do[c] # "install")
    /\ UNCHANGED <<service, reg, local, quiet>>
Names(c) ==
    /\ At(c, "names")
    /\ \/ /\ do[c] = "install" /\ Go(c, "save") /\ Opened(c, FALSE) /\ UNCHANGED local
          /\ \/ Named(c) /\ UNCHANGED quiet
             \/ UNCHANGED entry /\ PassedOver
       \/ do[c] = "update" /\ Named(c) /\ Goes(c, "options") /\ UNCHANGED quiet
       \/ do[c] = "update" /\ (Named(c) \/ UNCHANGED entry) /\ Fail(c) /\ UNCHANGED quiet
    /\ UNCHANGED <<service, reg>>

Options(c) ==
    /\ At(c, "options")
    /\ \/ entry.is = "present" /\ Goes(c, "save")
       \/ Fail(c)
    /\ UNCHANGED <<entry, service, reg, quiet>>

(* saveConfiguration.  The key under SOFTWARE is made before the one under
   Services is looked for; an install does not ask how it went. *)
Save(c) ==
    /\ At(c, "save")
    /\ \/ /\ entry.is # "absent"
          /\ reg' = Key(seen[c] \cup {c})
          /\ entry' = [entry EXCEPT !.params = TRUE]
          /\ Done(c, "ok") /\ UNCHANGED quiet
       \/ /\ reg' \in {reg, Key(reg.options)}
          /\ UNCHANGED entry
          /\ \/ do[c] = "install" /\ Done(c, "ok") /\ PassedOver
             \/ do[c] = "update" /\ Fail(c) /\ UNCHANGED quiet
    /\ UNCHANGED service

-----------------------------------------------------------------------------
(* Start, stop and delete *)

Wanted(c) == IF do[c] = "start" THEN "RUNNING" ELSE "STOPPED"
Awaited(c) == IF do[c] = "start" THEN "START_PENDING" ELSE "STOP_PENDING"

(* apxServiceDelete stops a service that is not stopped. *)
Query(c) ==
    /\ At(c, "query")
    /\ Goes(c, IF state = "STOPPED" THEN "delete" ELSE "control") \/ Fail(c)
    /\ UNCHANGED <<entry, service, reg, quiet>>

(* StartService, or ControlService after the services that depend on it. *)
Control(c) ==
    /\ At(c, "control")
    /\ \/ /\ Goes(c, "wait")
          /\ \/ do[c] = "start" /\ state = "STOPPED" /\ entry.is = "present"
             \/ do[c] # "start" /\ state = "RUNNING"
          /\ state' = Awaited(c) /\ point' = 0
       \/ Goes(c, "settle") /\ UNCHANGED service
    /\ UNCHANGED <<entry, reg, quiet>>

(* It waits while the service reports progress, and for one wait hint more. *)
Progress(c) ==
    /\ state = Awaited(c) /\ point > mark[c]
    /\ mark' = [mark EXCEPT ![c] = point]
    /\ UNCHANGED <<pc, do, add, seen, opened, alone>>
Wait_Patient(c) ==                                                  \* mutant
    /\ At(c, "wait")
    /\ Progress(c) \/ (state # Awaited(c) /\ Goes(c, "settle"))
    /\ UNCHANGED <<entry, service, reg, quiet>>
Wait(c) ==
    /\ At(c, "wait")
    /\ \/ Progress(c)
       \/ state = Awaited(c) /\ point <= mark[c] /\ Goes(c, "settle")
       \/ state # Awaited(c) /\ Goes(c, "settle")
    /\ UNCHANGED <<entry, service, reg, quiet>>

(* The state decides, whatever the calls returned; a delete does not ask. *)
Settle(c) ==
    /\ At(c, "settle")
    /\ \/ do[c] = "delete" /\ Goes(c, "delete")
       \/ do[c] # "delete" /\ Done(c, IF state = Wanted(c) THEN "ok" ELSE "failed")
    /\ UNCHANGED <<entry, service, reg, quiet>>

(* The entry of a service that is up, or that others have open, is marked. *)
Marked(c) ==
    /\ entry.is = "present"
    /\ entry' = [entry EXCEPT !.is = "marked"]
    /\ Go(c, "erase") /\ Opened(c, FALSE) /\ UNCHANGED local
Delete_Regardless(c) ==                                             \* mutant
    /\ At(c, "delete")
    /\ Marked(c) \/ (Go(c, "erase") /\ Opened(c, FALSE) /\ UNCHANGED <<entry, local>>)
    /\ UNCHANGED <<service, reg, quiet>>
Delete(c) ==
    /\ At(c, "delete")
    /\ Marked(c) \/ (Fail(c) /\ UNCHANGED entry)
    /\ UNCHANGED <<service, reg, quiet>>

Erase(c) ==
    /\ At(c, "erase") /\ Done(c, "ok")
    /\ \/ reg' = NoKey /\ UNCHANGED quiet
       \/ UNCHANGED reg /\ PassedOver
    /\ UNCHANGED <<entry, service>>

-----------------------------------------------------------------------------
(* The service manager and the service *)

Vanish ==
    /\ entry.is = "marked" /\ state = "STOPPED"
    /\ \A c \in Command : ~opened[c]
    /\ entry' = Absent
    /\ UNCHANGED <<service, reg, pc, local, opened, quiet>>

Report ==
    /\ state \in Pending /\ point < MaxPoint
    /\ point' = point + 1
    /\ UNCHANGED <<entry, state, reg, pc, local, opened, quiet>>

(* The service, //RS, is run by prunsrv too and loads its configuration. *)
Become ==
    /\ \/ state = "START_PENDING" /\ Loadable /\ state' = "RUNNING"
       \/ state # "STOPPED" /\ state' = "STOPPED"
    /\ point' = 0
    /\ UNCHANGED <<entry, reg, pc, local, opened, quiet>>

CutShort(c) ==
    /\ Busy(c) /\ Fail(c)
    /\ PassedOver
    /\ UNCHANGED <<entry, service, reg>>

Step(c) ==
    \/ Load(c) \/ Open(c)
    \/ Create(c) \/ Names(c) \/ Options(c) \/ Save(c)
    \/ Query(c) \/ Control(c) \/ Wait(c) \/ Settle(c) \/ Delete(c) \/ Erase(c)

Next ==
    \/ \E c \in Command : Step(c) \/ CutShort(c) \/ \E d \in Doing : Begin(c, d)
    \/ Vanish \/ Report \/ Become

(* A process that runs goes on; the service need not. *)
Spec == Init /\ [][Next]_vars /\ \A c \in Command : WF_vars(Step(c))

-----------------------------------------------------------------------------
(* Properties *)

Idle == \A c \in Command : ~Busy(c)

(* Commands that follow each other keep the two stores together: a service
   has its settings, and settings are not left for the service that is
   installed next under that name. *)
Configured == quiet /\ Idle => (entry.is = "present" <=> Loadable) /\ (reg.key => Loadable)

(* An update that ran alone and reports success has changed both stores, also
   those of a service whose install or update was cut short. *)
UpdateWorks ==
    [][\A c \in Command :
          Busy(c) /\ pc'[c] = "ok" /\ do[c] = "update" /\ alone[c] =>
              entry'.user = c /\ c \in reg'.options /\ entry'.params]_vars

(* ++ adds to the options of a service that has some, if the update runs alone
   and could read them. *)
AddKeeps ==
    [][\A c \in Command :
          At(c, "save") /\ add[c] /\ do[c] = "update" /\ alone[c] /\ Loadable =>
              reg.options \subseteq reg'.options]_vars

(* Every command comes to an end, also one that waits for a service which
   stays pending, once that says no more. *)
CommandsEnd == \A c \in Command : Busy(c) ~> ~Busy(c)

=============================================================================
