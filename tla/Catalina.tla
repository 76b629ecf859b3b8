------------------------------ MODULE Catalina ------------------------------
(***************************************************************************)
(* catalina.sh start and stop (src/tomcat/bin/catalina.sh) with the pid     *)
(* file that CATALINA_PID names.  The file is all that one run of the       *)
(* script knows of the others: it is read anew at every step, there is no   *)
(* lock, and the kernel may give a dead java's number to any program.       *)
(*                                                                         *)
(* The shell reads the file and asks for the process in one step of the     *)
(* model; what it then does to the file is another.  The file can be read   *)
(* and written; the directory it is in perhaps not.                         *)
(***************************************************************************)
EXTENDS Integers

CONSTANTS Command,    \* the runs of the script that there can be at a time
          Pid,        \* process numbers
          Sleep,      \* the seconds a stop waits
          KillSleep   \* and those a kill waits (KILL_SLEEP_INTERVAL)

None == "none"        \* no such file
Empty == "empty"

ASSUME CatalinaAssumption ==
    /\ Pid \cap {None, Empty} = {}
    /\ Sleep \in Nat /\ KillSleep \in Nat

VARIABLES
    file,       \* what $CATALINA_PID holds
    removable,  \* files in its directory can be removed and made
    proc,       \* what runs under each process number
    pc,         \* where each run of the script is
    pid,        \* its $! or $PID
    force,      \* its FORCE
    left,       \* its SLEEP or KILL_SLEEP_INTERVAL
    calm        \* no two runs have overlapped and none was cut short

vars == <<file, removable, proc, pc, pid, force, left, calm>>
local == <<pid, force, left>>

Starting == {"check", "clear", "launch", "record"}
Stopping == {"look", "shutdown", "signal", "wait", "remove", "force", "kill", "reap", "unlink"}
Tomcat == {"starting", "ready", "ending", "dying"}

CtTypeOK ==
    /\ file \in Pid \cup {None, Empty}
    /\ removable \in BOOLEAN
    /\ ~removable => file # None
    /\ proc \in [Pid -> Tomcat \cup {"free", "stranger"}]
    /\ pc \in [Command -> Starting \cup Stopping \cup {"idle"}]
    /\ pid \in [Command -> Pid \cup {None, Empty}]
    /\ force \in [Command -> BOOLEAN]
    /\ left \in [Command -> Int]
    /\ \A c \in Command : left[c] >= 0
    /\ calm \in BOOLEAN

Init ==
    /\ removable \in BOOLEAN
    /\ file = IF removable THEN None ELSE Empty
    /\ proc = [p \in Pid |-> "free"]
    /\ pc = [c \in Command |-> "idle"]
    /\ pid = [c \in Command |-> None]
    /\ force = [c \in Command |-> FALSE]
    /\ left = [c \in Command |-> 0]
    /\ calm = TRUE

-----------------------------------------------------------------------------
(* kill -0 and ps -p: the file names a process, whichever it is. *)
Alive == file \in Pid /\ proc[file] # "free"

(* rm -f, and cat /dev/null where that fails. *)
Cleared == IF file = None \/ removable THEN None ELSE Empty

At(c, here) == pc[c] = here
Go(c, there) == pc' = [pc EXCEPT ![c] = there]
Exit(c) ==
    /\ Go(c, "idle")
    /\ pid' = [pid EXCEPT ![c] = None]
    /\ force' = [force EXCEPT ![c] = FALSE]
    /\ left' = [left EXCEPT ![c] = 0]

Idle == \A c \in Command : At(c, "idle")

Begin(c) ==
    /\ At(c, "idle")
    /\ calm' = (calm /\ Idle)
    /\ \/ Go(c, "check") /\ UNCHANGED <<force, left>>
       \/ /\ Go(c, "look")
          /\ force' \in {[force EXCEPT ![c] = f] : f \in BOOLEAN}
          /\ left' = [left EXCEPT ![c] = Sleep]
    /\ UNCHANGED <<file, removable, proc, pid>>

-----------------------------------------------------------------------------
(* start *)

(* A process of that number ends the start; a file without one is cleared. *)
Check_Stale(c) ==                                                   \* mutant
    /\ At(c, "check")
    /\ IF file = None THEN Go(c, "launch") ELSE Go(c, "clear")
    /\ UNCHANGED <<file, removable, proc, local, calm>>
Check(c) ==
    /\ At(c, "check")
    /\ \/ Alive /\ Exit(c)
       \/ ~Alive /\ file # None /\ Go(c, "clear") /\ UNCHANGED local
       \/ file = None /\ Go(c, "launch") /\ UNCHANGED local
    /\ UNCHANGED <<file, removable, proc, calm>>

Clear(c) ==
    /\ At(c, "clear") /\ Go(c, "launch")
    /\ file' = Cleared
    /\ UNCHANGED <<removable, proc, local, calm>>

(* java runs in the background from here. *)
Launch(c) ==
    /\ At(c, "launch") /\ Go(c, "record")
    /\ \E p \in Pid :
          /\ proc[p] = "free"
          /\ proc' = [proc EXCEPT ![p] = "starting"]
          /\ pid' = [pid EXCEPT ![c] = p]
    /\ UNCHANGED <<file, removable, force, left, calm>>

Record(c) ==
    /\ At(c, "record") /\ Exit(c)
    /\ file' = pid[c]
    /\ UNCHANGED <<removable, proc, calm>>

-----------------------------------------------------------------------------
(* stop *)

Look(c) ==
    /\ At(c, "look")
    /\ \/ (Alive \/ file = Empty) /\ Go(c, "shutdown") /\ UNCHANGED local
       \/ ~Alive /\ file # Empty /\ Exit(c)
    /\ UNCHANGED <<file, removable, proc, calm>>

(* Bootstrap stop talks to whoever listens at the shutdown port, if it can. *)
Shutdown(c) ==
    /\ At(c, "shutdown")
    /\ \/ /\ Go(c, "wait")
          /\ \E p \in Pid : proc[p] = "ready" /\ proc' = [proc EXCEPT ![p] = "ending"]
       \/ Go(c, "signal") /\ UNCHANGED proc
    /\ UNCHANGED <<file, removable, local, calm>>

(* kill -15; another program may end or not. *)
Signal(c) ==
    /\ At(c, "signal") /\ Go(c, "wait")
    /\ \/ /\ Alive /\ proc[file] # "dying"
          /\ \/ /\ proc[file] \in Tomcat
                /\ proc' = [proc EXCEPT ![file] = "ending"]
             \/ /\ proc[file] = "stranger"
                /\ proc' = [proc EXCEPT ![file] = "free"]
       \/ ~(Alive /\ proc[file] \in {"starting", "ready"}) /\ UNCHANGED proc
    /\ UNCHANGED <<file, removable, local, calm>>

(* One round of the wait: a file that is empty or gone counts as a process that
   has ended, but a file that is not there at first is not waited for. *)
Wait_Late(c) ==                                                     \* mutant
    /\ At(c, "wait")
    /\ \/ Alive /\ left[c] >= 0 /\ left' = [left EXCEPT ![c] = left[c] - 1] /\ UNCHANGED pc
       \/ Alive /\ left[c] < 0 /\ Go(c, "force") /\ UNCHANGED left
       \/ ~Alive /\ Go(c, "remove") /\ UNCHANGED left
       \/ file = None /\ left[c] = Sleep /\ Go(c, "force") /\ UNCHANGED left
    /\ UNCHANGED <<file, removable, proc, pid, force, calm>>
Wait_Removes(c) ==                                                  \* mutant
    /\ At(c, "wait")
    /\ \/ Alive /\ left[c] > 0 /\ left' = [left EXCEPT ![c] = left[c] - 1] /\ UNCHANGED pc
       \/ ~(Alive /\ left[c] > 0) /\ Go(c, "remove") /\ UNCHANGED left
    /\ UNCHANGED <<file, removable, proc, pid, force, calm>>
Wait(c) ==
    /\ At(c, "wait")
    /\ \/ Alive /\ left[c] > 0 /\ left' = [left EXCEPT ![c] = left[c] - 1] /\ UNCHANGED pc
       \/ Alive /\ left[c] = 0 /\ Go(c, "force") /\ UNCHANGED left
       \/ ~Alive /\ Go(c, "remove") /\ UNCHANGED left
       \/ file = None /\ left[c] = Sleep /\ Go(c, "force") /\ UNCHANGED left
    /\ UNCHANGED <<file, removable, proc, pid, force, calm>>

(* Without the file there is nothing to kill; an empty one drops -force. *)
Remove(c) ==
    /\ At(c, "remove") /\ Go(c, "force")
    /\ file' = Cleared
    /\ force' = [force EXCEPT ![c] = force[c] /\ Cleared = None]
    /\ UNCHANGED <<removable, proc, pid, left, calm>>

(* PID=`cat $CATALINA_PID`, whatever it holds by now. *)
Reread(c) ==
    /\ At(c, "force")
    /\ \/ /\ force[c] /\ file # None
          /\ Go(c, "kill")
          /\ pid' = [pid EXCEPT ![c] = file]
          /\ UNCHANGED <<force, left>>
       \/ (~force[c] \/ file = None) /\ Exit(c)
    /\ UNCHANGED <<file, removable, proc, calm>>

Kill_Term(c) ==                                                     \* mutant
    /\ At(c, "kill") /\ Go(c, "reap")
    /\ proc' = [p \in Pid |-> IF p = pid[c] /\ proc[p] # "free" THEN "ending" ELSE proc[p]]
    /\ left' = [left EXCEPT ![c] = KillSleep]
    /\ UNCHANGED <<file, removable, pid, force, calm>>
Kill(c) ==
    /\ At(c, "kill") /\ Go(c, "reap")
    /\ proc' = [p \in Pid |-> IF p # pid[c] THEN proc[p]
                              ELSE CASE proc[p] \in Tomcat -> "dying"
                                     [] OTHER -> "free"]
    /\ left' = [left EXCEPT ![c] = KillSleep]
    /\ UNCHANGED <<file, removable, pid, force, calm>>

Reap(c) ==
    /\ At(c, "reap")
    /\ \/ Alive /\ left[c] > 0 /\ left' = [left EXCEPT ![c] = left[c] - 1]
          /\ UNCHANGED <<pc, pid, force>>
       \/ Alive /\ left[c] = 0 /\ Exit(c)
       \/ ~Alive /\ Go(c, "unlink") /\ UNCHANGED local
    /\ UNCHANGED <<file, removable, proc, calm>>

Unlink(c) ==
    /\ At(c, "unlink") /\ Exit(c)
    /\ file' = Cleared
    /\ UNCHANGED <<removable, proc, calm>>

-----------------------------------------------------------------------------
(* Everything else *)

(* Only one tomcat can have the ports; the one that does not get them ends. *)
Ready(p) ==
    /\ proc[p] = "starting"
    /\ proc' = [proc EXCEPT ![p] = IF \E q \in Pid : proc[q] = "ready" THEN "ending" ELSE "ready"]
    /\ UNCHANGED <<file, removable, pc, local, calm>>

(* A tomcat ends of itself, or is lost; another program runs and ends. *)
Ends(p) ==
    /\ proc[p] \in {"starting", "ready", "ending", "stranger"}
    /\ proc' = [proc EXCEPT ![p] = "free"]
    /\ UNCHANGED <<file, removable, pc, local, calm>>

Dies(p) ==
    /\ proc[p] = "dying"
    /\ proc' = [proc EXCEPT ![p] = "free"]
    /\ UNCHANGED <<file, removable, pc, local, calm>>

Reused(p) ==
    /\ proc[p] = "free"
    /\ proc' = [proc EXCEPT ![p] = "stranger"]
    /\ UNCHANGED <<file, removable, pc, local, calm>>

(* The terminal is closed, or the operator has waited long enough. *)
CutShort(c) ==
    /\ ~At(c, "idle") /\ Exit(c)
    /\ calm' = FALSE
    /\ UNCHANGED <<file, removable, proc>>

Start(c) == Check(c) \/ Clear(c) \/ Launch(c) \/ Record(c)
Stop(c) ==
    \/ Look(c) \/ Shutdown(c) \/ Signal(c) \/ Wait(c) \/ Remove(c)
    \/ Reread(c) \/ Kill(c) \/ Reap(c) \/ Unlink(c)

Next ==
    \/ \E c \in Command : Begin(c) \/ Start(c) \/ Stop(c) \/ CutShort(c)
    \/ \E p \in Pid : Ready(p) \/ Ends(p) \/ Dies(p) \/ Reused(p)

(* A stop goes on, and what was killed dies; nothing else must happen. *)
Fairness ==
    /\ \A c \in Command : WF_vars(Stop(c))
    /\ \A p \in Pid : WF_vars(Dies(p))

Spec == Init /\ [][Next]_vars /\ Fairness

-----------------------------------------------------------------------------
(* Properties *)

(* Runs of the script that follow each other never have two tomcats at a
   time, whatever the file has come to hold. *)
OneTomcat ==
    calm => \A p, q \in Pid : proc[p] \in Tomcat /\ proc[q] \in Tomcat => p = q

(* Between such runs the file names the tomcat that is there: the next stop
   finds it and the next start does not put another beside it. *)
NamedWhenUp == calm /\ Idle => \A p \in Pid : proc[p] \in Tomcat => file = p

(* stop -force ends the tomcat that the file names, however deaf it is. *)
ForcedStopEnds ==
    \A c \in Command, p \in Pid :
        At(c, "shutdown") /\ force[c] /\ file = p /\ proc[p] \in Tomcat
            ~> proc[p] \notin Tomcat \/ ~calm

=============================================================================
