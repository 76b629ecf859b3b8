------------------------------- MODULE Deploy -------------------------------
(***************************************************************************)
(* The scripts with which an operator installs and updates the shop        *)
(* (src/scripts): each is a list of Maven goals and service commands that  *)
(* change the databases, the exploded web applications and the state of    *)
(* tomcat, which goes on with what it has loaded.  One script runs at a    *)
(* time; it may stop half way, and the operator may then run any other.    *)
(*                                                                         *)
(* What is checked out is known by its revision only.  Questions to the    *)
(* operator, file permissions, logs and the restart of nginx, memcached    *)
(* and varnish are left out.                                               *)
(***************************************************************************)
EXTENDS Integers, Sequences

CONSTANTS Max,      \* the number of revisions there are
          Servers   \* the MySQL servers: subsets of ServerFeatures

ServerFeatures == {"nomysql",  \* it was there before setup.sh, which lists its databases
                   "tail"}     \* its last database is none of the shop's

ASSUME DeployAssumption == Max \in Nat \ {0} /\ Servers \subseteq SUBSET ServerFeatures

App == {"preview", "shop"}
Db == App \cup {"backup"}
Revision == 1 .. Max
Absent == 0
Broken == Max + 1       \* what a goal that failed leaves: nobody knows what
Content == 0 .. Max + 1

VARIABLES
    server,  \* the MySQL server
    dirs,    \* the revisions checked out under /avetti/svn
    db,      \* the revision of each database's schema
    data,    \* the databases that hold data of the shop
    app,     \* the revision of each exploded web application
    libs,    \* the applications that have the LGPL libraries
    up,      \* tomcat is up
    loaded,  \* what it runs of each application
    fresh,   \* it was started after the last script that leaves this to others
    script,  \* the script that runs
    code,    \* the revision it installs
    listed,  \* the databases it found at its start
    step,    \* its next step
    again,   \* that step is being tried a second time
    missed,  \* its steps that went wrong and that it went on from
    sound    \* the last update is complete and nothing has gone wrong since

installed == <<dirs, db, data, app, libs>>
tomcat == <<up, loaded, fresh>>
vars == <<server, installed, tomcat, script, code, listed, step, again, missed, sound>>

-----------------------------------------------------------------------------
(* The scripts *)

Goal(do, on) == [do |-> do, on |-> on]
Migrate(how) == <<Goal(how, "preview"), Goal(how, "shop"), Goal(how, "backup")>>
Wars == <<Goal("war", "preview"), Goal("war", "shop")>>
Libs == <<Goal("libs", "preview"), Goal("libs", "shop")>>
Do(do) == <<Goal(do, "tomcat")>>

UpdateCodeAndRestart_StopLate ==                                    \* mutant
    Do("setup") \o Migrate("update") \o Do("stop") \o Wars \o Libs \o Do("start")
UpdateCodeAndRestart ==
    Do("setup") \o Do("stop") \o Migrate("update") \o Wars \o Libs \o Do("start")

UpdateToLatestTag_WarsFirst ==                                      \* mutant
    Do("checkout") \o Do("setup") \o Do("stop") \o Wars \o Migrate("update") \o Libs \o Do("start")
UpdateToLatestTag_NoStop ==                                         \* mutant
    Do("checkout") \o Do("setup") \o Migrate("update") \o Wars \o Libs \o Do("start")
(* As root; as avetti it runs setup a second time after the first. *)
UpdateToLatestTag ==
    Do("checkout") \o Do("setup") \o Migrate("update") \o Do("stop") \o Wars \o Libs \o Do("start")

UpdateCodeFromSvn == Do("setup") \o Migrate("update") \o Wars \o Libs
Recompile == Migrate("update") \o Wars \o Libs

(* The goal that would update the shop's database is never run: the script
   tests the exit status of an if. *)
RecompileShop == <<Goal("update", "backup"), Goal("war", "shop"), Goal("libs", "shop")>>
SetupDatabases == Migrate("create")
RestartTomcat == Do("stop") \o Do("unlock") \o Do("start")

(* compileCommerce: a database that was found is updated, another created. *)
Install == Do("checkout") \o Do("setup") \o Migrate("install") \o Wars \o Libs

Scripts == [update |-> UpdateCodeAndRestart, tag |-> UpdateToLatestTag,
            svn |-> UpdateCodeFromSvn, recompile |-> Recompile,
            shop |-> RecompileShop, databases |-> SetupDatabases,
            restart |-> RestartTomcat, install |-> Install]
Maven == {"setup", "update", "create", "install", "war", "libs"}
Whole == {"update", "tag", "svn", "recompile", "install"}  \* they renew everything
Partial == {"shop", "databases"}
Restarting == {"update", "tag", "restart"}

-----------------------------------------------------------------------------
DpTypeOK ==
    /\ server \in Servers
    /\ dirs \subseteq Revision
    /\ db \in [Db -> Content]
    /\ data \subseteq Db
    /\ app \in [App -> Content]
    /\ libs \subseteq App
    /\ up \in BOOLEAN
    /\ loaded \in [App -> Content]
    /\ fresh \in BOOLEAN
    /\ script \in DOMAIN Scripts \cup {"none"}
    /\ code \in Revision
    /\ listed \subseteq Db
    /\ step \in Nat
    /\ script # "none" => step \in 1 .. Len(Scripts[script]) + 1
    /\ again \in BOOLEAN
    /\ missed \subseteq [do : Maven \cup {"stop"}, on : Db \cup {"tomcat"}]
    /\ sound \in BOOLEAN

(* A machine with an empty server, or one whose revision 1 is up. *)
Init ==
    /\ server \in Servers
    /\ \/ /\ dirs = {} /\ data = {} /\ libs = {} /\ up = FALSE
          /\ db = [d \in Db |-> Absent]
          /\ app = [a \in App |-> Absent]
       \/ /\ dirs = {1} /\ data = Db /\ libs = App /\ up = TRUE
          /\ db = [d \in Db |-> 1]
          /\ app = [a \in App |-> 1]
    /\ loaded = app
    /\ fresh = up
    /\ script = "none"
    /\ code = 1
    /\ listed = {}
    /\ step = 1
    /\ again = FALSE
    /\ missed = {}
    /\ sound = up

-----------------------------------------------------------------------------
(* tomcat *)

(* What it gets of an application; without its libraries none that works. *)
Loads(a) == IF a \in libs THEN app[a] ELSE Broken

(* jsvc does not start a second one. *)
Starts ==
    /\ up' = TRUE
    /\ IF up THEN UNCHANGED <<loaded, fresh>>
             ELSE loaded' = [a \in App |-> Loads(a)] /\ fresh' = TRUE

Stops ==
    /\ up' = FALSE
    /\ loaded' = [a \in App |-> Absent]
    /\ UNCHANGED fresh

(* autoDeploy: it loads again an application whose web.xml has changed, which
   is all of it that tomcat watches and which an update need not touch. *)
Reload ==
    /\ up
    /\ \E a \in App : loaded' = [loaded EXCEPT ![a] = Loads(a)]
    /\ UNCHANGED <<server, installed, up, fresh, script, code, listed, step, again, missed, sound>>

-----------------------------------------------------------------------------
(* Between scripts *)

(* The databases that setup.sh finds in $allDb, the names that show databases
   returns, in order and with a blank after each but the last; without nomysql
   it does not ask.  After backup there is always mysql. *)
Found_Never == {}                                                   \* mutant
Found ==
    LET there(d) == db[d] # Absent
        follows(d) == CASE d = "backup" -> TRUE
                        [] d = "preview" -> there("shop") \/ "tail" \in server
                        [] d = "shop" -> "tail" \in server
    IN  {d \in Db : "nomysql" \in server /\ there(d) /\ follows(d)}

(* The code to use must be checked out; the two scripts that check it out look
   for it first, and the first of them only goes on when it is not there. *)
MayBegin(s, r) ==
    \/ s = "install"
    \/ s = "tag" /\ r \notin dirs
    \/ s \notin {"tag", "install"} /\ r \in dirs

Begin(s) ==
    /\ script = "none"
    /\ \E r \in Revision : MayBegin(s, r) /\ code' = r
    /\ script' = s
    /\ listed' = IF s = "install" THEN Found ELSE {}
    /\ sound' = (sound /\ s \notin Partial)
    /\ fresh' = (fresh /\ s \in Restarting)
    /\ UNCHANGED <<server, installed, up, loaded, step, again, missed>>

(* tomcat.sh *)
Operate ==
    /\ script = "none"
    /\ IF up THEN Stops ELSE Starts
    /\ UNCHANGED <<server, installed, script, code, listed, step, again, missed, sound>>

(* The shop is used, and its databases hold what must not be lost. *)
Use ==
    /\ up
    /\ data' = data \cup {d \in Db : db[d] \in Revision}
    /\ UNCHANGED <<server, dirs, db, app, libs, tomcat, script, code, listed, step, again, missed, sound>>

-----------------------------------------------------------------------------
(* One step of a script *)

Busy == script # "none" /\ step <= Len(Scripts[script])
Current == Scripts[script][step]

(* What dbmigrator does to a database: the profile setup-db makes it anew. *)
Creates(g) == g.do = "create" \/ (g.do = "install" /\ g.on \notin listed)
Migrates(g) == g.do \in {"update", "create", "install"}

(* What a goal leaves when it succeeds and when it fails. *)
Becomes(g, r) ==
    /\ db' = IF Migrates(g) THEN [db EXCEPT ![g.on] = r] ELSE db
    /\ data' = IF Creates(g) THEN data \ {g.on} ELSE data
    /\ app' = IF g.do = "war" THEN [app EXCEPT ![g.on] = r] ELSE app
    /\ libs' = CASE g.do = "war" -> libs \ {g.on}
                 [] g.do = "libs" /\ r = code -> libs \cup {g.on}
                 [] OTHER -> libs
    /\ UNCHANGED dirs

Continue == step' = step + 1 /\ again' = FALSE /\ UNCHANGED <<script, code, listed>>
Leave ==
    /\ script' = "none" /\ code' = 1 /\ listed' = {}
    /\ step' = 1 /\ again' = FALSE /\ missed' = {}

(* Maven ends with 0, which takes the code it was to work on. *)
GoalSucceeds ==
    /\ Busy /\ Current.do \in Maven
    /\ code \in dirs
    /\ Becomes(Current, code)
    /\ Continue
    /\ UNCHANGED <<server, tomcat, missed, sound>>

Fails ==
    /\ Busy /\ Current.do \in Maven
    /\ Becomes(Current, Broken)
    /\ UNCHANGED <<server, tomcat>>

(* It ends with 2: the same goal is run once more. *)
GoalRetried ==
    /\ Fails /\ ~again
    /\ code \in dirs
    /\ again' = TRUE
    /\ UNCHANGED <<script, code, listed, step, missed, sound>>

(* It fails again, with any status, and the script goes on. *)
GoalMissed ==
    /\ Fails /\ again
    /\ missed' = missed \cup {Current}
    /\ sound' = FALSE
    /\ Continue

(* It ends with another status: the script ends there. *)
GoalAborts ==
    /\ Fails /\ ~again
    /\ sound' = FALSE
    /\ Leave

Checkout_Next ==                                                    \* mutant
    /\ Busy /\ Current.do = "checkout"
    /\ dirs' \in {dirs, dirs \cup {code + 1}}
    /\ Continue
    /\ UNCHANGED <<server, db, data, app, libs, tomcat, missed, sound>>

(* The result of svn is not looked at. *)
Checkout ==
    /\ Busy /\ Current.do = "checkout"
    /\ dirs' \in {dirs, dirs \cup {code}}
    /\ Continue
    /\ UNCHANGED <<server, db, data, app, libs, tomcat, missed, sound>>

(* service tomcat stop and start, and the removal of Solr's lock files. *)
Service ==
    /\ Busy
    /\ \/ Current.do = "stop" /\ Stops
       \/ Current.do = "start" /\ Starts
       \/ Current.do = "unlock" /\ UNCHANGED tomcat
    /\ Continue
    /\ UNCHANGED <<server, installed, missed, sound>>

(* Neither is the result of service: jsvc gives up after its wait. *)
StopFails ==
    /\ Busy /\ Current.do = "stop" /\ up
    /\ missed' = missed \cup {Current}
    /\ sound' = FALSE
    /\ Continue
    /\ UNCHANGED <<server, installed, tomcat>>

Finish ==
    /\ script # "none" /\ ~Busy
    /\ sound' = (IF script \in Whole THEN missed = {} ELSE sound)
    /\ Leave
    /\ UNCHANGED <<server, installed, tomcat>>

Next ==
    \/ \E s \in DOMAIN Scripts : Begin(s)
    \/ Operate \/ Use \/ Reload
    \/ GoalSucceeds \/ GoalRetried \/ GoalMissed \/ GoalAborts
    \/ Checkout \/ Service \/ StopFails \/ Finish

Spec == Init /\ [][Next]_vars

-----------------------------------------------------------------------------
(* Properties *)

(* An application of a revision is put in place only when its database has
   that revision, unless the migration has failed twice in this very run;
   recompileshop.sh, which does not migrate the shop, is left out. *)
MigratedFirst ==
    [][\A a \in App : app'[a] = code /\ app'[a] # app[a] /\ script # "shop" =>
          \/ db[a] = code
          \/ \E g \in missed : Migrates(g) /\ g.on = a]_vars

(* The scripts that restart tomcat change its applications only while it is
   down, unless it could not be stopped.
   (updatecodeandrestart.sh, updatetolatestcommunitytag.sh) *)
DeployedWhileDown ==
    [][app' # app \/ libs' # libs =>
          ~up \/ script \notin {"update", "tag"} \/ Do("stop")[1] \in missed]_vars

(* After a complete update, once tomcat has been started if the script did not
   do that, and as long as only updatecodeandrestart.sh and restarttomcat.sh are
   run without an error: whatever tomcat runs has its libraries and fits all
   three databases, which both applications use. *)
ServedFits ==
    up /\ sound /\ fresh /\ script \in {"none", "update", "restart"} =>
        \A a \in App : loaded[a] \in Revision /\ \A d \in Db : db[d] = loaded[a]

(* setup.sh updates the databases that exist instead of overwriting them. *)
ExistingKept == [][script = "install" => data \subseteq data']_vars

(* What setup.sh does overwrite: databases of a server that it does not ask, and
   preview or shop when nothing but the shop's databases can follow them in
   the list.  It never overwrites backup on a server that it asks. *)
Overwritable(d) ==
    \/ "nomysql" \notin server
    \/ d \in App /\ "tail" \notin server
LostOnlyUnlisted ==
    [][script = "install" => \A d \in data \ data' : Overwritable(d)]_vars

=============================================================================
