---------------------------- MODULE DeployProofs ----------------------------
(***************************************************************************)
(* Proofs about Deploy, for any number of revisions and any MySQL servers. *)
(* What the scripts do is computed here once, goal by goal; the proofs     *)
(* then use only the order of a script's goals.                            *)
(***************************************************************************)
EXTENDS Deploy, TLAPS

(* The scripts, step by step. *)

LEMMA UpdateCodeAndRestartSteps ==
  /\ Len(Scripts["update"]) = 10
  /\ Scripts["update"][1] = Goal("setup", "tomcat")
  /\ Scripts["update"][2] = Goal("stop", "tomcat")
  /\ Scripts["update"][3] = Goal("update", "preview")
  /\ Scripts["update"][4] = Goal("update", "shop")
  /\ Scripts["update"][5] = Goal("update", "backup")
  /\ Scripts["update"][6] = Goal("war", "preview")
  /\ Scripts["update"][7] = Goal("war", "shop")
  /\ Scripts["update"][8] = Goal("libs", "preview")
  /\ Scripts["update"][9] = Goal("libs", "shop")
  /\ Scripts["update"][10] = Goal("start", "tomcat")
BY DEF Scripts, UpdateCodeAndRestart, Do, Migrate, Wars, Libs

LEMMA UpdateToLatestTagSteps ==
  /\ Len(Scripts["tag"]) = 11
  /\ Scripts["tag"][1] = Goal("checkout", "tomcat")
  /\ Scripts["tag"][2] = Goal("setup", "tomcat")
  /\ Scripts["tag"][3] = Goal("update", "preview")
  /\ Scripts["tag"][4] = Goal("update", "shop")
  /\ Scripts["tag"][5] = Goal("update", "backup")
  /\ Scripts["tag"][6] = Goal("stop", "tomcat")
  /\ Scripts["tag"][7] = Goal("war", "preview")
  /\ Scripts["tag"][8] = Goal("war", "shop")
  /\ Scripts["tag"][9] = Goal("libs", "preview")
  /\ Scripts["tag"][10] = Goal("libs", "shop")
  /\ Scripts["tag"][11] = Goal("start", "tomcat")
BY DEF Scripts, UpdateToLatestTag, Do, Migrate, Wars, Libs

LEMMA UpdateCodeFromSvnSteps ==
  /\ Len(Scripts["svn"]) = 8
  /\ Scripts["svn"][1] = Goal("setup", "tomcat")
  /\ Scripts["svn"][2] = Goal("update", "preview")
  /\ Scripts["svn"][3] = Goal("update", "shop")
  /\ Scripts["svn"][4] = Goal("update", "backup")
  /\ Scripts["svn"][5] = Goal("war", "preview")
  /\ Scripts["svn"][6] = Goal("war", "shop")
  /\ Scripts["svn"][7] = Goal("libs", "preview")
  /\ Scripts["svn"][8] = Goal("libs", "shop")
BY DEF Scripts, UpdateCodeFromSvn, Do, Migrate, Wars, Libs

LEMMA RecompileSteps ==
  /\ Len(Scripts["recompile"]) = 7
  /\ Scripts["recompile"][1] = Goal("update", "preview")
  /\ Scripts["recompile"][2] = Goal("update", "shop")
  /\ Scripts["recompile"][3] = Goal("update", "backup")
  /\ Scripts["recompile"][4] = Goal("war", "preview")
  /\ Scripts["recompile"][5] = Goal("war", "shop")
  /\ Scripts["recompile"][6] = Goal("libs", "preview")
  /\ Scripts["recompile"][7] = Goal("libs", "shop")
BY DEF Scripts, Recompile, Do, Migrate, Wars, Libs

LEMMA RecompileShopSteps ==
  /\ Len(Scripts["shop"]) = 3
  /\ Scripts["shop"][1] = Goal("update", "backup")
  /\ Scripts["shop"][2] = Goal("war", "shop")
  /\ Scripts["shop"][3] = Goal("libs", "shop")
BY DEF Scripts, RecompileShop, Do, Migrate, Wars, Libs

LEMMA SetupDatabasesSteps ==
  /\ Len(Scripts["databases"]) = 3
  /\ Scripts["databases"][1] = Goal("create", "preview")
  /\ Scripts["databases"][2] = Goal("create", "shop")
  /\ Scripts["databases"][3] = Goal("create", "backup")
BY DEF Scripts, SetupDatabases, Do, Migrate, Wars, Libs

LEMMA RestartTomcatSteps ==
  /\ Len(Scripts["restart"]) = 3
  /\ Scripts["restart"][1] = Goal("stop", "tomcat")
  /\ Scripts["restart"][2] = Goal("unlock", "tomcat")
  /\ Scripts["restart"][3] = Goal("start", "tomcat")
BY DEF Scripts, RestartTomcat, Do, Migrate, Wars, Libs

LEMMA InstallSteps ==
  /\ Len(Scripts["install"]) = 9
  /\ Scripts["install"][1] = Goal("checkout", "tomcat")
  /\ Scripts["install"][2] = Goal("setup", "tomcat")
  /\ Scripts["install"][3] = Goal("install", "preview")
  /\ Scripts["install"][4] = Goal("install", "shop")
  /\ Scripts["install"][5] = Goal("install", "backup")
  /\ Scripts["install"][6] = Goal("war", "preview")
  /\ Scripts["install"][7] = Goal("war", "shop")
  /\ Scripts["install"][8] = Goal("libs", "preview")
  /\ Scripts["install"][9] = Goal("libs", "shop")
BY DEF Scripts, Install, Do, Migrate, Wars, Libs

LEMMA ScriptNames ==
  DOMAIN Scripts = {"update", "tag", "svn", "recompile", "shop", "databases",
                    "restart", "install"}
BY DEF Scripts

Goals == [do : Maven \cup {"checkout", "stop", "unlock", "start"}, on : Db \cup {"tomcat"}]

WellTyped(g) ==
    /\ g \in Goals
    /\ Migrates(g) => g.on \in Db
    /\ g.do \in {"war", "libs"} => g.on \in App
    /\ g.do = "stop" => g = Goal("stop", "tomcat")

LEMMA GoalsTyped ==
  ASSUME NEW s \in DOMAIN Scripts
  PROVE  /\ Len(Scripts[s]) \in Nat
         /\ \A i \in 1 .. Len(Scripts[s]) : WellTyped(Scripts[s][i])
<1> USE DEF Goal, Migrates, Db, App, Maven, Goals, WellTyped
<1>1. CASE s = "update"
  BY <1>1, UpdateCodeAndRestartSteps
<1>2. CASE s = "tag"
  BY <1>2, UpdateToLatestTagSteps, SMTT(60)
<1>3. CASE s = "svn"
  BY <1>3, UpdateCodeFromSvnSteps
<1>4. CASE s = "recompile"
  BY <1>4, RecompileSteps, SMTT(60)
<1>5. CASE s = "shop"
  BY <1>5, RecompileShopSteps
<1>6. CASE s = "databases"
  BY <1>6, SetupDatabasesSteps
<1>7. CASE s = "restart"
  BY <1>7, RestartTomcatSteps
<1>8. CASE s = "install"
  BY <1>8, InstallSteps
<1> QED
  BY <1>1, <1>2, <1>3, <1>4, <1>5, <1>6, <1>7, <1>8, ScriptNames

(* No database is migrated twice and no application unpacked twice in a
   script, and none is unpacked after it got its libraries. *)
Ordered(R) ==
    /\ \A i, j \in 1 .. Len(R) :
         /\ R[i].on = R[j].on
         /\ \/ Migrates(R[i]) /\ Migrates(R[j])
            \/ R[i].do = "war" /\ R[j].do = "war"
         => i = j
    /\ \A i, j \in 1 .. Len(R) :
         R[i].do = "libs" /\ R[j].do = "war" /\ R[i].on = R[j].on => j < i

LEMMA ScriptsOrdered ==
  ASSUME NEW s \in DOMAIN Scripts
  PROVE  Ordered(Scripts[s])
<1> USE DEF Goal, Migrates, Ordered
<1>1. CASE s = "update"
  <2>1. ASSUME NEW i \in 1 .. Len(Scripts[s]), NEW j \in 1 .. Len(Scripts[s]),
               Scripts[s][i].on = Scripts[s][j].on,
               Migrates(Scripts[s][i]) /\ Migrates(Scripts[s][j])
        PROVE  i = j
    BY <1>1, <2>1, UpdateCodeAndRestartSteps
  <2>2. ASSUME NEW i \in 1 .. Len(Scripts[s]), NEW j \in 1 .. Len(Scripts[s]),
               Scripts[s][i].on = Scripts[s][j].on,
               Scripts[s][i].do = "war", Scripts[s][j].do = "war"
        PROVE  i = j
    BY <1>1, <2>2, UpdateCodeAndRestartSteps
  <2>3. ASSUME NEW i \in 1 .. Len(Scripts[s]), NEW j \in 1 .. Len(Scripts[s]),
               Scripts[s][i].on = Scripts[s][j].on,
               Scripts[s][i].do = "libs", Scripts[s][j].do = "war"
        PROVE  j < i
    BY <1>1, <2>3, UpdateCodeAndRestartSteps
  <2> QED
    BY <2>1, <2>2, <2>3
<1>2. CASE s = "tag"
  <2>1. ASSUME NEW i \in 1 .. Len(Scripts[s]), NEW j \in 1 .. Len(Scripts[s]),
               Scripts[s][i].on = Scripts[s][j].on,
               Migrates(Scripts[s][i]) /\ Migrates(Scripts[s][j])
        PROVE  i = j
    BY <1>2, <2>1, UpdateToLatestTagSteps
  <2>2. ASSUME NEW i \in 1 .. Len(Scripts[s]), NEW j \in 1 .. Len(Scripts[s]),
               Scripts[s][i].on = Scripts[s][j].on,
               Scripts[s][i].do = "war", Scripts[s][j].do = "war"
        PROVE  i = j
    BY <1>2, <2>2, UpdateToLatestTagSteps
  <2>3. ASSUME NEW i \in 1 .. Len(Scripts[s]), NEW j \in 1 .. Len(Scripts[s]),
               Scripts[s][i].on = Scripts[s][j].on,
               Scripts[s][i].do = "libs", Scripts[s][j].do = "war"
        PROVE  j < i
    BY <1>2, <2>3, UpdateToLatestTagSteps
  <2> QED
    BY <2>1, <2>2, <2>3
<1>3. CASE s = "svn"
  <2>1. ASSUME NEW i \in 1 .. Len(Scripts[s]), NEW j \in 1 .. Len(Scripts[s]),
               Scripts[s][i].on = Scripts[s][j].on,
               Migrates(Scripts[s][i]) /\ Migrates(Scripts[s][j])
        PROVE  i = j
    BY <1>3, <2>1, UpdateCodeFromSvnSteps
  <2>2. ASSUME NEW i \in 1 .. Len(Scripts[s]), NEW j \in 1 .. Len(Scripts[s]),
               Scripts[s][i].on = Scripts[s][j].on,
               Scripts[s][i].do = "war", Scripts[s][j].do = "war"
        PROVE  i = j
    BY <1>3, <2>2, UpdateCodeFromSvnSteps
  <2>3. ASSUME NEW i \in 1 .. Len(Scripts[s]), NEW j \in 1 .. Len(Scripts[s]),
               Scripts[s][i].on = Scripts[s][j].on,
               Scripts[s][i].do = "libs", Scripts[s][j].do = "war"
        PROVE  j < i
    BY <1>3, <2>3, UpdateCodeFromSvnSteps
  <2> QED
    BY <2>1, <2>2, <2>3
<1>4. CASE s = "recompile"
  BY <1>4, RecompileSteps, SMTT(60)
<1>5. CASE s = "shop"
  BY <1>5, RecompileShopSteps
<1>6. CASE s = "databases"
  BY <1>6, SetupDatabasesSteps
<1>7. CASE s = "restart"
  BY <1>7, RestartTomcatSteps
<1>8. CASE s = "install"
  <2>1. ASSUME NEW i \in 1 .. Len(Scripts[s]), NEW j \in 1 .. Len(Scripts[s]),
               Scripts[s][i].on = Scripts[s][j].on,
               Migrates(Scripts[s][i]) /\ Migrates(Scripts[s][j])
        PROVE  i = j
    BY <1>8, <2>1, InstallSteps
  <2>2. ASSUME NEW i \in 1 .. Len(Scripts[s]), NEW j \in 1 .. Len(Scripts[s]),
               Scripts[s][i].on = Scripts[s][j].on,
               Scripts[s][i].do = "war", Scripts[s][j].do = "war"
        PROVE  i = j
    BY <1>8, <2>2, InstallSteps
  <2>3. ASSUME NEW i \in 1 .. Len(Scripts[s]), NEW j \in 1 .. Len(Scripts[s]),
               Scripts[s][i].on = Scripts[s][j].on,
               Scripts[s][i].do = "libs", Scripts[s][j].do = "war"
        PROVE  j < i
    BY <1>8, <2>3, InstallSteps
  <2> QED
    BY <2>1, <2>2, <2>3
<1> QED
  BY <1>1, <1>2, <1>3, <1>4, <1>5, <1>6, <1>7, <1>8, ScriptNames

(* An application is unpacked after its database was migrated, but for the one
   that recompileshop.sh unpacks. *)
LEMMA MigrationFirst ==
  ASSUME NEW s \in DOMAIN Scripts, s # "shop",
         NEW j \in 1 .. Len(Scripts[s]), Scripts[s][j].do = "war"
  PROVE  \E i \in 1 .. j - 1 : /\ Migrates(Scripts[s][i])
                              /\ Scripts[s][i].on = Scripts[s][j].on
<1> USE DEF Goal, Migrates
<1>1. CASE s = "update"
  BY <1>1, UpdateCodeAndRestartSteps
<1>2. CASE s = "tag"
  BY <1>2, UpdateToLatestTagSteps, SMTT(60)
<1>3. CASE s = "svn"
  BY <1>3, UpdateCodeFromSvnSteps
<1>4. CASE s = "recompile"
  BY <1>4, RecompileSteps, SMTT(60)
<1>5. CASE s = "shop"
  BY <1>5
<1>6. CASE s = "databases"
  BY <1>6, SetupDatabasesSteps
<1>7. CASE s = "restart"
  BY <1>7, RestartTomcatSteps
<1>8. CASE s = "install"
  BY <1>8, InstallSteps
<1> QED
  BY <1>1, <1>2, <1>3, <1>4, <1>5, <1>6, <1>7, <1>8, ScriptNames

(* A script that renews everything renews each of these. *)
LEMMA WholeScripts ==
  ASSUME NEW s \in Whole
  PROVE  LET R == Scripts[s]
         IN  /\ \A d \in Db : \E i \in 1 .. Len(R) : Migrates(R[i]) /\ R[i].on = d
             /\ \A a \in App : \E i \in 1 .. Len(R) : R[i].do = "war" /\ R[i].on = a
             /\ \A a \in App : \E i \in 1 .. Len(R) : R[i].do = "libs" /\ R[i].on = a
<1> USE DEF Goal, Migrates, App, Db
<1>1. CASE s = "update"
  BY <1>1, UpdateCodeAndRestartSteps
<1>2. CASE s = "tag"
  BY <1>2, UpdateToLatestTagSteps, SMTT(60)
<1>3. CASE s = "svn"
  BY <1>3, UpdateCodeFromSvnSteps
<1>4. CASE s = "recompile"
  BY <1>4, RecompileSteps, SMTT(60)
<1>8. CASE s = "install"
  BY <1>8, InstallSteps
<1> QED
  BY <1>1, <1>2, <1>3, <1>4, <1>8 DEF Whole

(* The scripts that restart tomcat stop it before they touch an application
   and start it last. *)
LEMMA StopFirst ==
  ASSUME NEW s \in {"update", "tag"}, NEW j \in 1 .. Len(Scripts[s])
  PROVE  LET R == Scripts[s]
         IN  /\ R[j].do \in {"war", "libs", "start"} => \E i \in 1 .. j - 1 : R[i].do = "stop"
             /\ R[j].do = "start" <=> j = Len(R)
<1> USE DEF Goal
<1>1. CASE s = "update"
  BY <1>1, UpdateCodeAndRestartSteps
<1>2. CASE s = "tag"
  BY <1>2, UpdateToLatestTagSteps, SMTT(60)
<1> QED
  BY <1>1, <1>2

(* The others but restarttomcat.sh leave tomcat alone. *)
LEMMA NoService ==
  ASSUME NEW s \in {"svn", "recompile", "install", "shop", "databases"},
         NEW j \in 1 .. Len(Scripts[s])
  PROVE  Scripts[s][j].do \notin {"stop", "unlock", "start"}
<1> USE DEF Goal
<1>1. CASE s = "svn"
  BY <1>1, UpdateCodeFromSvnSteps
<1>2. CASE s = "recompile"
  BY <1>2, RecompileSteps
<1>3. CASE s = "install"
  BY <1>3, InstallSteps
<1>4. CASE s = "shop"
  BY <1>4, RecompileShopSteps
<1>5. CASE s = "databases"
  BY <1>5, SetupDatabasesSteps
<1> QED
  BY <1>1, <1>2, <1>3, <1>4, <1>5

-----------------------------------------------------------------------------
(* The invariant *)

(* Between two scripts nothing is left of the last one. *)
Quiet == script = "none" => step = 1 /\ ~again /\ missed = {} /\ listed = {}

(* What a goal that succeeded has achieved. *)
Effect(g) ==
    /\ Migrates(g) => db[g.on] = code
    /\ g.do = "war" => app[g.on] = code
    /\ g.do = "libs" => g.on \in libs

(* The steps a script has taken are in effect, but for those it missed: no
   later step of the same script undoes one. *)
Carried ==
    script # "none" =>
        \A i \in 1 .. step - 1 : Scripts[script][i] \in missed \/ Effect(Scripts[script][i])

(* What a script has done to tomcat. *)
Past(do) == \E i \in 1 .. step - 1 : Scripts[script][i].do = do

(* Between its stop and its start a script finds tomcat down, unless the stop
   failed: nobody else starts it meanwhile. *)
Stopped ==
    script # "none" /\ Past("stop") /\ ~Past("start") =>
        ~up \/ Goal("stop", "tomcat") \in missed

SoundMissed == sound => missed = {}

Fits == \A a \in App : app[a] \in Revision /\ a \in libs /\ \A d \in Db : db[d] = app[a]

(* updatecodeandrestart.sh begins with a shop that fits and has changed
   nothing before it stops tomcat. *)
SoundFits ==
    sound => /\ script \notin Partial
             /\ script \in {"none", "restart"} => Fits
             /\ script = "update" /\ ~Past("stop") => Fits

(* A tomcat that is fresh runs what is in the applications, whose scripts have
   left it alone: updates that restart it change them while it is down. *)
FreshScripts == ~(fresh /\ script \in {"svn", "recompile", "install", "shop", "databases"})
Complete == script \in {"update", "tag"} /\ missed = {} /\ Past("start")
LoadedNow == up /\ fresh /\ (sound \/ Complete) => \A a \in App : loaded[a] = Loads(a)

DeployInv ==
    Quiet /\ Carried /\ Stopped /\ SoundMissed /\ SoundFits /\ FreshScripts /\ LoadedNow

(* Data is in databases that exist; those that setup.sh is still to create and
   would have found are absent, or broken by a first try. *)
DataThere == \A d \in data : db[d] # Absent
Spared ==
    script = "install" =>
        \A i \in step .. Len(Scripts[script]) :
            LET g == Scripts[script][i]
            IN  Creates(g) /\ ~Overwritable(g.on) => g.on \notin data /\ db[g.on] \in {Absent, Broken}
KeptInv == DataThere /\ Spared

-----------------------------------------------------------------------------
(* Types *)

LEMMA CurrentGoal ==
  ASSUME DpTypeOK, Busy
  PROVE  /\ script \in DOMAIN Scripts
         /\ Len(Scripts[script]) \in Nat
         /\ step \in 1 .. Len(Scripts[script])
         /\ Current = Scripts[script][step]
         /\ WellTyped(Current)
<1>1. script \in DOMAIN Scripts
  BY DEF DpTypeOK, Busy
<1> QED
  BY <1>1, GoalsTyped DEF DpTypeOK, Busy, Current

LEMMA FoundTyped == Found \subseteq Db
BY DEF Found

LEMMA BecomesTyped ==
  ASSUME DpTypeOK, NEW g, WellTyped(g), NEW r \in Content, Becomes(g, r)
  PROVE  /\ dirs' \subseteq Revision
         /\ db' \in [Db -> Content]
         /\ data' \subseteq Db
         /\ app' \in [App -> Content]
         /\ libs' \subseteq App
<1> USE DEF DpTypeOK, Becomes, WellTyped
<1>1. dirs' \subseteq Revision
  OBVIOUS
<1>2. db' \in [Db -> Content]
  OBVIOUS
<1>3. data' \subseteq Db
  OBVIOUS
<1>4. app' \in [App -> Content]
  OBVIOUS
<1>5. libs' \subseteq App
  OBVIOUS
<1> QED
  BY <1>1, <1>2, <1>3, <1>4, <1>5

LEMMA Contents ==
  /\ Revision \subseteq Content
  /\ Broken \in Content /\ Absent \in Content
  /\ Broken \notin Revision /\ Absent \notin Revision /\ Broken # Absent
  /\ 1 \in Revision
BY DeployAssumption DEF Revision, Content, Broken, Absent

(* The control variables once a step is done, and once the script is left. *)
LEMMA ContinueTyped ==
  ASSUME DpTypeOK, Busy, Continue
  PROVE  /\ script' \in DOMAIN Scripts \cup {"none"} /\ code' \in Revision
         /\ listed' \subseteq Db /\ step' \in Nat /\ again' \in BOOLEAN
         /\ script' # "none" => step' \in 1 .. Len(Scripts[script']) + 1
<1>1. step + 1 \in 1 .. Len(Scripts[script]) + 1
  BY CurrentGoal
<1>2. step' = step + 1 /\ script' = script /\ step + 1 \in Nat
  BY DEF DpTypeOK, Continue
<1>3. step' \in 1 .. Len(Scripts[script']) + 1
  BY <1>1, <1>2
<1> QED
  BY <1>2, <1>3 DEF DpTypeOK, Continue

LEMMA LeaveTyped ==
  ASSUME Leave
  PROVE  /\ script' \in DOMAIN Scripts \cup {"none"} /\ code' \in Revision
         /\ listed' \subseteq Db /\ step' \in Nat /\ again' \in BOOLEAN
         /\ script' # "none" => step' \in 1 .. Len(Scripts[script']) + 1
         /\ missed' \subseteq [do : Maven \cup {"stop"}, on : Db \cup {"tomcat"}]
BY Contents DEF Leave

LEMMA MissedTyped ==
  ASSUME DpTypeOK, Busy, Current.do \in Maven \cup {"stop"}, missed' = missed \cup {Current}
  PROVE  missed' \subseteq [do : Maven \cup {"stop"}, on : Db \cup {"tomcat"}]
<1>1. Current \in [do : Maven \cup {"stop"}, on : Db \cup {"tomcat"}]
  BY CurrentGoal DEF WellTyped, Goals
<1> QED
  BY <1>1 DEF DpTypeOK

LEMMA TomcatTyped ==
  ASSUME DpTypeOK, Starts \/ Stops \/ UNCHANGED tomcat
  PROVE  up' \in BOOLEAN /\ loaded' \in [App -> Content] /\ fresh' \in BOOLEAN
<1>1. \A a \in App : Loads(a) \in Content
  BY Contents DEF Loads, DpTypeOK
<1>2. CASE Starts
  BY <1>1, <1>2 DEF Starts, DpTypeOK
<1>3. CASE Stops
  BY <1>3, Contents DEF Stops, DpTypeOK
<1> QED
  BY <1>2, <1>3 DEF tomcat, DpTypeOK

LEMMA ReloadTyped ==
  ASSUME DpTypeOK, Reload
  PROVE  loaded' \in [App -> Content]
<1>1. \A a \in App : Loads(a) \in Content
  BY Contents DEF Loads, DpTypeOK
<1> QED
  BY <1>1 DEF Reload, DpTypeOK

LEMMA DpTypeKept ==
  ASSUME DpTypeOK, Quiet, [Next]_vars
  PROVE  DpTypeOK'
<1>1. ASSUME NEW s \in DOMAIN Scripts, Begin(s) PROVE DpTypeOK'
  <2>1. Len(Scripts[s]) \in Nat
    BY GoalsTyped
  <2>2. listed' \subseteq Db
    BY <1>1, FoundTyped DEF Begin
  <2> QED
    BY <1>1, <2>1, <2>2 DEF Begin, DpTypeOK, Quiet, installed
<1>2. CASE Operate
  BY <1>2, TomcatTyped DEF Operate, DpTypeOK, installed
<1>3. CASE Use
  BY <1>3 DEF Use, DpTypeOK, tomcat
<1>13. CASE Reload
  BY <1>13, ReloadTyped DEF Reload, DpTypeOK, installed
<1>4. CASE GoalSucceeds
  <2>1. DpTypeOK /\ Busy
    BY <1>4 DEF GoalSucceeds
  <2>2. code \in Content
    BY Contents DEF DpTypeOK
  <2> QED
    BY <1>4, <2>1, <2>2, CurrentGoal, BecomesTyped, ContinueTyped DEF GoalSucceeds, DpTypeOK, tomcat
<1>5. CASE GoalRetried
  <2>1. DpTypeOK /\ Busy
    BY <1>5 DEF GoalRetried, Fails
  <2> QED
    BY <1>5, <2>1, Contents, CurrentGoal, BecomesTyped DEF GoalRetried, Fails, DpTypeOK, tomcat
<1>6. CASE GoalMissed
  <2>1. DpTypeOK /\ Busy
    BY <1>6 DEF GoalMissed, Fails
  <2>2. missed' \subseteq [do : Maven \cup {"stop"}, on : Db \cup {"tomcat"}]
    BY <1>6, <2>1, MissedTyped DEF GoalMissed, Fails
  <2> QED
    BY <1>6, <2>1, <2>2, Contents, CurrentGoal, BecomesTyped, ContinueTyped
       DEF GoalMissed, Fails, DpTypeOK, tomcat
<1>7. CASE GoalAborts
  <2>1. DpTypeOK /\ Busy
    BY <1>7 DEF GoalAborts, Fails
  <2> QED
    BY <1>7, <2>1, Contents, CurrentGoal, BecomesTyped, LeaveTyped
       DEF GoalAborts, Fails, DpTypeOK, tomcat
<1>8. CASE Checkout
  <2>1. DpTypeOK /\ Busy
    BY <1>8 DEF Checkout
  <2>2. dirs' \subseteq Revision
    BY <1>8 DEF Checkout, DpTypeOK
  <2> QED
    BY <1>8, <2>1, <2>2, ContinueTyped DEF Checkout, DpTypeOK, tomcat
<1>9. CASE Service
  <2>1. DpTypeOK /\ Busy
    BY <1>9 DEF Service
  <2>2. up' \in BOOLEAN /\ loaded' \in [App -> Content] /\ fresh' \in BOOLEAN
    BY <1>9, TomcatTyped DEF Service
  <2> QED
    BY <1>9, <2>1, <2>2, ContinueTyped DEF Service, DpTypeOK, installed
<1>10. CASE StopFails
  <2>1. DpTypeOK /\ Busy
    BY <1>10 DEF StopFails
  <2>2. missed' \subseteq [do : Maven \cup {"stop"}, on : Db \cup {"tomcat"}]
    BY <1>10, <2>1, MissedTyped DEF StopFails
  <2> QED
    BY <1>10, <2>1, <2>2, ContinueTyped DEF StopFails, DpTypeOK, installed, tomcat
<1>11. CASE Finish
  BY <1>11, LeaveTyped DEF Finish, DpTypeOK, installed, tomcat
<1>12. CASE UNCHANGED vars
  BY <1>12 DEF vars, installed, tomcat, DpTypeOK
<1> QED
  BY <1>1, <1>2, <1>3, <1>4, <1>5, <1>6, <1>7, <1>8, <1>9, <1>10, <1>11, <1>12, <1>13
     DEF Next

-----------------------------------------------------------------------------
(* The effects of a script's goals last to its end. *)

(* The effect of g after the step. *)
EffectAfter(g) ==
    /\ Migrates(g) => db'[g.on] = code'
    /\ g.do = "war" => app'[g.on] = code'
    /\ g.do = "libs" => g.on \in libs'

LEMMA CarriedNext ==
  ASSUME script' = script, script # "none", step' \in Nat,
         \A i \in 1 .. step' - 1 :
           Scripts[script][i] \in missed' \/ EffectAfter(Scripts[script][i])
  PROVE  Carried'
BY DEF Carried, Effect, EffectAfter, Migrates

(* The steps other than the goals leave the effects alone. *)
LEMMA CarriedFrame ==
  ASSUME DpTypeOK, Carried, Busy, Continue, UNCHANGED <<db, app, libs>>,
         missed \subseteq missed',
         Current \in missed' \/ ~(Migrates(Current) \/ Current.do \in {"war", "libs"})
  PROVE  Carried'
<1>1. ASSUME NEW i \in 1 .. step
      PROVE  Scripts[script][i] \in missed' \/ EffectAfter(Scripts[script][i])
  <2>1. CASE i = step
    BY <2>1, CurrentGoal DEF EffectAfter
  <2>2. CASE i # step
    <3>1. i \in 1 .. step - 1
      BY <2>2, CurrentGoal
    <3> QED
      BY <3>1 DEF Carried, Effect, EffectAfter, Continue, Busy
  <2> QED
    BY <2>1, <2>2
<1> QED
  BY <1>1, CarriedNext, CurrentGoal DEF Continue, Busy

(* No goal undoes the effect of an earlier one of the same script. *)
LEMMA EffectLasts ==
  ASSUME DpTypeOK, Busy, NEW r \in Content, Becomes(Current, r), code' = code,
         NEW i \in 1 .. step - 1, Effect(Scripts[script][i])
  PROVE  EffectAfter(Scripts[script][i])
<1> DEFINE g == Scripts[script][i]
<1>1. /\ i \in 1 .. Len(Scripts[script]) /\ i # step /\ ~(step < i)
      /\ step \in 1 .. Len(Scripts[script])
      /\ script \in DOMAIN Scripts
      /\ Current = Scripts[script][step]
  BY CurrentGoal
<1>2. WellTyped(g) /\ WellTyped(Current) /\ Ordered(Scripts[script])
  BY <1>1, GoalsTyped, ScriptsOrdered, CurrentGoal
<1>3. ASSUME Migrates(g) PROVE db'[g.on] = code
  <2>1. ~(Migrates(Current) /\ Current.on = g.on)
    <3> SUFFICES ASSUME Migrates(Current), Current.on = g.on PROVE FALSE
      OBVIOUS
    <3>1. Migrates(Scripts[script][step]) /\ Scripts[script][step].on = Scripts[script][i].on
      BY <1>1
    <3>2. step = i
      BY <3>1, <1>1, <1>2, <1>3 DEF Ordered
    <3> QED
      BY <3>2, <1>1
  <2>2. db[g.on] = code /\ g.on \in Db
    BY <1>2, <1>3 DEF Effect, WellTyped
  <2> QED
    BY <2>1, <2>2 DEF Becomes, DpTypeOK
<1>4. ASSUME g.do = "war" PROVE app'[g.on] = code
  <2>1. ~(Current.do = "war" /\ Current.on = g.on)
    BY <1>1, <1>2, <1>4 DEF Ordered
  <2>2. app[g.on] = code /\ g.on \in App
    BY <1>2, <1>4 DEF Effect, WellTyped
  <2> QED
    BY <2>1, <2>2 DEF Becomes, DpTypeOK
<1>5. ASSUME g.do = "libs" PROVE g.on \in libs'
  <2>1. ~(Current.do = "war" /\ Current.on = g.on)
    BY <1>1, <1>2, <1>5 DEF Ordered
  <2>2. g.on \in libs
    BY <1>5 DEF Effect
  <2> QED
    BY <2>1, <2>2 DEF Becomes
<1> QED
  BY <1>3, <1>4, <1>5 DEF EffectAfter

(* A goal that succeeds has its effect. *)
LEMMA EffectReached ==
  ASSUME DpTypeOK, Busy, Becomes(Current, code), code' = code
  PROVE  EffectAfter(Current)
<1> DEFINE g == Current
<1>1. WellTyped(g)
  BY CurrentGoal
<1>2. Migrates(g) => db'[g.on] = code
  BY <1>1 DEF Becomes, DpTypeOK, WellTyped
<1>3. g.do = "war" => app'[g.on] = code
  BY <1>1 DEF Becomes, DpTypeOK, WellTyped
<1>4. g.do = "libs" => g.on \in libs'
  BY DEF Becomes
<1> QED
  BY <1>2, <1>3, <1>4 DEF EffectAfter

LEMMA CarriedKept ==
  ASSUME DpTypeOK, Quiet, Carried, [Next]_vars
  PROVE  Carried'
<1>1. ASSUME NEW s \in DOMAIN Scripts, Begin(s) PROVE Carried'
  <2>1. step' = 1
    BY <1>1 DEF Begin, Quiet
  <2> QED
    BY <2>1 DEF Carried
<1>2. CASE Operate \/ Use \/ Reload
  <2>1. script # "none" => UNCHANGED <<script, code, step, missed, db, app, libs>>
    BY <1>2 DEF Operate, Use, Reload, installed
  <2>2. UNCHANGED script
    BY <1>2 DEF Operate, Use, Reload
  <2> QED
    BY <2>1, <2>2 DEF Carried, Effect, Migrates
<1>3. CASE GoalSucceeds
  <2>1. Busy /\ Becomes(Current, code) /\ code \in Content /\ Continue /\ UNCHANGED missed
    BY <1>3, Contents DEF GoalSucceeds, DpTypeOK
  <2>2. ASSUME NEW i \in 1 .. step
        PROVE  Scripts[script][i] \in missed' \/ EffectAfter(Scripts[script][i])
    <3>1. CASE i = step
      BY <2>1, <3>1, EffectReached, CurrentGoal DEF Continue
    <3>2. CASE i # step
      <4>1. i \in 1 .. step - 1
        BY <2>1, <3>2, CurrentGoal
      <4> QED
        BY <2>1, <4>1, EffectLasts DEF Carried, Continue, Busy
    <3> QED
      BY <3>1, <3>2
  <2> QED
    BY <2>1, <2>2, CarriedNext, CurrentGoal DEF Continue, Busy
<1>4. CASE GoalRetried
  <2>1. /\ Busy /\ Becomes(Current, Broken) /\ Broken \in Content
        /\ UNCHANGED <<script, code, step, missed>>
    BY <1>4, Contents DEF GoalRetried, Fails
  <2>2. ASSUME NEW i \in 1 .. step - 1
        PROVE  Scripts[script][i] \in missed' \/ EffectAfter(Scripts[script][i])
    BY <2>1, EffectLasts DEF Carried, Busy
  <2> QED
    BY <2>1, <2>2, CarriedNext, CurrentGoal DEF Busy
<1>5. CASE GoalMissed
  <2>1. /\ Busy /\ Becomes(Current, Broken) /\ Broken \in Content /\ Continue
        /\ missed' = missed \cup {Current}
    BY <1>5, Contents DEF GoalMissed, Fails
  <2>2. ASSUME NEW i \in 1 .. step
        PROVE  Scripts[script][i] \in missed' \/ EffectAfter(Scripts[script][i])
    <3>1. CASE i = step
      BY <2>1, <3>1, CurrentGoal
    <3>2. CASE i # step
      <4>1. i \in 1 .. step - 1
        BY <2>1, <3>2, CurrentGoal
      <4> QED
        BY <2>1, <4>1, EffectLasts DEF Carried, Continue, Busy
    <3> QED
      BY <3>1, <3>2
  <2> QED
    BY <2>1, <2>2, CarriedNext, CurrentGoal DEF Continue, Busy
<1>6. CASE GoalAborts \/ Finish
  BY <1>6 DEF GoalAborts, Finish, Leave, Carried
<1>7. CASE Checkout
  BY <1>7, CarriedFrame DEF Checkout, Migrates
<1>8. CASE Service
  BY <1>8, CarriedFrame DEF Service, Migrates, installed
<1>9. CASE StopFails
  BY <1>9, CarriedFrame DEF StopFails, Migrates, installed
<1>10. CASE UNCHANGED vars
  BY <1>10 DEF vars, installed, Carried, Effect, Migrates
<1> QED
  BY <1>1, <1>2, <1>3, <1>4, <1>5, <1>6, <1>7, <1>8, <1>9, <1>10 DEF Next

-----------------------------------------------------------------------------
(* The rest of the invariant *)

(* What a step of the script adds to its past. *)
LEMMA PastNext ==
  ASSUME DpTypeOK, Busy, Continue
  PROVE  /\ Past("stop")' <=> Past("stop") \/ Current.do = "stop"
         /\ Past("start")' <=> Past("start") \/ Current.do = "start"
<1>1. /\ step' - 1 = step /\ script' = script
      /\ 1 .. step = 1 .. step - 1 \cup {step}
      /\ Current = Scripts[script][step]
  BY CurrentGoal DEF Continue
<1> QED
  BY <1>1 DEF Past

LEMMA PastNow ==
  ASSUME DpTypeOK, Busy, script \in {"update", "tag"}
  PROVE  /\ Current.do \in {"war", "libs", "start"} => Past("stop")
         /\ ~Past("start")
<1>1. CASE Current.do \in {"war", "libs", "start"}
  BY <1>1, CurrentGoal, StopFirst DEF Past
<1>2. ~Past("start")
  <2> SUFFICES ASSUME NEW i \in 1 .. step - 1, Scripts[script][i].do = "start"
               PROVE  FALSE
    BY DEF Past
  <2>1. i \in 1 .. Len(Scripts[script]) /\ i # Len(Scripts[script])
    BY CurrentGoal
  <2> QED
    BY <2>1, StopFirst
<1> QED
  BY <1>1, <1>2

(* Once it has taken all its steps such a script has started tomcat. *)
LEMMA PastEnd ==
  ASSUME DpTypeOK, ~Busy, script \in {"update", "tag"}
  PROVE  Past("start")
<1>1. Len(Scripts[script]) \in 1 .. step - 1
  BY UpdateCodeAndRestartSteps, UpdateToLatestTagSteps, SMTT(60) DEF Busy, DpTypeOK
<1>2. Scripts[script][Len(Scripts[script])].do = "start"
  <2>1. CASE script = "update"
    BY <2>1, UpdateCodeAndRestartSteps DEF Goal
  <2>2. CASE script = "tag"
    BY <2>2, UpdateToLatestTagSteps DEF Goal
  <2> QED
    BY <2>1, <2>2
<1> QED
  BY <1>1, <1>2 DEF Past

LEMMA QuietKept ==
  ASSUME DpTypeOK, Quiet, [Next]_vars
  PROVE  Quiet'
<1>1. ASSUME NEW s \in DOMAIN Scripts, Begin(s) PROVE Quiet'
  BY <1>1, ScriptNames DEF Begin, Quiet
<1>2. CASE Operate \/ Use \/ Reload \/ UNCHANGED vars
  BY <1>2 DEF Operate, Use, Reload, vars, Quiet
<1>3. CASE GoalSucceeds \/ GoalRetried \/ GoalMissed \/ Checkout \/ Service \/ StopFails
  BY <1>3 DEF GoalSucceeds, GoalRetried, GoalMissed, Fails, Checkout, Service, StopFails,
              Busy, Continue, Quiet
<1>4. CASE GoalAborts \/ Finish
  BY <1>4 DEF GoalAborts, Finish, Leave, Quiet
<1> QED
  BY <1>1, <1>2, <1>3, <1>4 DEF Next

LEMMA SoundMissedKept ==
  ASSUME Quiet, SoundMissed, [Next]_vars
  PROVE  SoundMissed'
<1>1. ASSUME NEW s \in DOMAIN Scripts, Begin(s) PROVE SoundMissed'
  BY <1>1 DEF Begin, Quiet, SoundMissed
<1>2. CASE Operate \/ Use \/ Reload \/ UNCHANGED vars
  BY <1>2 DEF Operate, Use, Reload, vars, SoundMissed
<1>3. CASE GoalSucceeds \/ GoalRetried \/ Checkout \/ Service
  BY <1>3 DEF GoalSucceeds, GoalRetried, Checkout, Service, SoundMissed
<1>4. CASE GoalMissed \/ StopFails
  BY <1>4 DEF GoalMissed, StopFails, SoundMissed
<1>5. CASE GoalAborts \/ Finish
  BY <1>5 DEF GoalAborts, Finish, Leave, SoundMissed
<1> QED
  BY <1>1, <1>2, <1>3, <1>4, <1>5 DEF Next

(* The steps that leave tomcat alone. *)
LEMMA StoppedFrame ==
  ASSUME DpTypeOK, Stopped, Busy, Continue, UNCHANGED up, missed \subseteq missed',
         Current.do \notin {"stop", "start"}
  PROVE  Stopped'
BY PastNext DEF Stopped, Continue

LEMMA StoppedKept ==
  ASSUME DpTypeOK, Quiet, Stopped, [Next]_vars
  PROVE  Stopped'
<1>1. ASSUME NEW s \in DOMAIN Scripts, Begin(s) PROVE Stopped'
  <2>1. step' = 1
    BY <1>1 DEF Begin, Quiet
  <2> QED
    BY <2>1 DEF Stopped, Past
<1>2. CASE Operate
  BY <1>2 DEF Operate, Stopped
<1>3. CASE Use \/ Reload \/ UNCHANGED vars
  BY <1>3 DEF Use, Reload, vars, tomcat, Stopped, Past
<1>4. CASE GoalSucceeds
  BY <1>4, StoppedFrame DEF GoalSucceeds, Maven, tomcat
<1>5. CASE GoalRetried
  BY <1>5 DEF GoalRetried, Fails, Stopped, Past, tomcat
<1>6. CASE GoalMissed
  BY <1>6, StoppedFrame DEF GoalMissed, Fails, Maven, tomcat
<1>7. CASE GoalAborts \/ Finish
  BY <1>7 DEF GoalAborts, Finish, Leave, Stopped
<1>8. CASE Checkout
  BY <1>8, StoppedFrame DEF Checkout, tomcat
<1>9. CASE Service
  <2>1. /\ Busy /\ Continue /\ UNCHANGED missed
        /\ Current.do \in {"stop", "unlock", "start"}
        /\ Current.do = "stop" => ~up'
        /\ Current.do = "unlock" => up' = up
    BY <1>9 DEF Service, Stops, tomcat
  <2>2. CASE Current.do = "stop"
    BY <2>1, <2>2 DEF Stopped
  <2>3. CASE Current.do = "unlock"
    BY <2>1, <2>3, StoppedFrame
  <2>4. CASE Current.do = "start"
    BY <2>1, <2>4, PastNext DEF Stopped
  <2> QED
    BY <2>1, <2>2, <2>3, <2>4
<1>10. CASE StopFails
  <2>1. Current = Goal("stop", "tomcat")
    BY <1>10, CurrentGoal DEF StopFails, WellTyped
  <2>2. Goal("stop", "tomcat") \in missed'
    BY <2>1, <1>10 DEF StopFails
  <2> QED
    BY <2>2 DEF Stopped
<1> QED
  BY <1>1, <1>2, <1>3, <1>4, <1>5, <1>6, <1>7, <1>8, <1>9, <1>10 DEF Next

(* A complete run of a script that renews everything leaves a shop that fits. *)
LEMMA WholeFits ==
  ASSUME DpTypeOK, Carried, missed = {}, script \in Whole, step = Len(Scripts[script]) + 1
  PROVE  Fits
<1> DEFINE R == Scripts[script]
<1>1. script \in DOMAIN Scripts /\ script # "none"
  BY ScriptNames DEF Whole
<1>2. \A i \in 1 .. Len(R) : Effect(R[i])
  <2>1. 1 .. step - 1 = 1 .. Len(R)
    BY <1>1, GoalsTyped
  <2> QED
    BY <1>1, <2>1 DEF Carried
<1> SUFFICES ASSUME NEW a \in App
             PROVE  app[a] \in Revision /\ a \in libs /\ \A d \in Db : db[d] = app[a]
  BY DEF Fits
<1>3. \A d \in Db : db[d] = code
  BY <1>2, WholeScripts DEF Effect, Migrates
<1>4. app[a] = code
  BY <1>2, WholeScripts DEF Effect
<1>5. a \in libs
  BY <1>2, WholeScripts DEF Effect
<1> QED
  BY <1>3, <1>4, <1>5 DEF DpTypeOK

LEMMA SoundFitsKept ==
  ASSUME DpTypeOK, Quiet, Carried, SoundFits, [Next]_vars
  PROVE  SoundFits'
<1>1. ASSUME NEW s \in DOMAIN Scripts, Begin(s) PROVE SoundFits'
  BY <1>1 DEF Begin, SoundFits, Fits, installed
<1>2. CASE Operate \/ Use \/ Reload \/ UNCHANGED vars
  BY <1>2 DEF Operate, Use, Reload, vars, installed, SoundFits, Fits, Past
<1>3. CASE GoalSucceeds
  <2>1. DpTypeOK /\ Busy /\ Becomes(Current, code) /\ UNCHANGED sound /\ Continue
        /\ Current.do \in Maven
    BY <1>3 DEF GoalSucceeds
  <2>2. CASE script = "restart"
    BY <2>1, <2>2, CurrentGoal, RestartTomcatSteps DEF Goal, Maven
  <2>3. CASE script = "update"
    <3>1. SUFFICES ASSUME sound, ~Past("stop") PROVE Fits'
      BY <2>1, <2>3, PastNext DEF SoundFits, Continue
    <3>2. Current.do = "setup"
      <4>1. step \in 1 .. 10 /\ ~(2 \in 1 .. step - 1)
        BY <2>1, <2>3, <3>1, CurrentGoal, UpdateCodeAndRestartSteps DEF Goal, Past
      <4>2. step \in {1, 2}
        BY <4>1
      <4> QED
        BY <2>1, <2>3, <4>2, CurrentGoal, UpdateCodeAndRestartSteps DEF Goal, Maven
    <3> QED
      BY <2>1, <2>3, <3>1, <3>2 DEF SoundFits, Becomes, Fits, Migrates
  <2> QED
    BY <2>1, <2>2, <2>3 DEF SoundFits, Continue, Busy
<1>4. CASE GoalRetried
  <2>1. DpTypeOK /\ Busy /\ Becomes(Current, Broken) /\ UNCHANGED <<sound, script, step>>
        /\ Current.do \in Maven
    BY <1>4 DEF GoalRetried, Fails
  <2>2. CASE script = "restart"
    BY <2>1, <2>2, CurrentGoal, RestartTomcatSteps DEF Goal, Maven
  <2>3. CASE script = "update"
    <3>1. SUFFICES ASSUME sound, ~Past("stop") PROVE Fits'
      BY <2>1, <2>3 DEF SoundFits, Past
    <3>2. Current.do = "setup"
      <4>1. step \in 1 .. 10 /\ ~(2 \in 1 .. step - 1)
        BY <2>1, <2>3, <3>1, CurrentGoal, UpdateCodeAndRestartSteps DEF Goal, Past
      <4>2. step \in {1, 2}
        BY <4>1
      <4> QED
        BY <2>1, <2>3, <4>2, CurrentGoal, UpdateCodeAndRestartSteps DEF Goal, Maven
    <3> QED
      BY <2>1, <2>3, <3>1, <3>2 DEF SoundFits, Becomes, Fits, Migrates
  <2> QED
    BY <2>1, <2>2, <2>3 DEF SoundFits, Busy
<1>5. CASE GoalMissed \/ GoalAborts \/ StopFails
  BY <1>5 DEF GoalMissed, GoalAborts, StopFails, SoundFits
<1>6. CASE Checkout
  BY <1>6, PastNext DEF Checkout, SoundFits, Fits, Continue
<1>7. CASE Service
  BY <1>7, PastNext DEF Service, SoundFits, Fits, Continue, installed
<1>8. CASE Finish
  <2>1. /\ UNCHANGED <<db, app, libs>> /\ script' = "none" /\ script # "none" /\ ~Busy
        /\ sound' = (IF script \in Whole THEN missed = {} ELSE sound)
    BY <1>8 DEF Finish, Leave, installed
  <2> SUFFICES ASSUME sound' PROVE Fits
    BY <2>1 DEF SoundFits, Fits, Partial
  <2>2. script \in DOMAIN Scripts /\ step = Len(Scripts[script]) + 1
    BY <2>1, GoalsTyped DEF DpTypeOK, Busy
  <2>3. CASE script \in Whole
    BY <2>1, <2>2, <2>3, WholeFits
  <2>4. CASE script \in Partial
    BY <2>1, <2>4 DEF SoundFits, Partial, Whole
  <2>5. CASE script = "restart"
    BY <2>1, <2>5 DEF SoundFits, Whole
  <2> QED
    BY <2>2, <2>3, <2>4, <2>5, ScriptNames DEF Whole, Partial
<1> QED
  BY <1>1, <1>2, <1>3, <1>4, <1>5, <1>6, <1>7, <1>8 DEF Next

LEMMA FreshScriptsKept ==
  ASSUME DpTypeOK, FreshScripts, [Next]_vars
  PROVE  FreshScripts'
<1> USE DEF FreshScripts
<1>1. ASSUME NEW s \in DOMAIN Scripts, Begin(s) PROVE FreshScripts'
  BY <1>1 DEF Begin, Restarting
<1>2. CASE Operate
  <2>1. UNCHANGED script /\ script = "none"
    BY <1>2 DEF Operate
  <2> QED
    BY <2>1
<1>3. CASE Service
  <2>1. Busy /\ script' = script /\ Current.do \in {"stop", "start", "unlock"}
    BY <1>3 DEF Service, Continue
  <2> QED
    BY <2>1, CurrentGoal, NoService
<1>4. CASE GoalAborts \/ Finish
  BY <1>4 DEF GoalAborts, Finish, Leave
<1>5. CASE Use \/ Reload \/ Checkout \/ StopFails \/ UNCHANGED vars
  BY <1>5 DEF Use, Reload, Checkout, StopFails, Continue, tomcat, vars
<1>6. CASE GoalSucceeds \/ GoalRetried \/ GoalMissed
  BY <1>6 DEF GoalSucceeds, GoalRetried, GoalMissed, Fails, Continue, tomcat
<1> QED
  BY <1>1, <1>2, <1>3, <1>4, <1>5, <1>6 DEF Next

(* The steps that leave tomcat and the applications alone. *)
LEMMA LoadedFrame ==
  ASSUME DpTypeOK, LoadedNow, UNCHANGED <<app, libs, tomcat>>,
         (sound \/ Complete)' => (sound \/ Complete)
  PROVE  LoadedNow'
BY DEF LoadedNow, Loads, tomcat

LEMMA CompleteNext ==
  ASSUME DpTypeOK, Busy, Continue, UNCHANGED missed, Current.do # "start"
  PROVE  Complete' <=> Complete
BY PastNext DEF Complete, Continue

(* No step changes the applications under a tomcat that is fresh, but for a
   script that could not stop it. *)
LEMMA UnderFresh ==
  ASSUME DpTypeOK, DeployInv, Busy, Current.do \in {"war", "libs"}, fresh
  PROVE  /\ script \in {"update", "tag"} /\ ~Past("start")
         /\ sound => ~up
<1>1. script \in DOMAIN Scripts /\ script # "none"
  BY CurrentGoal DEF Busy
<1>2. script # "restart"
  BY CurrentGoal, RestartTomcatSteps, SMTT(60) DEF Goal
<1>3. script \in {"update", "tag"}
  BY <1>1, <1>2, ScriptNames DEF DeployInv, FreshScripts
<1>4. Past("stop") /\ ~Past("start")
  BY <1>3, PastNow
<1>5. sound => ~up
  BY <1>1, <1>4 DEF DeployInv, Stopped, SoundMissed
<1> QED
  BY <1>3, <1>4, <1>5

LEMMA LoadedGoal ==
  ASSUME DpTypeOK, DeployInv, Busy, Continue, Current.do \in Maven, NEW r \in Content,
         Becomes(Current, r), UNCHANGED <<tomcat, missed, sound>>
  PROVE  LoadedNow'
<1>1. Current.do # "start"
  BY DEF Maven
<1>2. Complete' <=> Complete
  BY <1>1, CompleteNext
<1>3. CASE Current.do \in {"war", "libs"}
  <2> SUFFICES ASSUME fresh, up, sound \/ Complete PROVE FALSE
    BY <1>2 DEF LoadedNow, tomcat
  <2> QED
    BY <1>3, UnderFresh DEF Complete
<1>4. CASE Current.do \notin {"war", "libs"}
  <2>1. UNCHANGED <<app, libs>>
    BY <1>4 DEF Becomes
  <2> QED
    BY <1>2, <2>1, LoadedFrame DEF DeployInv
<1> QED
  BY <1>3, <1>4

LEMMA LoadedKept ==
  ASSUME DpTypeOK, DeployInv, [Next]_vars
  PROVE  LoadedNow'
<1>0. LoadedNow
  BY DEF DeployInv
<1>1. ASSUME NEW s \in DOMAIN Scripts, Begin(s) PROVE LoadedNow'
  <2>1. step' = 1 /\ UNCHANGED <<app, libs, up, loaded>> /\ (fresh' => fresh) /\ (sound' => sound)
    BY <1>1 DEF Begin, DeployInv, Quiet, installed
  <2>2. ~Complete'
    BY <2>1 DEF Complete, Past
  <2> QED
    BY <1>0, <2>1, <2>2 DEF LoadedNow, Loads
<1>2. CASE Operate
  <2>1. UNCHANGED <<app, libs>> /\ (up' => loaded' = [a \in App |-> Loads(a)])
    BY <1>2 DEF Operate, Starts, Stops, installed
  <2> QED
    BY <2>1 DEF LoadedNow, Loads
<1>3. CASE Reload
  <2>1. UNCHANGED <<app, libs, up, fresh, sound>> /\ (Complete' <=> Complete)
    BY <1>3 DEF Reload, installed, Complete, Past
  <2>2. \A a \in App : loaded'[a] = loaded[a] \/ loaded'[a] = Loads(a)
    BY <1>3 DEF Reload, DpTypeOK
  <2> QED
    BY <1>0, <2>1, <2>2 DEF LoadedNow, Loads
<1>4. CASE Use \/ UNCHANGED vars
  <2>1. UNCHANGED <<app, libs, tomcat, sound>> /\ (Complete' <=> Complete)
    BY <1>4 DEF Use, vars, installed, Complete, Past
  <2> QED
    BY <1>0, <2>1, LoadedFrame
<1>5. CASE GoalSucceeds
  BY <1>5, LoadedGoal, Contents DEF GoalSucceeds, DpTypeOK
<1>6. CASE GoalRetried
  <2>1. /\ Busy /\ Becomes(Current, Broken) /\ UNCHANGED <<tomcat, sound>>
        /\ Complete' <=> Complete
    BY <1>6 DEF GoalRetried, Fails, Complete, Past
  <2>2. CASE Current.do \in {"war", "libs"}
    <3> SUFFICES ASSUME fresh, up, sound \/ Complete PROVE FALSE
      BY <2>1 DEF LoadedNow, tomcat
    <3> QED
      BY <2>1, <2>2, UnderFresh DEF Complete
  <2>3. CASE Current.do \notin {"war", "libs"}
    <3>1. UNCHANGED <<app, libs>>
      BY <2>1, <2>3 DEF Becomes
    <3> QED
      BY <1>0, <2>1, <3>1, LoadedFrame
  <2> QED
    BY <2>2, <2>3
<1>7. CASE GoalMissed \/ StopFails
  BY <1>7 DEF GoalMissed, StopFails, LoadedNow, Complete
<1>8. CASE GoalAborts
  BY <1>8 DEF GoalAborts, Leave, LoadedNow, Complete
<1>9. CASE Checkout
  <2>1. Busy /\ Continue /\ UNCHANGED <<app, libs, tomcat, missed, sound>> /\ Current.do # "start"
    BY <1>9 DEF Checkout
  <2>2. Complete' <=> Complete
    BY <2>1, CompleteNext
  <2> QED
    BY <1>0, <2>1, <2>2, LoadedFrame
<1>10. CASE Service
  <2>1. Busy /\ Continue /\ UNCHANGED <<app, libs, missed, sound>>
    BY <1>10 DEF Service, installed
  <2>2. CASE Current.do = "stop"
    BY <1>10, <2>2 DEF Service, Stops, LoadedNow
  <2>3. CASE Current.do = "unlock"
    <3>1. Complete' <=> Complete
      BY <2>1, <2>3, CompleteNext
    <3>2. UNCHANGED tomcat
      BY <1>10, <2>3 DEF Service
    <3> QED
      BY <1>0, <2>1, <3>1, <3>2, LoadedFrame
  <2>4. CASE Current.do = "start"
    <3>1. Starts
      BY <1>10, <2>4 DEF Service
    <3>2. CASE ~up
      BY <2>1, <3>1, <3>2 DEF Starts, LoadedNow, Loads
    <3>3. CASE up
      <4>1. UNCHANGED <<loaded, fresh>>
        BY <3>1, <3>3 DEF Starts
      <4>2. ~Complete'
        <5> SUFFICES ASSUME script \in {"update", "tag"}, missed = {} PROVE FALSE
          BY <2>1 DEF Complete, Continue
        <5>1. Past("stop") /\ ~Past("start")
          BY <2>1, <2>4, PastNow
        <5> QED
          BY <2>1, <3>3, <5>1 DEF DeployInv, Stopped, Busy
      <4> QED
        BY <1>0, <2>1, <3>3, <4>1, <4>2 DEF LoadedNow, Loads
    <3> QED
      BY <3>2, <3>3
  <2> QED
    BY <1>10, <2>2, <2>3, <2>4 DEF Service
<1>11. CASE Finish
  <2>1. /\ UNCHANGED <<app, libs, tomcat>> /\ script' = "none" /\ script # "none" /\ ~Busy
        /\ sound' = (IF script \in Whole THEN missed = {} ELSE sound)
    BY <1>11 DEF Finish, Leave, installed
  <2>2. ~Complete'
    BY <2>1 DEF Complete
  <2> SUFFICES ASSUME sound', fresh PROVE sound \/ Complete
    BY <1>0, <2>1, <2>2 DEF LoadedNow, Loads, tomcat
  <2>3. script \in {"update", "tag"} => Past("start")
    BY <2>1, PastEnd
  <2> QED
    BY <2>1, <2>3 DEF Complete, Whole, DeployInv, FreshScripts
<1> QED
  BY <1>1, <1>2, <1>3, <1>4, <1>5, <1>6, <1>7, <1>8, <1>9, <1>10, <1>11 DEF Next

LEMMA DeployKept ==
  ASSUME DpTypeOK, DeployInv, [Next]_vars
  PROVE  DpTypeOK' /\ DeployInv'
<1>1. DpTypeOK'
  BY DpTypeKept DEF DeployInv
<1>2. Quiet' /\ Carried'
  BY QuietKept, CarriedKept DEF DeployInv
<1>3. Stopped' /\ SoundMissed' /\ SoundFits'
  BY StoppedKept, SoundMissedKept, SoundFitsKept DEF DeployInv
<1>4. FreshScripts' /\ LoadedNow'
  BY FreshScriptsKept, LoadedKept DEF DeployInv
<1> QED
  BY <1>1, <1>2, <1>3, <1>4 DEF DeployInv

LEMMA DeployInitially ==
  ASSUME Init
  PROVE  DpTypeOK /\ DeployInv
<1> USE Contents DEF Init
<1>1. db \in [Db -> Content] /\ app \in [App -> Content]
  OBVIOUS
<1>2. DpTypeOK
  BY <1>1 DEF DpTypeOK
<1>3. Quiet /\ Carried /\ Stopped /\ SoundMissed
  BY DEF Quiet, Carried, Stopped, SoundMissed
<1>4. SoundFits
  BY DEF SoundFits, Fits, Partial, App, Db
<1>5. FreshScripts /\ LoadedNow
  BY DEF FreshScripts, LoadedNow, Loads
<1> QED
  BY <1>2, <1>3, <1>4, <1>5 DEF DeployInv

(* Every script keeps every variable in its type and takes no step beyond its
   last. *)
THEOREM DpTypeCorrect == Spec => []DpTypeOK
<1>1. DpTypeOK /\ DeployInv /\ [Next]_vars => DpTypeOK' /\ DeployInv'
  BY DeployKept
<1> QED
  BY <1>1, DeployInitially, PTL DEF Spec

LEMMA DeployHolds == Spec => [](DpTypeOK /\ DeployInv)
<1>1. DpTypeOK /\ DeployInv /\ [Next]_vars => DpTypeOK' /\ DeployInv'
  BY DeployKept
<1> QED
  BY <1>1, DeployInitially, PTL DEF Spec

(* What tomcat runs while updatecodeandrestart.sh or restarttomcat.sh runs, or no
   script does: after a complete update and a start, applications that fit all
   databases and have their libraries. *)
THEOREM ServedHolds == Spec => []ServedFits
<1>1. DpTypeOK /\ DeployInv => ServedFits
  <2> SUFFICES ASSUME DpTypeOK, DeployInv, up, sound, fresh, script \in {"none", "update", "restart"}
               PROVE  Fits
    BY DEF ServedFits, Fits, DeployInv, LoadedNow, Loads
  <2>1. CASE script \in {"none", "restart"} \/ ~Past("stop")
    BY <2>1 DEF DeployInv, SoundFits
  <2>2. CASE script = "update" /\ Past("stop")
    <3>1. missed = {}
      BY DEF DeployInv, SoundMissed
    <3>2. Past("start")
      BY <2>2, <3>1 DEF DeployInv, Stopped
    <3>3. ~Busy
      BY <2>2, <3>2, PastNow
    <3>4. step = Len(Scripts[script]) + 1
      BY <2>2, <3>3, UpdateCodeAndRestartSteps DEF Busy, DpTypeOK
    <3> QED
      BY <2>2, <3>1, <3>4, WholeFits DEF DeployInv, Whole
  <2> QED
    BY <2>1, <2>2
<1> QED
  BY <1>1, DeployHolds, PTL

-----------------------------------------------------------------------------
(* What a step may do *)

(* Only goals change the databases, the data and the applications. *)
LEMMA OnlyGoals ==
  ASSUME [Next]_vars, ~(GoalSucceeds \/ Fails)
  PROVE  UNCHANGED <<db, app, libs>> /\ data \subseteq data'
<1>1. CASE Use
  BY <1>1 DEF Use
<1>2. CASE UNCHANGED vars
  BY <1>2 DEF vars, installed
<1> QED
  BY <1>1, <1>2 DEF Next, Begin, Operate, Reload, GoalRetried, GoalMissed, GoalAborts, Checkout, Service,
                    StopFails, Finish, installed

(* An application is only put in place after its database, and in the same
   run of the script. *)
THEOREM MigratedHolds == Spec => MigratedFirst
<1> DEFINE Shown ==
      \A a \in App : app'[a] = code /\ app'[a] # app[a] /\ script # "shop" =>
          \/ db[a] = code
          \/ \E g \in missed : Migrates(g) /\ g.on = a
<1>1. ASSUME DpTypeOK, DeployInv, [Next]_vars PROVE Shown
  <2> SUFFICES ASSUME NEW a \in App, app'[a] = code, app'[a] # app[a], script # "shop"
               PROVE  \/ db[a] = code
                      \/ \E g \in missed : Migrates(g) /\ g.on = a
    OBVIOUS
  <2>1. GoalSucceeds \/ Fails
    BY <1>1, OnlyGoals
  <2>2. Busy /\ \E r \in Content : Becomes(Current, r)
    BY <1>1, <2>1, Contents DEF GoalSucceeds, Fails, DpTypeOK
  <2>3. Current.do = "war" /\ Current.on = a
    BY <1>1, <2>2, CurrentGoal DEF Becomes, DpTypeOK, WellTyped
  <2>4. PICK i \in 1 .. step - 1 : Migrates(Scripts[script][i]) /\ Scripts[script][i].on = a
    BY <1>1, <2>2, <2>3, CurrentGoal, MigrationFirst
  <2>5. Scripts[script][i] \in missed \/ Effect(Scripts[script][i])
    BY <1>1, <2>2 DEF DeployInv, Carried, Busy
  <2> QED
    BY <2>4, <2>5 DEF Effect
<1>2. DpTypeOK /\ DeployInv /\ [Next]_vars =>
        [\A a \in App : app'[a] = code /\ app'[a] # app[a] /\ script # "shop" =>
            \/ db[a] = code
            \/ \E g \in missed : Migrates(g) /\ g.on = a]_vars
  BY <1>1
<1> QED
  BY <1>2, DeployHolds, PTL DEF Spec, MigratedFirst

(* The scripts that restart tomcat never unpack an application under a tomcat
   that they could have stopped. *)
THEOREM DownHolds == Spec => DeployedWhileDown
<1>1. ASSUME DpTypeOK, DeployInv, [Next]_vars, app' # app \/ libs' # libs
      PROVE  ~up \/ script \notin {"update", "tag"} \/ Do("stop")[1] \in missed
  <2> SUFFICES ASSUME script \in {"update", "tag"}
               PROVE  ~up \/ Goal("stop", "tomcat") \in missed
    BY DEF Do
  <2>1. GoalSucceeds \/ Fails
    BY <1>1, OnlyGoals
  <2>2. Busy /\ \E r \in Content : Becomes(Current, r)
    BY <1>1, <2>1, Contents DEF GoalSucceeds, Fails, DpTypeOK
  <2>3. Current.do \in {"war", "libs"}
    BY <1>1, <2>2 DEF Becomes
  <2>4. Past("stop") /\ ~Past("start")
    BY <1>1, <2>2, <2>3, PastNow
  <2> QED
    BY <1>1, <2>4 DEF DeployInv, Stopped
<1>2. DpTypeOK /\ DeployInv /\ [Next]_vars =>
        [app' # app \/ libs' # libs =>
            ~up \/ script \notin {"update", "tag"} \/ Do("stop")[1] \in missed]_vars
  BY <1>1
<1> QED
  BY <1>2, DeployHolds, PTL DEF Spec, DeployedWhileDown

-----------------------------------------------------------------------------
(* What setup.sh keeps *)

LEMMA FoundAll ==
  ASSUME DpTypeOK
  PROVE  \A d \in Db : d \notin Found /\ ~Overwritable(d) => db[d] = Absent
BY DEF Overwritable, DpTypeOK, Found, Db, App

LEMMA DataKept ==
  ASSUME DpTypeOK, DataThere, [Next]_vars
  PROVE  DataThere'
<1> USE Contents DEF DataThere, DpTypeOK
<1>1. CASE Use
  BY <1>1 DEF Use
<1>2. CASE GoalSucceeds \/ Fails
  <2>1. PICK r \in Revision \cup {Broken} : Becomes(Current, r)
    BY <1>2 DEF GoalSucceeds, Fails
  <2>2. r # Absent /\ WellTyped(Current)
    BY <1>2, CurrentGoal DEF GoalSucceeds, Fails
  <2> QED
    BY <2>1, <2>2 DEF Becomes, WellTyped
<1>3. CASE UNCHANGED <<db, data>>
  BY <1>3
<1> QED
  BY <1>1, <1>2, <1>3 DEF Next, vars, Begin, Operate, Reload, GoalRetried, GoalMissed, GoalAborts,
        Checkout, Service, StopFails, Finish, installed

(* A database that is still to be created is not the one of a goal run before. *)
LEMMA SparedGoal ==
  ASSUME DpTypeOK, Spared, script = "install", Busy, NEW r \in Content, Becomes(Current, r),
         UNCHANGED <<listed, script>>,
         NEW i \in step .. Len(Scripts[script]), i # step \/ r = Broken,
         Creates(Scripts[script][i]), ~Overwritable(Scripts[script][i].on)
  PROVE  LET g == Scripts[script][i]
         IN  g.on \notin data' /\ db'[g.on] \in {Absent, Broken}
<1> DEFINE g == Scripts[script][i]
<1>1. /\ i \in 1 .. Len(Scripts[script]) /\ step \in 1 .. Len(Scripts[script])
      /\ script \in DOMAIN Scripts
      /\ Current = Scripts[script][step]
  BY CurrentGoal
<1>2. WellTyped(g) /\ WellTyped(Current) /\ Ordered(Scripts[script])
  BY <1>1, GoalsTyped, ScriptsOrdered, CurrentGoal
<1>3. g.on \notin data /\ db[g.on] \in {Absent, Broken}
  BY DEF Spared
<1>4. Migrates(g) /\ g.on \in Db
  BY <1>2 DEF Creates, Migrates, WellTyped
<1>5. CASE i = step
  BY <1>1, <1>3, <1>4, <1>5 DEF Becomes, DpTypeOK
<1>6. CASE i # step
  <2>1. ~(Migrates(Current) /\ Current.on = g.on)
    <3> SUFFICES ASSUME Migrates(Current), Current.on = g.on PROVE FALSE
      OBVIOUS
    <3>1. Migrates(Scripts[script][step]) /\ Scripts[script][step].on = Scripts[script][i].on
      BY <1>1
    <3>2. step = i
      BY <3>1, <1>1, <1>2, <1>4 DEF Ordered
    <3> QED
      BY <3>2, <1>6
  <2> QED
    BY <2>1, <1>3, <1>4 DEF Becomes, DpTypeOK
<1> QED
  BY <1>5, <1>6

(* The steps that leave the databases alone or use those there are. *)
LEMMA SparedFrame ==
  ASSUME DpTypeOK, Spared, UNCHANGED <<server, db, script, listed>>,
         step' \in {step, step + 1},
         data' = data \/ data' = data \cup {d \in Db : db[d] \in Revision}
  PROVE  Spared'
<1> SUFFICES ASSUME script = "install", NEW i \in step' .. Len(Scripts[script]),
                    Creates(Scripts[script][i])', ~Overwritable(Scripts[script][i].on)
             PROVE  LET g == Scripts[script][i]
                    IN  g.on \notin data' /\ db'[g.on] \in {Absent, Broken}
  BY DEF Spared, Overwritable
<1>1. i \in step .. Len(Scripts[script])
  BY GoalsTyped DEF DpTypeOK
<1>2. Creates(Scripts[script][i])
  BY DEF Creates
<1> QED
  BY <1>1, <1>2, Contents DEF Spared

LEMMA SparedKept ==
  ASSUME DpTypeOK, Quiet, DataThere, Spared, [Next]_vars
  PROVE  Spared'
<1>1. ASSUME NEW s \in DOMAIN Scripts, Begin(s) PROVE Spared'
  <2> SUFFICES ASSUME s = "install", NEW i \in 1 .. Len(Scripts["install"]),
                      Creates(Scripts["install"][i])', ~Overwritable(Scripts["install"][i].on)
               PROVE  LET g == Scripts["install"][i]
                      IN  g.on \notin data' /\ db'[g.on] \in {Absent, Broken}
    BY <1>1 DEF Begin, Quiet, Spared, Overwritable
  <2> DEFINE g == Scripts["install"][i]
  <2>1. g.on \notin listed' /\ g.on \in Db
    BY InstallSteps DEF Creates, Goal, Db, App
  <2>2. db[g.on] = Absent
    BY <1>1, <2>1, FoundAll DEF Begin
  <2> QED
    BY <1>1, <2>2 DEF Begin, DataThere, installed
<1>2. CASE Operate \/ Use \/ Reload \/ UNCHANGED vars
  BY <1>2, SparedFrame DEF Operate, Use, Reload, vars, installed
<1>3. CASE GoalSucceeds
  <2>1. PICK r \in Content :
          /\ Busy /\ Becomes(Current, r) /\ UNCHANGED <<server, listed, script>>
          /\ step' = step + 1
    BY <1>3, Contents DEF GoalSucceeds, Continue, DpTypeOK
  <2> SUFFICES ASSUME script = "install", NEW i \in step' .. Len(Scripts[script]),
                      Creates(Scripts[script][i])', ~Overwritable(Scripts[script][i].on)
               PROVE  LET g == Scripts[script][i]
                      IN  g.on \notin data' /\ db'[g.on] \in {Absent, Broken}
    BY <2>1 DEF Spared, Overwritable
  <2>2. i \in step .. Len(Scripts[script]) /\ i # step
    BY <2>1, CurrentGoal
  <2>3. Creates(Scripts[script][i])
    BY <2>1 DEF Creates
  <2> QED
    BY <2>1, <2>2, <2>3, SparedGoal
<1>4. CASE GoalRetried
  <2>1. PICK r \in Content :
          /\ Busy /\ Becomes(Current, r) /\ UNCHANGED <<server, listed, script>>
          /\ step' = step /\ r = Broken
    BY <1>4, Contents DEF GoalRetried, Fails
  <2> SUFFICES ASSUME script = "install", NEW i \in step' .. Len(Scripts[script]),
                      Creates(Scripts[script][i])', ~Overwritable(Scripts[script][i].on)
               PROVE  LET g == Scripts[script][i]
                      IN  g.on \notin data' /\ db'[g.on] \in {Absent, Broken}
    BY <2>1 DEF Spared, Overwritable
  <2>2. i \in step .. Len(Scripts[script])
    BY <2>1, CurrentGoal
  <2>3. Creates(Scripts[script][i])
    BY <2>1 DEF Creates
  <2> QED
    BY <2>1, <2>2, <2>3, SparedGoal
<1>5. CASE GoalMissed
  <2>1. PICK r \in Content :
          /\ Busy /\ Becomes(Current, r) /\ UNCHANGED <<server, listed, script>>
          /\ step' = step + 1
    BY <1>5, Contents DEF GoalMissed, Fails, Continue
  <2> SUFFICES ASSUME script = "install", NEW i \in step' .. Len(Scripts[script]),
                      Creates(Scripts[script][i])', ~Overwritable(Scripts[script][i].on)
               PROVE  LET g == Scripts[script][i]
                      IN  g.on \notin data' /\ db'[g.on] \in {Absent, Broken}
    BY <2>1 DEF Spared, Overwritable
  <2>2. i \in step .. Len(Scripts[script]) /\ i # step
    BY <2>1, CurrentGoal
  <2>3. Creates(Scripts[script][i])
    BY <2>1 DEF Creates
  <2> QED
    BY <2>1, <2>2, <2>3, SparedGoal
<1>6. CASE GoalAborts \/ Finish
  BY <1>6 DEF GoalAborts, Finish, Leave, Spared
<1>7. CASE Checkout \/ Service \/ StopFails
  BY <1>7, SparedFrame DEF Checkout, Service, StopFails, Continue, installed
<1> QED
  BY <1>1, <1>2, <1>3, <1>4, <1>5, <1>6, <1>7 DEF Next

(* setup.sh destroys no data but in the databases that its list cannot show. *)
THEOREM LostHolds == Spec => LostOnlyUnlisted
<1>1. ASSUME DpTypeOK, DeployInv, KeptInv, [Next]_vars
      PROVE  (script = "install" => \A d \in data \ data' : Overwritable(d)) /\ KeptInv'
  <2>1. KeptInv'
    BY <1>1, DataKept, SparedKept DEF DeployInv, KeptInv
  <2>2. CASE GoalSucceeds \/ Fails
    <3> SUFFICES ASSUME script = "install"
                 PROVE  \A d \in data \ data' : Overwritable(d)
      BY <2>1
    <3>1. Busy /\ \E r \in Content : Becomes(Current, r)
      BY <1>1, <2>2, Contents DEF GoalSucceeds, Fails, DpTypeOK
    <3>2. Creates(Current) => Current.on \notin data \/ Overwritable(Current.on)
      BY <1>1, <3>1, CurrentGoal DEF KeptInv, Spared
    <3> QED
      BY <3>1, <3>2 DEF Becomes
  <2> QED
    BY <1>1, <2>1, <2>2, OnlyGoals
<1>2. Init => KeptInv
  BY Contents DEF Init, KeptInv, DataThere, Spared
<1>3. DpTypeOK /\ DeployInv /\ KeptInv /\ [Next]_vars => KeptInv'
  BY <1>1
<1>4. DpTypeOK /\ DeployInv /\ KeptInv /\ [Next]_vars =>
        [script = "install" => \A d \in data \ data' : Overwritable(d)]_vars
  BY <1>1
<1> QED
  BY <1>2, <1>3, <1>4, DeployHolds, PTL DEF Spec, LostOnlyUnlisted
=============================================================================
