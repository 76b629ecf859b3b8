--------------------------- MODULE CatalinaProofs ---------------------------
(* Theorems about Catalina: runs of catalina.sh that follow each other keep
   one tomcat and its name, for any number of runs and process numbers and
   any waiting times. *)
EXTENDS Catalina, TLAPS

(* Until two runs have overlapped one is busy at most. *)
OneRun == calm => \A c, d \in Command : pc[c] # "idle" /\ pc[d] # "idle" => c = d

(* Where a run knows that there is no tomcat: it is about to start one, or it
   has seen that the file names no process. *)
Sure == {"clear", "launch", "remove", "unlink"}
NoneThere ==
    calm => \A c \in Command : pc[c] \in Sure => \A p \in Pid : proc[p] \notin Tomcat

(* Only between launch and record is there a tomcat that the file does not name. *)
FileNames ==
    calm /\ (\A c \in Command : pc[c] # "record") =>
        \A p \in Pid : proc[p] \in Tomcat => file = p
RecordNames ==
    calm => \A c \in Command : pc[c] = "record" =>
        \A p \in Pid : proc[p] \in Tomcat => p = pid[c]

(* A start that has launched java has its number. *)
Launched == \A c \in Command : pc[c] = "record" => pid[c] \in Pid

CtInv == CtTypeOK /\ Launched /\ OneRun /\ NoneThere /\ FileNames /\ RecordNames

-----------------------------------------------------------------------------
(* The initial states. *)
LEMMA CtStarts == ASSUME CatalinaAssumption, Init PROVE CtInv
<1> USE CatalinaAssumption DEF CatalinaAssumption, Init
<1>1. CtTypeOK
  BY DEF CtTypeOK, Starting, Stopping, Tomcat, None, Empty
<1>2. Launched /\ OneRun /\ NoneThere /\ RecordNames
  BY DEF Launched, OneRun, NoneThere, RecordNames, Sure
<1>3. FileNames
  BY DEF FileNames, Tomcat
<1> QED
  BY <1>1, <1>2, <1>3 DEF CtInv

-----------------------------------------------------------------------------
LocalTypes ==
    /\ pc \in [Command -> Starting \cup Stopping \cup {"idle"}]
    /\ pid \in [Command -> Pid \cup {None, Empty}]
    /\ force \in [Command -> BOOLEAN]
    /\ left \in [Command -> Int]
    /\ \A c \in Command : left[c] >= 0

(* A run that ends leaves nothing behind. *)
LEMMA ExitTyped == ASSUME NEW c \in Command, CtTypeOK, Exit(c) PROVE LocalTypes'
<1> USE DEF CtTypeOK, Exit, Go
<1>1. \A d \in Command : left'[d] = IF d = c THEN 0 ELSE left[d]
  OBVIOUS
<1>2. left' \in [Command -> Int] /\ \A d \in Command : left'[d] >= 0
  BY <1>1
<1>3. pc' \in [Command -> Starting \cup Stopping \cup {"idle"}]
  OBVIOUS
<1>4. pid' \in [Command -> Pid \cup {None, Empty}]
  OBVIOUS
<1>5. force' \in [Command -> BOOLEAN]
  OBVIOUS
<1> QED
  BY <1>2, <1>3, <1>4, <1>5 DEF LocalTypes

(* Every step keeps the types. *)
LEMMA CtTypeKept ==
    ASSUME CatalinaAssumption, CtTypeOK, Launched, [Next]_vars PROVE CtTypeOK'
<1> USE CatalinaAssumption DEF CatalinaAssumption, CtTypeOK, Starting, Stopping, Tomcat, At, Go,
        Exit, local, Cleared, None, Empty
<1>1. ASSUME NEW c \in Command, Begin(c) PROVE CtTypeOK'
  BY <1>1 DEF Begin, Idle
<1>2. ASSUME NEW c \in Command, Start(c) PROVE CtTypeOK'
  <2>1. CASE Check(c)
    <3>1. CASE Exit(c)
      BY <2>1, <3>1, ExitTyped DEF Check, LocalTypes
    <3>2. CASE UNCHANGED local
      BY <2>1, <3>2 DEF Check
    <3> QED
      BY <2>1, <3>1, <3>2 DEF Check
  <2>2. CASE Clear(c)
    BY <2>2 DEF Clear
  <2>3. CASE Launch(c)
    BY <2>3 DEF Launch
  <2>4. CASE Record(c)
    BY <2>4, None \notin Pid DEF Record, Launched
  <2> QED
    BY <1>2, <2>1, <2>2, <2>3, <2>4 DEF Start
<1>3. ASSUME NEW c \in Command, Stop(c) PROVE CtTypeOK'
  <2>1. CASE Look(c)
    <3>1. CASE Exit(c)
      BY <2>1, <3>1, ExitTyped DEF Look, LocalTypes
    <3>2. CASE UNCHANGED local
      BY <2>1, <3>2 DEF Look
    <3> QED
      BY <2>1, <3>1, <3>2 DEF Look
  <2>2. CASE Shutdown(c)
    BY <2>2 DEF Shutdown
  <2>3. CASE Signal(c)
    BY <2>3 DEF Signal, Alive
  <2>4. CASE Wait(c)
    BY <2>4 DEF Wait
  <2>5. CASE Remove(c)
    BY <2>5 DEF Remove
  <2>6. CASE Reread(c)
    <3>1. CASE Exit(c)
      BY <2>6, <3>1, ExitTyped DEF Reread, LocalTypes
    <3>2. CASE UNCHANGED <<force, left>>
      BY <2>6, <3>2 DEF Reread
    <3> QED
      BY <2>6, <3>1, <3>2 DEF Reread
  <2>7. CASE Kill(c)
    BY <2>7 DEF Kill
  <2>8. CASE Reap(c)
    <3>1. CASE Exit(c)
      BY <2>8, <3>1, ExitTyped DEF Reap, LocalTypes
    <3>2. CASE UNCHANGED <<pid, force>>
      BY <2>8, <3>2 DEF Reap
    <3> QED
      BY <2>8, <3>1, <3>2 DEF Reap
  <2>9. CASE Unlink(c)
    BY <2>9 DEF Unlink
  <2> QED
    BY <1>3, <2>1, <2>2, <2>3, <2>4, <2>5, <2>6, <2>7, <2>8, <2>9 DEF Stop
<1>4. ASSUME NEW c \in Command, CutShort(c) PROVE CtTypeOK'
  BY <1>4, ExitTyped DEF CutShort, LocalTypes
<1>5. ASSUME NEW p \in Pid, Ready(p) \/ Ends(p) \/ Dies(p) \/ Reused(p) PROVE CtTypeOK'
  BY <1>5 DEF Ready, Ends, Dies, Reused
<1>6. CASE UNCHANGED vars
  BY <1>6 DEF vars
<1> QED
  BY <1>1, <1>2, <1>3, <1>4, <1>5, <1>6 DEF Next

-----------------------------------------------------------------------------
(* What the runs know of each other and of tomcat. *)
Known == Launched /\ OneRun /\ NoneThere /\ FileNames /\ RecordNames

(* In calm times all runs but the one that is busy are idle, before and after
   its step. *)
LEMMA OthersIdle ==
    ASSUME CtTypeOK, OneRun, calm, NEW c \in Command, pc[c] # "idle",
           \E there \in Starting \cup Stopping \cup {"idle"} : Go(c, there)
    PROVE  \A d \in Command : d # c => pc[d] = "idle" /\ pc'[d] = "idle"
BY DEF CtTypeOK, OneRun, Go

(* What the busy run knows, by where it is. *)
NoTomcat == \A p \in Pid : proc[p] \notin Tomcat
Named == \A p \in Pid : proc[p] \in Tomcat => file = p
KnownAt(c) ==
    /\ pc[c] \in Sure => NoTomcat
    /\ pc[c] # "record" => Named
    /\ pc[c] = "record" => pid[c] \in Pid /\ \A p \in Pid : proc[p] \in Tomcat => p = pid[c]

(* Before its step the busy run knows what the invariant says... *)
LEMMA KnownBefore ==
    ASSUME Known, calm, NEW c \in Command, \A d \in Command : d # c => pc[d] = "idle"
    PROVE  KnownAt(c)
BY DEF Known, Launched, NoneThere, FileNames, RecordNames, KnownAt, NoTomcat, Named

(* ... and what it knows after it is all there is to know. *)
LEMMA KnownAfter ==
    ASSUME NEW c \in Command, KnownAt(c)', \A d \in Command : d # c => pc'[d] = "idle"
    PROVE  Known'
BY DEF Known, Launched, OneRun, NoneThere, FileNames, RecordNames, KnownAt, NoTomcat, Named, Sure

(* Where the file names no process there is no tomcat that it names. *)
LEMMA DeadMeansNone == ASSUME CatalinaAssumption, Named, ~Alive PROVE NoTomcat
BY DEF CatalinaAssumption, Named, Alive, NoTomcat, Tomcat

(* Once runs have overlapped, all that is left to show is about the numbers. *)
LEMMA NoCalm == ASSUME ~calm', Launched' PROVE Known'
BY DEF Known, OneRun, NoneThere, FileNames, RecordNames

-----------------------------------------------------------------------------
(* A start keeps what is known. *)
LEMMA StartKeeps ==
    ASSUME CatalinaAssumption, CtInv, NEW c \in Command, Start(c) PROVE Known'
<1> USE DEF CtInv, At
<1>1. calm' = calm
  BY DEF Start, Check, Clear, Launch, Record
<1>2. CASE ~calm
  <2>1. Launched'
    BY DEF Start, Check, Clear, Launch, Record, Launched, CtTypeOK, Go, Exit, local, Starting, Stopping
  <2> QED
    BY <1>1, <1>2, <2>1, NoCalm
<1>3. CASE calm
  <2>1. pc[c] # "idle" /\ \E there \in Starting \cup Stopping \cup {"idle"} : Go(c, there)
    BY DEF Start, Check, Clear, Launch, Record, Exit, Starting, Stopping
  <2>2. \A d \in Command : d # c => pc[d] = "idle" /\ pc'[d] = "idle"
    BY <1>3, <2>1, OthersIdle
  <2>3. KnownAt(c)
    BY <1>3, <2>2, KnownBefore DEF Known
  <2>4. KnownAt(c)'
    <3> USE DEF Go, CtTypeOK
    <3>1. CASE Check(c)
      <4>1. Named /\ Named'
        BY <2>3, <3>1 DEF Check, KnownAt, Named
      <4>2. CASE Alive /\ Exit(c)
        BY <4>1, <4>2 DEF KnownAt, Exit, Sure
      <4>3. CASE ~Alive /\ Go(c, "clear")
        BY <3>1, <4>1, <4>3, DeadMeansNone DEF KnownAt, NoTomcat, Check
      <4>4. CASE file = None /\ Go(c, "launch")
        <5>1. NoTomcat
          BY <4>1, <4>4 DEF NoTomcat, Named, CatalinaAssumption
        <5> QED
          BY <3>1, <4>1, <4>4, <5>1 DEF KnownAt, NoTomcat, Check
      <4> QED
        BY <3>1, <4>2, <4>3, <4>4 DEF Check
    <3>2. CASE Clear(c)
      BY <2>3, <3>2 DEF Clear, KnownAt, Sure, NoTomcat, Named
    <3>3. CASE Launch(c)
      BY <2>3, <3>3 DEF Launch, KnownAt, Sure, NoTomcat
    <3>4. CASE Record(c)
      BY <2>3, <3>4 DEF Record, Exit, KnownAt, Sure, Named
    <3> QED
      BY <3>1, <3>2, <3>3, <3>4 DEF Start
  <2> QED
    BY <2>2, <2>4, KnownAfter
<1> QED
  BY <1>2, <1>3 DEF CtTypeOK

(* A stop does, too. *)
LEMMA StopKeeps ==
    ASSUME CatalinaAssumption, CtInv, NEW c \in Command, Stop(c) PROVE Known'
<1> USE DEF CtInv, At
<1>1. calm' = calm
  BY DEF Stop, Look, Shutdown, Signal, Wait, Remove, Reread, Kill, Reap, Unlink
<1>2. pc[c] \in Stopping
  BY DEF Stop, Look, Shutdown, Signal, Wait, Remove, Reread, Kill, Reap, Unlink, Stopping
<1>3. \/ UNCHANGED pc
      \/ \E there \in {"shutdown", "signal", "wait", "remove", "force", "kill", "reap", "unlink", "idle"} :
            Go(c, there)
  BY DEF Stop, Look, Shutdown, Signal, Wait, Remove, Reread, Kill, Reap, Unlink, Exit
<1>4. \A d \in Command : d # c => pc'[d] = pc[d] /\ pid'[d] = pid[d]
  BY DEF Stop, Look, Shutdown, Signal, Wait, Remove, Reread, Kill, Reap, Unlink, Exit, Go, local, CtTypeOK
<1>5. pc'[c] # "record"
  BY <1>2, <1>3 DEF Go, CtTypeOK, Stopping
<1>6. CASE ~calm
  <2>1. Launched'
    BY <1>4, <1>5 DEF Launched
  <2> QED
    BY <1>1, <1>6, <2>1, NoCalm
<1>7. CASE calm
  <2>1. \A d \in Command : d # c => pc[d] = "idle" /\ pc'[d] = "idle"
    BY <1>2, <1>4, <1>7 DEF OneRun, Stopping
  <2>2. KnownAt(c)
    BY <1>7, <2>1, KnownBefore DEF Known
  <2>3. Named
    BY <1>2, <2>2 DEF KnownAt, Stopping
  <2>4. pc[c] \in {"remove", "unlink"} => NoTomcat
    BY <2>2 DEF KnownAt, Sure
  <2>5. (pc'[c] \in Sure => NoTomcat') /\ Named'
    <3> USE DEF Go, CtTypeOK
    <3>1. ASSUME UNCHANGED <<file, proc>>, pc'[c] \in Sure => ~Alive
          PROVE  (pc'[c] \in Sure => NoTomcat') /\ Named'
      BY <2>3, <3>1, DeadMeansNone DEF NoTomcat, Named
    <3>2. ASSUME UNCHANGED file, pc'[c] \notin Sure,
                 \A p \in Pid : proc'[p] \in Tomcat => proc[p] \in Tomcat
          PROVE  (pc'[c] \in Sure => NoTomcat') /\ Named'
      BY <2>3, <3>2 DEF Named
    <3>3. ASSUME NoTomcat, UNCHANGED proc, pc'[c] \notin Sure
          PROVE  (pc'[c] \in Sure => NoTomcat') /\ Named'
      BY <3>3 DEF NoTomcat, Named
    <3>4. CASE Look(c)
      BY <3>1, <3>4 DEF Look, Exit, Sure
    <3>5. CASE Shutdown(c)
      BY <3>2, <3>5 DEF Shutdown, Sure, Tomcat
    <3>6. CASE Signal(c)
      BY <3>2, <3>6 DEF Signal, Alive, Sure, Tomcat
    <3>7. CASE Wait(c)
      BY <3>1, <3>7 DEF Wait, Sure
    <3>8. CASE Remove(c)
      BY <2>4, <3>3, <3>8 DEF Remove, Sure
    <3>9. CASE Reread(c)
      BY <3>1, <3>9 DEF Reread, Exit, Sure
    <3>10. CASE Kill(c)
      BY <3>2, <3>10 DEF Kill, Sure, Tomcat
    <3>11. CASE Reap(c)
      BY <3>1, <3>11 DEF Reap, Exit, Sure
    <3>12. CASE Unlink(c)
      BY <2>4, <3>3, <3>12 DEF Unlink, Exit, Sure
    <3> QED
      BY <3>4, <3>5, <3>6, <3>7, <3>8, <3>9, <3>10, <3>11, <3>12 DEF Stop
  <2>6. KnownAt(c)'
    BY <1>5, <2>5 DEF KnownAt
  <2> QED
    BY <2>1, <2>6, KnownAfter
<1> QED
  BY <1>6, <1>7 DEF CtTypeOK

(* So do the beginning of a run, an end before its time, and what happens
   beside the script. *)
LEMMA OthersKeep ==
    ASSUME CatalinaAssumption, CtInv,
           \/ \E c \in Command : Begin(c) \/ CutShort(c)
           \/ \E p \in Pid : Ready(p) \/ Ends(p) \/ Dies(p) \/ Reused(p)
           \/ UNCHANGED vars
    PROVE  Known'
<1> USE DEF CtInv, At
<1>1. ASSUME NEW c \in Command, Begin(c) PROVE Known'
  <2>1. /\ pc'[c] \in {"check", "look"} /\ UNCHANGED <<file, proc, pid>>
        /\ \A d \in Command : d # c => pc'[d] = pc[d]
    BY <1>1 DEF Begin, Go, CtTypeOK
  <2>2. Launched'
    BY <2>1 DEF Launched
  <2>3. CASE ~calm'
    BY <2>2, <2>3, NoCalm
  <2>4. CASE calm'
    <3>1. calm /\ \A d \in Command : pc[d] = "idle"
      BY <1>1, <2>4 DEF Begin, Idle
    <3>2. Named
      BY <3>1 DEF FileNames, Named
    <3>3. KnownAt(c)'
      BY <2>1, <3>2 DEF KnownAt, Named, Sure
    <3>4. \A d \in Command : d # c => pc'[d] = "idle"
      BY <2>1, <3>1
    <3> QED
      BY <3>3, <3>4, KnownAfter
  <2> QED
    BY <2>3, <2>4
<1>2. ASSUME NEW c \in Command, CutShort(c) PROVE Known'
  <2>1. Launched'
    BY <1>2 DEF CutShort, Exit, Go, Launched, CtTypeOK
  <2>2. ~calm'
    BY <1>2 DEF CutShort
  <2> QED
    BY <2>1, <2>2, NoCalm
<1>3. ASSUME NEW p \in Pid, Ready(p) \/ Ends(p) \/ Dies(p) \/ Reused(p) PROVE Known'
  <2>1. UNCHANGED <<file, pc, pid, calm>>
    BY <1>3 DEF Ready, Ends, Dies, Reused, local
  <2>2. \A q \in Pid : proc'[q] \in Tomcat => proc[q] \in Tomcat
    BY <1>3 DEF Ready, Ends, Dies, Reused, Tomcat, CtTypeOK
  <2> QED
    BY <2>1, <2>2 DEF Known, Launched, OneRun, NoneThere, FileNames, RecordNames
<1>4. CASE UNCHANGED vars
  BY <1>4 DEF vars, local, Known, Launched, OneRun, NoneThere, FileNames, RecordNames
<1> QED
  BY <1>1, <1>2, <1>3, <1>4

(* Every step keeps the invariant. *)
LEMMA CtInvKept == ASSUME CatalinaAssumption, CtInv, [Next]_vars PROVE CtInv'
<1>1. CtTypeOK'
  BY CtTypeKept DEF CtInv
<1>2. Known'
  BY StartKeeps, StopKeeps, OthersKeep DEF Next
<1> QED
  BY <1>1, <1>2 DEF CtInv, Known

(* The inductive invariant holds always. *)
LEMMA CtInvHolds == Spec => []CtInv
<1>1. Init => CtInv
  BY CatalinaAssumption, CtStarts
<1>2. CtInv /\ [Next]_vars => CtInv'
  BY CatalinaAssumption, CtInvKept
<1> QED
  BY <1>1, <1>2, PTL DEF Spec

-----------------------------------------------------------------------------
(* Every variable of the script's state stays in its type. *)
THEOREM CtTypeCorrect == Spec => []CtTypeOK
<1>1. CtInv => CtTypeOK
  BY DEF CtInv
<1> QED
  BY <1>1, CtInvHolds, PTL

(* Runs of catalina.sh that follow each other never have two tomcats at a
   time: a start finds the one that is there, or there is none. *)
THEOREM OneTomcatHolds == Spec => []OneTomcat
<1>1. CtInv => OneTomcat
  <2> SUFFICES ASSUME CtInv, calm, NEW p \in Pid, NEW q \in Pid,
                      proc[p] \in Tomcat, proc[q] \in Tomcat
               PROVE  p = q
    BY DEF OneTomcat
  <2>1. CASE \E c \in Command : pc[c] = "record"
    BY <2>1 DEF CtInv, RecordNames
  <2>2. CASE ~\E c \in Command : pc[c] = "record"
    BY <2>2 DEF CtInv, FileNames
  <2> QED
    BY <2>1, <2>2
<1> QED
  BY <1>1, CtInvHolds, PTL

(* Between such runs $CATALINA_PID names the tomcat that is there. *)
THEOREM NamedHolds == Spec => []NamedWhenUp
<1>1. CtInv => NamedWhenUp
  BY DEF CtInv, FileNames, NamedWhenUp, Idle, At
<1> QED
  BY <1>1, CtInvHolds, PTL
=============================================================================
