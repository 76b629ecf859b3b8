------------------------- MODULE ServiceAdminProofs -------------------------
(***************************************************************************)
(* Theorems about ServiceAdmin, for any number of commands at a time: the   *)
(* types; that commands that follow each other keep the service manager's   *)
(* entry and the settings together; and that an update that runs alone      *)
(* changes both and, with ++, loses no option.                              *)
(***************************************************************************)
EXTENDS ServiceAdmin, TLAPS

(* What a command knows of itself. *)
LocalTypes ==
    /\ do \in [Command -> Doing]
    /\ add \in [Command -> BOOLEAN]
    /\ seen \in [Command -> SUBSET Command]
    /\ mark \in [Command -> 0 .. MaxPoint]
    /\ alone \in [Command -> BOOLEAN]

PcTypes ==
    /\ pc \in [Command -> Ended \cup {"load", "open", "create", "names", "options",
                  "save", "query", "control", "wait", "settle", "delete", "erase"}]
    /\ opened \in [Command -> BOOLEAN]
    /\ quiet \in BOOLEAN

(* Where a command can be follows from what it does. *)
DoAt ==
    \A c \in Command :
        /\ pc[c] = "load" => do[c] \in {"start", "stop", "update"}
        /\ pc[c] = "open" => do[c] # "install"
        /\ pc[c] = "create" => do[c] = "install"
        /\ pc[c] \in {"names", "save"} => do[c] \in {"install", "update"}
        /\ pc[c] = "options" => do[c] = "update"
        /\ pc[c] \in {"query", "delete", "erase"} => do[c] = "delete"
        /\ pc[c] \in {"control", "wait", "settle"} => do[c] \in {"start", "stop", "delete"}

(* An update that has opened the service keeps it open: it cannot vanish. *)
OpenedAt ==
    \A c \in Command :
        pc[c] \in {"names", "options", "save"} /\ do[c] = "update" => opened[c]

(* Who runs alone does. *)
AloneOnly == \A b, c \in Command : Busy(b) /\ Busy(c) /\ alone[c] => b = c

(* What an update that runs alone knows of the stores. *)
AloneKnows ==
    \A c \in Command : do[c] = "update" /\ alone[c] =>
        /\ pc[c] \in {"options", "save"} => entry.user = c
        /\ pc[c] \in {"open", "names", "options", "save"} /\ add[c] /\ Loadable =>
               reg.options \subseteq seen[c]

(* The two stores agree, but while a service is being installed or erased. *)
Together == (entry.is = "present" <=> Loadable) /\ (reg.key => Loadable)
Installs(c) == pc[c] \in {"names", "save"} /\ do[c] = "install"
Erases(c) == pc[c] = "erase"

QuietInv ==
    /\ \A b, c \in Command : Busy(b) /\ Busy(c) => b = c
    /\ \A c \in Command : pc[c] \in {"options", "save"} => entry.is = "present"
    /\ \A c \in Command : Installs(c) => entry.is = "present" /\ ~entry.params /\ ~reg.key
    /\ \A c \in Command : Erases(c) => entry.is # "present"
    /\ (\A c \in Command : ~Installs(c) /\ ~Erases(c)) => Together

SaInv == SaTypeOK /\ DoAt /\ OpenedAt /\ AloneOnly /\ AloneKnows /\ (quiet => QuietInv)

-----------------------------------------------------------------------------
(* Types *)

(* The settings are a record, whether there is a key or not. *)
LEMMA RegType ==
  ASSUME StoreTypes
  PROVE  reg.key \in BOOLEAN /\ reg.options \in SUBSET Command /\ (~reg.key => reg.options =
      {})
<1>1. CASE reg = NoKey
  BY <1>1 DEF NoKey
<1>2. ASSUME NEW o \in SUBSET Command, reg = Key(o)
      PROVE  reg.key /\ reg.options = o
  BY <1>2 DEF Key
<1> QED
  BY <1>1, <1>2 DEF StoreTypes, NoKey

(* What a command knows keeps its type when it goes on and when it ends. *)
LEMMA LocalKept ==
  ASSUME ServiceAdminAssumption, LocalTypes, NEW c \in Command, Forget(c) \/ UNCHANGED local
  PROVE  LocalTypes'
<1> USE DEF ServiceAdminAssumption, LocalTypes, Forget, local
<1>1. do' \in [Command -> Doing]
  BY DEF Doing
<1>2. add' \in [Command -> BOOLEAN]
  OBVIOUS
<1>3. seen' \in [Command -> SUBSET Command]
  OBVIOUS
<1>4. mark' \in [Command -> 0 .. MaxPoint]
  OBVIOUS
<1>5. alone' \in [Command -> BOOLEAN]
  OBVIOUS
<1> QED
  BY <1>1, <1>2, <1>3, <1>4, <1>5

(* The stores. *)
LEMMA StoresKept ==
  ASSUME ServiceAdminAssumption, SaTypeOK, [Next]_vars PROVE StoreTypes'
<1> USE DEF SaTypeOK, StoreTypes, CommandTypes, HeldOpen, At, Go, Goes, Opened, Forget,
    local, service, Busy, Ended, ServiceAdminAssumption, Pending, Absent
<1>1. ASSUME NEW c \in Command, Load(c) PROVE StoreTypes'
  BY <1>1 DEF Load, Fail, Done
<1>2. ASSUME NEW c \in Command, Open(c) PROVE StoreTypes'
  BY <1>2 DEF Open, Fail, Done
<1>3. ASSUME NEW c \in Command, Create(c) PROVE StoreTypes'
  BY <1>3 DEF Create, Fail, Done
<1>4. ASSUME NEW c \in Command, Names(c) PROVE StoreTypes'
  BY <1>4 DEF Names, Named, Fail, Done, PassedOver
<1>5. ASSUME NEW c \in Command, Options(c) PROVE StoreTypes'
  BY <1>5 DEF Options, Fail, Done
<1>6. ASSUME NEW c \in Command, Save(c) PROVE StoreTypes'
  <2>1. reg' = Key(seen[c] \cup {c}) \/ reg' = reg \/ reg' = Key(reg.options)
    BY <1>6 DEF Save
  <2>2. seen[c] \cup {c} \in SUBSET Command /\ reg.options \in SUBSET Command
    BY RegType
  <2>3. reg' \in {NoKey} \cup {Key(o) : o \in SUBSET Command}
    BY <2>1, <2>2
  <2> QED
    BY <1>6, <2>3, ZenonT(30) DEF Save, Fail, Done, PassedOver
<1>7. ASSUME NEW c \in Command, Query(c) PROVE StoreTypes'
  BY <1>7 DEF Query, Fail, Done
<1>8. ASSUME NEW c \in Command, Control(c) PROVE StoreTypes'
  BY <1>8 DEF Control, Awaited
<1>9. ASSUME NEW c \in Command, Wait(c) PROVE StoreTypes'
  BY <1>9 DEF Wait, Progress
<1>10. ASSUME NEW c \in Command, Settle(c) PROVE StoreTypes'
  BY <1>10 DEF Settle, Done
<1>11. ASSUME NEW c \in Command, Delete(c) PROVE StoreTypes'
  BY <1>11 DEF Delete, Marked, Fail, Done
<1>12. ASSUME NEW c \in Command, Erase(c) PROVE StoreTypes'
  BY <1>12 DEF Erase, Done, PassedOver
<1>13. ASSUME NEW c \in Command, CutShort(c) PROVE StoreTypes'
  BY <1>13 DEF CutShort, Fail, Done, PassedOver
<1>14. ASSUME NEW c \in Command, NEW d \in Doing, Begin(c, d) PROVE StoreTypes'
  BY <1>14 DEF Begin
<1>15. CASE Vanish
  BY <1>15 DEF Vanish
<1>16. CASE Report
  BY <1>16 DEF Report
<1>17. CASE Become
  BY <1>17 DEF Become
<1>18. CASE UNCHANGED vars
  BY <1>18 DEF vars
<1> QED
  BY <1>1, <1>2, <1>3, <1>4, <1>5, <1>6, <1>7, <1>8, <1>9, <1>10, <1>11, <1>12,
     <1>13, <1>14, <1>15, <1>16, <1>17, <1>18
    DEF Next, Step

(* The commands. *)
LEMMA LocalsKept ==
  ASSUME ServiceAdminAssumption, SaTypeOK, LocalTypes, PcTypes, [Next]_vars
  PROVE  (LocalTypes /\ PcTypes)'
<1> USE DEF At, Go, Goes, Opened, local, service, Busy, Ended, PcTypes
<1>1. ASSUME NEW c \in Command, Load(c) PROVE (LocalTypes /\ PcTypes)'
  <2>1. PcTypes'
    BY <1>1 DEF Load, Fail, Done
  <2>2. do' \in [Command -> Doing]
    BY <1>1 DEF Load, Fail, Done, LocalTypes, Forget, Doing
  <2>3. add' \in [Command -> BOOLEAN]
    BY <1>1 DEF Load, Fail, Done, LocalTypes, Forget
  <2>4. seen' \in [Command -> SUBSET Command]
    BY <1>1, RegType DEF Load, Fail, Done, LocalTypes, Forget, SaTypeOK
  <2>5. mark' \in [Command -> 0 .. MaxPoint]
    BY <1>1 DEF Load, Fail, Done, LocalTypes, Forget
  <2>6. alone' \in [Command -> BOOLEAN]
    BY <1>1 DEF Load, Fail, Done, LocalTypes, Forget
  <2> QED
    BY <2>1, <2>2, <2>3, <2>4, <2>5, <2>6 DEF LocalTypes
<1>2. ASSUME NEW c \in Command, Open(c) PROVE (LocalTypes /\ PcTypes)'
  <2>1. PcTypes'
    BY <1>2 DEF Open, Fail, Done
  <2>2. do' \in [Command -> Doing]
    BY <1>2 DEF Open, Fail, Done, LocalTypes, Forget, Doing
  <2>3. add' \in [Command -> BOOLEAN]
    BY <1>2 DEF Open, Fail, Done, LocalTypes, Forget
  <2>4. seen' \in [Command -> SUBSET Command]
    BY <1>2 DEF Open, Fail, Done, LocalTypes, Forget
  <2>5. mark' \in [Command -> 0 .. MaxPoint]
    BY <1>2 DEF Open, Fail, Done, LocalTypes, Forget
  <2>6. alone' \in [Command -> BOOLEAN]
    BY <1>2 DEF Open, Fail, Done, LocalTypes, Forget
  <2> QED
    BY <2>1, <2>2, <2>3, <2>4, <2>5, <2>6 DEF LocalTypes
<1>3. ASSUME NEW c \in Command, Create(c) PROVE (LocalTypes /\ PcTypes)'
  <2>1. Forget(c) \/ UNCHANGED local
    BY <1>3 DEF Create, Fail, Done
  <2>2. PcTypes'
    BY <1>3 DEF Create, Fail, Done
  <2> QED
    BY <2>1, <2>2, LocalKept
<1>4. ASSUME NEW c \in Command, Names(c) PROVE (LocalTypes /\ PcTypes)'
  <2>1. Forget(c) \/ UNCHANGED local
    BY <1>4 DEF Names, Named, Fail, Done, PassedOver
  <2>2. PcTypes'
    BY <1>4 DEF Names, Named, Fail, Done, PassedOver
  <2> QED
    BY <2>1, <2>2, LocalKept
<1>5. ASSUME NEW c \in Command, Options(c) PROVE (LocalTypes /\ PcTypes)'
  <2>1. Forget(c) \/ UNCHANGED local
    BY <1>5 DEF Options, Fail, Done
  <2>2. PcTypes'
    BY <1>5 DEF Options, Fail, Done
  <2> QED
    BY <2>1, <2>2, LocalKept
<1>6. ASSUME NEW c \in Command, Save(c) PROVE (LocalTypes /\ PcTypes)'
  <2>1. Forget(c) \/ UNCHANGED local
    BY <1>6 DEF Save, Fail, Done, PassedOver
  <2>2. PcTypes'
    BY <1>6 DEF Save, Fail, Done, PassedOver
  <2> QED
    BY <2>1, <2>2, LocalKept
<1>7. ASSUME NEW c \in Command, Query(c) PROVE (LocalTypes /\ PcTypes)'
  <2>1. Forget(c) \/ UNCHANGED local
    BY <1>7 DEF Query, Fail, Done
  <2>2. PcTypes'
    BY <1>7 DEF Query, Fail, Done
  <2> QED
    BY <2>1, <2>2, LocalKept
<1>8. ASSUME NEW c \in Command, Control(c) PROVE (LocalTypes /\ PcTypes)'
  <2>1. Forget(c) \/ UNCHANGED local
    BY <1>8 DEF Control, Awaited
  <2>2. PcTypes'
    BY <1>8 DEF Control, Awaited
  <2> QED
    BY <2>1, <2>2, LocalKept
<1>9. ASSUME NEW c \in Command, Wait(c) PROVE (LocalTypes /\ PcTypes)'
  <2>1. PcTypes'
    BY <1>9 DEF Wait, Progress
  <2>2. do' \in [Command -> Doing]
    BY <1>9 DEF Wait, Progress, LocalTypes, Forget, SaTypeOK, StoreTypes
  <2>3. add' \in [Command -> BOOLEAN]
    BY <1>9 DEF Wait, Progress, LocalTypes, Forget, SaTypeOK, StoreTypes
  <2>4. seen' \in [Command -> SUBSET Command]
    BY <1>9 DEF Wait, Progress, LocalTypes, Forget, SaTypeOK, StoreTypes
  <2>5. mark' \in [Command -> 0 .. MaxPoint]
    BY <1>9 DEF Wait, Progress, LocalTypes, Forget, SaTypeOK, StoreTypes
  <2>6. alone' \in [Command -> BOOLEAN]
    BY <1>9 DEF Wait, Progress, LocalTypes, Forget, SaTypeOK, StoreTypes
  <2> QED
    BY <2>1, <2>2, <2>3, <2>4, <2>5, <2>6 DEF LocalTypes
<1>10. ASSUME NEW c \in Command, Settle(c) PROVE (LocalTypes /\ PcTypes)'
  <2>1. Forget(c) \/ UNCHANGED local
    BY <1>10 DEF Settle, Done
  <2>2. PcTypes'
    BY <1>10 DEF Settle, Done
  <2> QED
    BY <2>1, <2>2, LocalKept
<1>11. ASSUME NEW c \in Command, Delete(c) PROVE (LocalTypes /\ PcTypes)'
  <2>1. Forget(c) \/ UNCHANGED local
    BY <1>11 DEF Delete, Marked, Fail, Done
  <2>2. PcTypes'
    BY <1>11 DEF Delete, Marked, Fail, Done
  <2> QED
    BY <2>1, <2>2, LocalKept
<1>12. ASSUME NEW c \in Command, Erase(c) PROVE (LocalTypes /\ PcTypes)'
  <2>1. Forget(c) \/ UNCHANGED local
    BY <1>12 DEF Erase, Done, PassedOver
  <2>2. PcTypes'
    BY <1>12 DEF Erase, Done, PassedOver
  <2> QED
    BY <2>1, <2>2, LocalKept
<1>13. ASSUME NEW c \in Command, CutShort(c) PROVE (LocalTypes /\ PcTypes)'
  <2>1. Forget(c) \/ UNCHANGED local
    BY <1>13 DEF CutShort, Fail, Done, PassedOver
  <2>2. PcTypes'
    BY <1>13 DEF CutShort, Fail, Done, PassedOver
  <2> QED
    BY <2>1, <2>2, LocalKept
<1>14. ASSUME NEW c \in Command, NEW d \in Doing, Begin(c, d) PROVE (LocalTypes /\ PcTypes)'
  <2>1. PcTypes'
    BY <1>14 DEF Begin, Loads
  <2>2. add' \in {[add EXCEPT ![c] = a] : a \in BOOLEAN}
    BY <1>14 DEF Begin
  <2>3. do' \in [Command -> Doing]
    BY <1>14 DEF Begin, LocalTypes, Forget
  <2>4. add' \in [Command -> BOOLEAN]
    BY <1>14, <2>2 DEF Begin, LocalTypes, Forget
  <2>5. seen' \in [Command -> SUBSET Command]
    BY <1>14 DEF Begin, LocalTypes, Forget
  <2>6. mark' \in [Command -> 0 .. MaxPoint]
    BY <1>14 DEF Begin, LocalTypes, Forget
  <2>7. alone' \in [Command -> BOOLEAN]
    BY <1>14 DEF Begin, LocalTypes, Forget
  <2> QED
    BY <2>1, <2>2, <2>3, <2>4, <2>5, <2>6, <2>7 DEF LocalTypes
<1>15. CASE Vanish
  BY <1>15 DEF Vanish, LocalTypes
<1>16. CASE Report
  BY <1>16 DEF Report, LocalTypes
<1>17. CASE Become
  BY <1>17 DEF Become, LocalTypes
<1>18. CASE UNCHANGED vars
  BY <1>18 DEF vars, LocalTypes
<1> QED
  BY <1>1, <1>2, <1>3, <1>4, <1>5, <1>6, <1>7, <1>8, <1>9, <1>10, <1>11, <1>12,
     <1>13, <1>14, <1>15, <1>16, <1>17, <1>18
    DEF Next, Step

(* Who has the service open runs. *)
LEMMA HeldKept ==
  ASSUME ServiceAdminAssumption, SaTypeOK, [Next]_vars PROVE HeldOpen'
<1> USE DEF SaTypeOK, StoreTypes, CommandTypes, HeldOpen, At, Go, Goes, Opened, Forget,
    local, service, Busy, Ended, Absent
<1>1. ASSUME NEW c \in Command, Load(c) PROVE HeldOpen'
  BY <1>1 DEF Load, Fail, Done
<1>2. ASSUME NEW c \in Command, Open(c) PROVE HeldOpen'
  BY <1>2 DEF Open, Fail, Done
<1>3. ASSUME NEW c \in Command, Create(c) PROVE HeldOpen'
  BY <1>3 DEF Create, Fail, Done
<1>4. ASSUME NEW c \in Command, Names(c) PROVE HeldOpen'
  BY <1>4 DEF Names, Named, Fail, Done, PassedOver
<1>5. ASSUME NEW c \in Command, Options(c) PROVE HeldOpen'
  BY <1>5 DEF Options, Fail, Done
<1>6. ASSUME NEW c \in Command, Save(c) PROVE HeldOpen'
  BY <1>6 DEF Save, Fail, Done, PassedOver
<1>7. ASSUME NEW c \in Command, Query(c) PROVE HeldOpen'
  BY <1>7 DEF Query, Fail, Done
<1>8. ASSUME NEW c \in Command, Control(c) PROVE HeldOpen'
  BY <1>8 DEF Control, Awaited
<1>9. ASSUME NEW c \in Command, Wait(c) PROVE HeldOpen'
  BY <1>9 DEF Wait, Progress
<1>10. ASSUME NEW c \in Command, Settle(c) PROVE HeldOpen'
  BY <1>10 DEF Settle, Done
<1>11. ASSUME NEW c \in Command, Delete(c) PROVE HeldOpen'
  BY <1>11 DEF Delete, Marked, Fail, Done
<1>12. ASSUME NEW c \in Command, Erase(c) PROVE HeldOpen'
  BY <1>12 DEF Erase, Done, PassedOver
<1>13. ASSUME NEW c \in Command, CutShort(c) PROVE HeldOpen'
  BY <1>13 DEF CutShort, Fail, Done, PassedOver
<1>14. ASSUME NEW c \in Command, NEW d \in Doing, Begin(c, d) PROVE HeldOpen'
  BY <1>14 DEF Begin
<1>15. CASE Vanish
  BY <1>15 DEF Vanish
<1>16. CASE Report
  BY <1>16 DEF Report
<1>17. CASE Become
  BY <1>17 DEF Become
<1>18. CASE UNCHANGED vars
  BY <1>18 DEF vars
<1> QED
  BY <1>1, <1>2, <1>3, <1>4, <1>5, <1>6, <1>7, <1>8, <1>9, <1>10, <1>11, <1>12,
     <1>13, <1>14, <1>15, <1>16, <1>17, <1>18
    DEF Next, Step

(* Every step keeps the types. *)
LEMMA SaTypeKept == ASSUME ServiceAdminAssumption, SaTypeOK, [Next]_vars PROVE SaTypeOK'
<1>1. LocalTypes /\ PcTypes
  BY DEF SaTypeOK, CommandTypes, LocalTypes, PcTypes
<1>2. LocalTypes' /\ PcTypes'
  BY <1>1, LocalsKept
<1> QED
  BY <1>2, StoresKept, HeldKept DEF SaTypeOK, CommandTypes, LocalTypes, PcTypes

-----------------------------------------------------------------------------
(* Commands *)

(* What is narrowed is still not more than it was. *)
LEMMA Narrowed ==
  ASSUME SaTypeOK, NEW c \in Command, NEW P \in BOOLEAN, alone' = [alone EXCEPT ![c] = @ /\
      P]
  PROVE (alone'[c] => P) /\ \A b \in Command : alone'[b] => alone[b]
BY DEF SaTypeOK, CommandTypes

(* A command that loads reads the options, or knows that nobody could, or is
   not alone any more. *)
LEMMA LoadReads ==
  ASSUME SaTypeOK, NEW c \in Command, Load(c)
  PROVE  /\ pc[c] = "load" /\ UNCHANGED <<entry, service, reg>>
         /\ \/ Fail(c) /\ UNCHANGED quiet
            \/ /\ Go(c, "open") /\ UNCHANGED <<opened, do, add, mark>>
               /\ quiet' => quiet
               /\ \A b \in Command : (alone'[b] => alone[b]) /\ (b # c => seen'[b] =
                   seen[b])
               /\ alone'[c] /\ add[c] /\ Loadable => reg.options \subseteq seen'[c]
<1>1. pc[c] = "load" /\ UNCHANGED <<entry, service, reg>>
  BY DEF Load, At
<1>2. CASE Fail(c) /\ UNCHANGED quiet
  BY <1>1, <1>2
<1>3. CASE /\ seen' = [seen EXCEPT ![c] = IF add[c] THEN reg.options ELSE {}]
           /\ Go(c, "open") /\ UNCHANGED <<opened, do, add, mark, alone, quiet>>
  BY <1>1, <1>3 DEF SaTypeOK, CommandTypes
<1>4. CASE /\ Go(c, "open") /\ UNCHANGED <<opened, do, add, seen, mark>>
           /\ alone' = [alone EXCEPT ![c] = @ /\ ~Loadable]
           /\ quiet' = (quiet /\ ~Loadable)
  <2>1. (alone'[c] => ~Loadable) /\ \A b \in Command : alone'[b] => alone[b]
    BY <1>4, Narrowed
  <2>2. quiet' => quiet
    BY <1>4
  <2>3. Go(c, "open") /\ UNCHANGED <<opened, do, add, seen, mark>>
    BY <1>4
  <2> QED
    BY <1>1, <2>1, <2>2, <2>3
<1> QED
  BY <1>2, <1>3, <1>4 DEF Load

(* Each handler sends a command on to what it does. *)
LEMMA DoAtKept ==
  ASSUME ServiceAdminAssumption, SaTypeOK, DoAt, [Next]_vars PROVE DoAt'
<1> USE DEF SaTypeOK, StoreTypes, CommandTypes, HeldOpen, At, Go, Goes, Opened, Forget,
    local, service, Busy, Ended, DoAt, Doing
<1>1. ASSUME NEW c \in Command, Load(c) PROVE DoAt'
  BY <1>1 DEF Load, Fail, Done
<1>2. ASSUME NEW c \in Command, Open(c) PROVE DoAt'
  BY <1>2 DEF Open, Fail, Done
<1>3. ASSUME NEW c \in Command, Create(c) PROVE DoAt'
  BY <1>3 DEF Create, Fail, Done
<1>4. ASSUME NEW c \in Command, Names(c) PROVE DoAt'
  BY <1>4 DEF Names, Named, Fail, Done, PassedOver
<1>5. ASSUME NEW c \in Command, Options(c) PROVE DoAt'
  BY <1>5 DEF Options, Fail, Done
<1>6. ASSUME NEW c \in Command, Save(c) PROVE DoAt'
  BY <1>6 DEF Save, Fail, Done, PassedOver
<1>7. ASSUME NEW c \in Command, Query(c) PROVE DoAt'
  BY <1>7 DEF Query, Fail, Done
<1>8. ASSUME NEW c \in Command, Control(c) PROVE DoAt'
  BY <1>8 DEF Control, Awaited
<1>9. ASSUME NEW c \in Command, Wait(c) PROVE DoAt'
  BY <1>9 DEF Wait, Progress
<1>10. ASSUME NEW c \in Command, Settle(c) PROVE DoAt'
  BY <1>10 DEF Settle, Done
<1>11. ASSUME NEW c \in Command, Delete(c) PROVE DoAt'
  BY <1>11 DEF Delete, Marked, Fail, Done
<1>12. ASSUME NEW c \in Command, Erase(c) PROVE DoAt'
  BY <1>12 DEF Erase, Done, PassedOver
<1>13. ASSUME NEW c \in Command, CutShort(c) PROVE DoAt'
  BY <1>13 DEF CutShort, Fail, Done, PassedOver
<1>14. ASSUME NEW c \in Command, NEW d \in Doing, Begin(c, d) PROVE DoAt'
  BY <1>14 DEF Begin, Loads
<1>15. CASE Vanish
  BY <1>15 DEF Vanish
<1>16. CASE Report
  BY <1>16 DEF Report
<1>17. CASE Become
  BY <1>17 DEF Become
<1>18. CASE UNCHANGED vars
  BY <1>18 DEF vars
<1> QED
  BY <1>1, <1>2, <1>3, <1>4, <1>5, <1>6, <1>7, <1>8, <1>9, <1>10, <1>11, <1>12,
     <1>13, <1>14, <1>15, <1>16, <1>17, <1>18
    DEF Next, Step

(* Names and options keep the service open; who ends is elsewhere. *)
LEMMA OpenedAtKept ==
  ASSUME ServiceAdminAssumption, SaTypeOK, DoAt, OpenedAt, [Next]_vars PROVE OpenedAt'
<1> USE DEF SaTypeOK, StoreTypes, CommandTypes, HeldOpen, At, Go, Goes, Opened, Forget,
    local, service, Busy, Ended, DoAt, OpenedAt
<1>1. ASSUME NEW c \in Command, Load(c) PROVE OpenedAt'
  BY <1>1 DEF Load, Fail, Done
<1>2. ASSUME NEW c \in Command, Open(c) PROVE OpenedAt'
  BY <1>2 DEF Open, Fail, Done
<1>3. ASSUME NEW c \in Command, Create(c) PROVE OpenedAt'
  BY <1>3 DEF Create, Fail, Done
<1>4. ASSUME NEW c \in Command, Names(c) PROVE OpenedAt'
  BY <1>4 DEF Names, Named, Fail, Done, PassedOver
<1>5. ASSUME NEW c \in Command, Options(c) PROVE OpenedAt'
  BY <1>5 DEF Options, Fail, Done
<1>6. ASSUME NEW c \in Command, Save(c) PROVE OpenedAt'
  BY <1>6 DEF Save, Fail, Done, PassedOver
<1>7. ASSUME NEW c \in Command, Query(c) PROVE OpenedAt'
  BY <1>7 DEF Query, Fail, Done
<1>8. ASSUME NEW c \in Command, Control(c) PROVE OpenedAt'
  BY <1>8 DEF Control, Awaited
<1>9. ASSUME NEW c \in Command, Wait(c) PROVE OpenedAt'
  BY <1>9 DEF Wait, Progress
<1>10. ASSUME NEW c \in Command, Settle(c) PROVE OpenedAt'
  BY <1>10 DEF Settle, Done
<1>11. ASSUME NEW c \in Command, Delete(c) PROVE OpenedAt'
  BY <1>11 DEF Delete, Marked, Fail, Done
<1>12. ASSUME NEW c \in Command, Erase(c) PROVE OpenedAt'
  BY <1>12 DEF Erase, Done, PassedOver
<1>13. ASSUME NEW c \in Command, CutShort(c) PROVE OpenedAt'
  BY <1>13 DEF CutShort, Fail, Done, PassedOver
<1>14. ASSUME NEW c \in Command, NEW d \in Doing, Begin(c, d) PROVE OpenedAt'
  BY <1>14 DEF Begin, Loads, Doing
<1>15. CASE Vanish
  BY <1>15 DEF Vanish
<1>16. CASE Report
  BY <1>16 DEF Report
<1>17. CASE Become
  BY <1>17 DEF Become
<1>18. CASE UNCHANGED vars
  BY <1>18 DEF vars
<1> QED
  BY <1>1, <1>2, <1>3, <1>4, <1>5, <1>6, <1>7, <1>8, <1>9, <1>10, <1>11, <1>12,
     <1>13, <1>14, <1>15, <1>16, <1>17, <1>18
    DEF Next, Step

(* A command that begins beside others is not alone, nor are they. *)
LEMMA AloneOnlyKept ==
  ASSUME ServiceAdminAssumption, SaTypeOK, AloneOnly, [Next]_vars PROVE AloneOnly'
<1> USE DEF SaTypeOK, StoreTypes, CommandTypes, HeldOpen, At, Go, Goes, Opened, Forget,
    local, service, Busy, Ended, AloneOnly
<1>1. ASSUME NEW c \in Command, Load(c) PROVE AloneOnly'
  BY <1>1 DEF Load, Fail, Done
<1>2. ASSUME NEW c \in Command, Open(c) PROVE AloneOnly'
  BY <1>2 DEF Open, Fail, Done
<1>3. ASSUME NEW c \in Command, Create(c) PROVE AloneOnly'
  BY <1>3 DEF Create, Fail, Done
<1>4. ASSUME NEW c \in Command, Names(c) PROVE AloneOnly'
  BY <1>4 DEF Names, Named, Fail, Done, PassedOver
<1>5. ASSUME NEW c \in Command, Options(c) PROVE AloneOnly'
  BY <1>5 DEF Options, Fail, Done
<1>6. ASSUME NEW c \in Command, Save(c) PROVE AloneOnly'
  BY <1>6 DEF Save, Fail, Done, PassedOver
<1>7. ASSUME NEW c \in Command, Query(c) PROVE AloneOnly'
  BY <1>7 DEF Query, Fail, Done
<1>8. ASSUME NEW c \in Command, Control(c) PROVE AloneOnly'
  BY <1>8 DEF Control, Awaited
<1>9. ASSUME NEW c \in Command, Wait(c) PROVE AloneOnly'
  BY <1>9 DEF Wait, Progress
<1>10. ASSUME NEW c \in Command, Settle(c) PROVE AloneOnly'
  BY <1>10 DEF Settle, Done
<1>11. ASSUME NEW c \in Command, Delete(c) PROVE AloneOnly'
  BY <1>11 DEF Delete, Marked, Fail, Done
<1>12. ASSUME NEW c \in Command, Erase(c) PROVE AloneOnly'
  BY <1>12 DEF Erase, Done, PassedOver
<1>13. ASSUME NEW c \in Command, CutShort(c) PROVE AloneOnly'
  BY <1>13 DEF CutShort, Fail, Done, PassedOver
<1>14. ASSUME NEW c \in Command, NEW d \in Doing, Begin(c, d) PROVE AloneOnly'
  BY <1>14 DEF Begin
<1>15. CASE Vanish
  BY <1>15 DEF Vanish
<1>16. CASE Report
  BY <1>16 DEF Report
<1>17. CASE Become
  BY <1>17 DEF Become
<1>18. CASE UNCHANGED vars
  BY <1>18 DEF vars
<1> QED
  BY <1>1, <1>2, <1>3, <1>4, <1>5, <1>6, <1>7, <1>8, <1>9, <1>10, <1>11, <1>12,
     <1>13, <1>14, <1>15, <1>16, <1>17, <1>18
    DEF Next, Step

(* Loading changes nothing. *)
LEMMA LoadQuiet ==
  ASSUME SaTypeOK, DoAt, quiet => QuietInv, NEW c \in Command, Load(c), quiet'
  PROVE  QuietInv'
<1> USE LoadReads DEF SaTypeOK, StoreTypes, CommandTypes, HeldOpen, At, Go, Goes, Opened,
    Forget, local, service, Busy, Ended, DoAt,
    Installs, Erases, Fail, Done
<1>1. quiet /\ QuietInv
  OBVIOUS
<1>2. \A a, b \in Command : Busy(a)' /\ Busy(b)' => a = b
  BY <1>1 DEF QuietInv
<1>3. \A b \in Command : pc'[b] \in {"options", "save"} => entry'.is = "present"
  BY <1>1 DEF QuietInv
<1>4. \A b \in Command : Installs(b)' => entry'.is = "present" /\ ~entry'.params /\
    ~reg'.key
  BY <1>1 DEF QuietInv
<1>5. \A b \in Command : Erases(b)' => entry'.is # "present"
  BY <1>1 DEF QuietInv
<1>6. (\A b \in Command : ~Installs(b)' /\ ~Erases(b)') => Together'
  BY <1>1 DEF QuietInv, Together, Loadable, Key, NoKey
<1> QED
  BY <1>2, <1>3, <1>4, <1>5, <1>6 DEF QuietInv

(* An install has named its entry and goes on to its settings, an update changes only the
   account. *)
LEMMA NamesQuiet ==
  ASSUME SaTypeOK, DoAt, quiet => QuietInv, NEW c \in Command, Names(c), quiet'
  PROVE  QuietInv'
<1> USE DEF SaTypeOK, StoreTypes, CommandTypes, HeldOpen, At, Go, Goes, Opened, Forget,
    local, service, Busy, Ended, DoAt,
    Installs, Erases, Names, Named, Fail, Done, PassedOver
<1>1. quiet /\ QuietInv
  OBVIOUS
<1>2. \A a, b \in Command : Busy(a)' /\ Busy(b)' => a = b
  BY <1>1 DEF QuietInv
<1>3. \A b \in Command : pc'[b] \in {"options", "save"} => entry'.is = "present"
  BY <1>1 DEF QuietInv
<1>4. \A b \in Command : Installs(b)' => entry'.is = "present" /\ ~entry'.params /\
    ~reg'.key
  BY <1>1 DEF QuietInv
<1>5. \A b \in Command : Erases(b)' => entry'.is # "present"
  BY <1>1 DEF QuietInv
<1>6. (\A b \in Command : ~Installs(b)' /\ ~Erases(b)') => Together'
  BY <1>1 DEF QuietInv, Together, Loadable, Key, NoKey
<1> QED
  BY <1>2, <1>3, <1>4, <1>5, <1>6 DEF QuietInv

(* Saving brings the stores together: an install that could not save has passed a failure
   over. *)
LEMMA SaveQuiet ==
  ASSUME SaTypeOK, DoAt, quiet => QuietInv, NEW c \in Command, Save(c), quiet'
  PROVE  QuietInv'
<1> USE DEF SaTypeOK, StoreTypes, CommandTypes, HeldOpen, At, Go, Goes, Opened, Forget,
    local, service, Busy, Ended, DoAt,
    Installs, Erases, Save, Fail, Done, PassedOver
<1>1. quiet /\ QuietInv
  OBVIOUS
<1>2. \A a, b \in Command : Busy(a)' /\ Busy(b)' => a = b
  BY <1>1 DEF QuietInv
<1>3. \A b \in Command : pc'[b] \in {"options", "save"} => entry'.is = "present"
  BY <1>1 DEF QuietInv
<1>4. \A b \in Command : Installs(b)' => entry'.is = "present" /\ ~entry'.params /\
    ~reg'.key
  BY <1>1 DEF QuietInv
<1>5. \A b \in Command : Erases(b)' => entry'.is # "present"
  BY <1>1 DEF QuietInv
<1>6. (\A b \in Command : ~Installs(b)' /\ ~Erases(b)') => Together'
  BY <1>1 DEF QuietInv, Together, Loadable, Key, NoKey
<1> QED
  BY <1>2, <1>3, <1>4, <1>5, <1>6 DEF QuietInv

(* So does erasing. *)
LEMMA EraseQuiet ==
  ASSUME SaTypeOK, DoAt, quiet => QuietInv, NEW c \in Command, Erase(c), quiet'
  PROVE  QuietInv'
<1> USE DEF SaTypeOK, StoreTypes, CommandTypes, HeldOpen, At, Go, Goes, Opened, Forget,
    local, service, Busy, Ended, DoAt,
    Installs, Erases, Erase, Done, PassedOver
<1>1. quiet /\ QuietInv
  OBVIOUS
<1>2. \A a, b \in Command : Busy(a)' /\ Busy(b)' => a = b
  BY <1>1 DEF QuietInv
<1>3. \A b \in Command : pc'[b] \in {"options", "save"} => entry'.is = "present"
  BY <1>1 DEF QuietInv
<1>4. \A b \in Command : Installs(b)' => entry'.is = "present" /\ ~entry'.params /\
    ~reg'.key
  BY <1>1 DEF QuietInv
<1>5. \A b \in Command : Erases(b)' => entry'.is # "present"
  BY <1>1 DEF QuietInv
<1>6. (\A b \in Command : ~Installs(b)' /\ ~Erases(b)') => Together'
  BY <1>1 DEF QuietInv, Together, Loadable, Key, NoKey
<1> QED
  BY <1>2, <1>3, <1>4, <1>5, <1>6 DEF QuietInv

(* What an update knows comes from Load; Names stores the account. *)
LEMMA AloneKnowsKept ==
  ASSUME ServiceAdminAssumption, SaTypeOK, DoAt, OpenedAt, AloneOnly, AloneKnows,
         [Next]_vars
  PROVE  AloneKnows'
<1> USE DEF SaTypeOK, StoreTypes, CommandTypes, HeldOpen, At, Go, Goes, Opened, Forget,
    local, service, Busy, Ended, DoAt, OpenedAt, AloneOnly, AloneKnows, Loadable, Absent
<1>1. ASSUME NEW c \in Command, Load(c) PROVE AloneKnows'
  BY <1>1, LoadReads DEF Fail, Done
<1>2. ASSUME NEW c \in Command, Open(c) PROVE AloneKnows'
  BY <1>2 DEF Open, Fail, Done
<1>3. ASSUME NEW c \in Command, Create(c) PROVE AloneKnows'
  BY <1>3 DEF Create, Fail, Done
<1>4. ASSUME NEW c \in Command, Names(c) PROVE AloneKnows'
  BY <1>4 DEF Names, Named, Fail, Done, PassedOver
<1>5. ASSUME NEW c \in Command, Options(c) PROVE AloneKnows'
  BY <1>5 DEF Options, Fail, Done
<1>6. ASSUME NEW c \in Command, Save(c) PROVE AloneKnows'
  BY <1>6, RegType DEF Save, Fail, Done, PassedOver
<1>7. ASSUME NEW c \in Command, Query(c) PROVE AloneKnows'
  BY <1>7 DEF Query, Fail, Done
<1>8. ASSUME NEW c \in Command, Control(c) PROVE AloneKnows'
  BY <1>8 DEF Control, Awaited
<1>9. ASSUME NEW c \in Command, Wait(c) PROVE AloneKnows'
  BY <1>9 DEF Wait, Progress
<1>10. ASSUME NEW c \in Command, Settle(c) PROVE AloneKnows'
  BY <1>10 DEF Settle, Done
<1>11. ASSUME NEW c \in Command, Delete(c) PROVE AloneKnows'
  BY <1>11 DEF Delete, Marked, Fail, Done
<1>12. ASSUME NEW c \in Command, Erase(c) PROVE AloneKnows'
  BY <1>12 DEF Erase, Done, PassedOver
<1>13. ASSUME NEW c \in Command, CutShort(c) PROVE AloneKnows'
  BY <1>13 DEF CutShort, Fail, Done, PassedOver
<1>14. ASSUME NEW c \in Command, NEW d \in Doing, Begin(c, d) PROVE AloneKnows'
  BY <1>14 DEF Begin, Loads, Doing
<1>15. CASE Vanish
  BY <1>15 DEF Vanish
<1>16. CASE Report
  BY <1>16 DEF Report
<1>17. CASE Become
  BY <1>17 DEF Become
<1>18. CASE UNCHANGED vars
  BY <1>18 DEF vars
<1> QED
  BY <1>1, <1>2, <1>3, <1>4, <1>5, <1>6, <1>7, <1>8, <1>9, <1>10, <1>11, <1>12,
     <1>13, <1>14, <1>15, <1>16, <1>17, <1>18
    DEF Next, Step

(* Without overlap and failures each command leaves the stores as QuietInv says. *)
LEMMA QuietKept ==
  ASSUME ServiceAdminAssumption, SaTypeOK, DoAt, quiet => QuietInv, quiet', [Next]_vars
  PROVE  QuietInv'
<1> USE DEF SaTypeOK, StoreTypes, CommandTypes, HeldOpen, At, Go, Goes, Opened, Forget,
    local, service, Busy, Ended, DoAt, Installs, Erases
<1>1. ASSUME NEW c \in Command, Load(c) PROVE QuietInv'
  BY <1>1, LoadQuiet
<1>2. ASSUME NEW c \in Command, Open(c) PROVE QuietInv'
  BY <1>2 DEF Open, Fail, Done, QuietInv, Together, Loadable, Absent
<1>3. ASSUME NEW c \in Command, Create(c) PROVE QuietInv'
  BY <1>3 DEF Create, Fail, Done, QuietInv, Together, Loadable, Absent
<1>4. ASSUME NEW c \in Command, Names(c) PROVE QuietInv'
  BY <1>4, NamesQuiet
<1>5. ASSUME NEW c \in Command, Options(c) PROVE QuietInv'
  BY <1>5 DEF Options, Fail, Done, QuietInv, Together, Loadable, Absent
<1>6. ASSUME NEW c \in Command, Save(c) PROVE QuietInv'
  BY <1>6, SaveQuiet
<1>7. ASSUME NEW c \in Command, Query(c) PROVE QuietInv'
  BY <1>7 DEF Query, Fail, Done, QuietInv, Together, Loadable, Absent
<1>8. ASSUME NEW c \in Command, Control(c) PROVE QuietInv'
  BY <1>8 DEF Control, Awaited, QuietInv, Together, Loadable, Absent
<1>9. ASSUME NEW c \in Command, Wait(c) PROVE QuietInv'
  BY <1>9 DEF Wait, Progress, QuietInv, Together, Loadable, Absent
<1>10. ASSUME NEW c \in Command, Settle(c) PROVE QuietInv'
  BY <1>10 DEF Settle, Done, QuietInv, Together, Loadable, Absent
<1>11. ASSUME NEW c \in Command, Delete(c) PROVE QuietInv'
  BY <1>11 DEF Delete, Marked, Fail, Done, QuietInv, Together, Loadable, Absent
<1>12. ASSUME NEW c \in Command, Erase(c) PROVE QuietInv'
  BY <1>12, EraseQuiet
<1>13. ASSUME NEW c \in Command, CutShort(c) PROVE QuietInv'
  BY <1>13 DEF CutShort, Fail, Done, PassedOver, QuietInv, Together, Loadable, Absent
<1>14. ASSUME NEW c \in Command, NEW d \in Doing, Begin(c, d) PROVE QuietInv'
  BY <1>14 DEF Begin, Loads, Doing, QuietInv, Together, Loadable
<1>15. CASE Vanish
  BY <1>15 DEF Vanish, QuietInv, Together, Loadable, Absent
<1>16. CASE Report
  BY <1>16 DEF Report, QuietInv, Together, Loadable, Absent
<1>17. CASE Become
  BY <1>17 DEF Become, QuietInv, Together, Loadable, Absent
<1>18. CASE UNCHANGED vars
  BY <1>18 DEF vars, QuietInv, Together, Loadable, Absent
<1> QED
  BY <1>1, <1>2, <1>3, <1>4, <1>5, <1>6, <1>7, <1>8, <1>9, <1>10, <1>11, <1>12,
     <1>13, <1>14, <1>15, <1>16, <1>17, <1>18
    DEF Next, Step

-----------------------------------------------------------------------------
(* Theorems *)

(* At first nothing is installed and nobody runs. *)
LEMMA SaInvFirst == ASSUME ServiceAdminAssumption, Init PROVE SaInv
<1> USE DEF ServiceAdminAssumption, Init, Busy, Ended
<1>1. SaTypeOK
  BY DEF SaTypeOK, StoreTypes, CommandTypes, HeldOpen, Pending, Absent, Doing
<1>2. DoAt /\ OpenedAt /\ AloneOnly /\ AloneKnows
  BY DEF DoAt, OpenedAt, AloneOnly, AloneKnows
<1>3. QuietInv
  BY DEF QuietInv, Installs, Erases, Together, Loadable, Absent, NoKey
<1> QED
  BY <1>1, <1>2, <1>3 DEF SaInv

(* SaInv holds whatever the commands, the service and the service manager do. *)
LEMMA SaInvHolds == Spec => []SaInv
<1>1. ServiceAdminAssumption
  BY ServiceAdminAssumption
<1>2. Init => SaInv
  BY <1>1, SaInvFirst
<1>3. SaInv /\ [Next]_vars => SaInv'
  BY <1>1, SaTypeKept, DoAtKept, OpenedAtKept, AloneOnlyKept, AloneKnowsKept, QuietKept DEF
      SaInv
<1> QED
  BY <1>2, <1>3, PTL DEF Spec

(* What a step that ends an update has done. *)
UpdateStep ==
    \A b \in Command :
        Busy(b) /\ pc'[b] = "ok" /\ do[b] = "update" /\ alone[b] =>
            entry'.user = b /\ b \in reg'.options /\ entry'.params

(* What a step that may save the options does to them. *)
AddStep ==
    \A b \in Command :
        At(b, "save") /\ add[b] /\ do[b] = "update" /\ alone[b] /\ Loadable =>
            reg.options \subseteq reg'.options

(* Only Save ends an update well, and with all it was asked for. *)
LEMMA UpdateSteps ==
  ASSUME ServiceAdminAssumption, SaInv, Next PROVE UpdateStep
<1> USE DEF SaInv, SaTypeOK, StoreTypes, CommandTypes, HeldOpen, At, Go, Goes, Opened,
    Forget, local, service, Busy, Ended, DoAt, AloneKnows, UpdateStep
<1>1. ASSUME NEW c \in Command, Load(c) PROVE UpdateStep
  BY <1>1 DEF Load, Fail, Done
<1>2. ASSUME NEW c \in Command, Open(c) PROVE UpdateStep
  BY <1>2 DEF Open, Fail, Done
<1>3. ASSUME NEW c \in Command, Create(c) PROVE UpdateStep
  BY <1>3 DEF Create, Fail, Done
<1>4. ASSUME NEW c \in Command, Names(c) PROVE UpdateStep
  BY <1>4 DEF Names, Named, Fail, Done, PassedOver
<1>5. ASSUME NEW c \in Command, Options(c) PROVE UpdateStep
  BY <1>5 DEF Options, Fail, Done
<1>6. ASSUME NEW c \in Command, Save(c) PROVE UpdateStep
  BY <1>6 DEF Save, Fail, Done, PassedOver, Key
<1>7. ASSUME NEW c \in Command, Query(c) PROVE UpdateStep
  BY <1>7 DEF Query, Fail, Done
<1>8. ASSUME NEW c \in Command, Control(c) PROVE UpdateStep
  BY <1>8 DEF Control, Awaited
<1>9. ASSUME NEW c \in Command, Wait(c) PROVE UpdateStep
  BY <1>9 DEF Wait, Progress
<1>10. ASSUME NEW c \in Command, Settle(c) PROVE UpdateStep
  BY <1>10 DEF Settle, Done
<1>11. ASSUME NEW c \in Command, Delete(c) PROVE UpdateStep
  BY <1>11 DEF Delete, Marked, Fail, Done
<1>12. ASSUME NEW c \in Command, Erase(c) PROVE UpdateStep
  BY <1>12 DEF Erase, Done, PassedOver
<1>13. ASSUME NEW c \in Command, CutShort(c) PROVE UpdateStep
  BY <1>13 DEF CutShort, Fail, Done, PassedOver
<1>14. ASSUME NEW c \in Command, NEW d \in Doing, Begin(c, d) PROVE UpdateStep
  BY <1>14 DEF Begin
<1>15. CASE Vanish
  BY <1>15 DEF Vanish
<1>16. CASE Report
  BY <1>16 DEF Report
<1>17. CASE Become
  BY <1>17 DEF Become
<1> QED
  BY <1>1, <1>2, <1>3, <1>4, <1>5, <1>6, <1>7, <1>8, <1>9, <1>10, <1>11, <1>12,
     <1>13, <1>14, <1>15, <1>16, <1>17
    DEF Next, Step

(* Save writes what Load has read and the new option; others are not there to write. *)
LEMMA AddSteps ==
  ASSUME ServiceAdminAssumption, SaInv, Next PROVE AddStep
<1> USE DEF SaInv, SaTypeOK, StoreTypes, CommandTypes, HeldOpen, At, Go, Goes, Opened,
    Forget, local, service, Busy, Ended, DoAt, AloneOnly, AloneKnows, AddStep
<1>1. ASSUME NEW c \in Command, Load(c) PROVE AddStep
  BY <1>1 DEF Load, Fail, Done
<1>2. ASSUME NEW c \in Command, Open(c) PROVE AddStep
  BY <1>2 DEF Open, Fail, Done
<1>3. ASSUME NEW c \in Command, Create(c) PROVE AddStep
  BY <1>3 DEF Create, Fail, Done
<1>4. ASSUME NEW c \in Command, Names(c) PROVE AddStep
  BY <1>4 DEF Names, Named, Fail, Done, PassedOver
<1>5. ASSUME NEW c \in Command, Options(c) PROVE AddStep
  BY <1>5 DEF Options, Fail, Done
<1>6. ASSUME NEW c \in Command, Save(c) PROVE AddStep
  BY <1>6, RegType DEF Save, Fail, Done, PassedOver, Key, Loadable
<1>7. ASSUME NEW c \in Command, Query(c) PROVE AddStep
  BY <1>7 DEF Query, Fail, Done
<1>8. ASSUME NEW c \in Command, Control(c) PROVE AddStep
  BY <1>8 DEF Control, Awaited
<1>9. ASSUME NEW c \in Command, Wait(c) PROVE AddStep
  BY <1>9 DEF Wait, Progress
<1>10. ASSUME NEW c \in Command, Settle(c) PROVE AddStep
  BY <1>10 DEF Settle, Done
<1>11. ASSUME NEW c \in Command, Delete(c) PROVE AddStep
  BY <1>11 DEF Delete, Marked, Fail, Done
<1>12. ASSUME NEW c \in Command, Erase(c) PROVE AddStep
  BY <1>12 DEF Erase, Done, PassedOver
<1>13. ASSUME NEW c \in Command, CutShort(c) PROVE AddStep
  BY <1>13 DEF CutShort, Fail, Done, PassedOver
<1>14. ASSUME NEW c \in Command, NEW d \in Doing, Begin(c, d) PROVE AddStep
  BY <1>14 DEF Begin
<1>15. CASE Vanish
  BY <1>15 DEF Vanish
<1>16. CASE Report
  BY <1>16 DEF Report
<1>17. CASE Become
  BY <1>17 DEF Become
<1> QED
  BY <1>1, <1>2, <1>3, <1>4, <1>5, <1>6, <1>7, <1>8, <1>9, <1>10, <1>11, <1>12,
     <1>13, <1>14, <1>15, <1>16, <1>17
    DEF Next, Step

(* Every variable of the two stores and of the commands keeps its type, for
   any number of commands that overlap, fail or are cut short. *)
THEOREM SaTypeCorrect == Spec => []SaTypeOK
<1>1. SaInv => SaTypeOK
  BY DEF SaInv
<1> QED
  BY <1>1, SaInvHolds, PTL

(* Commands that do not overlap, are not cut short and pass no failure over
   leave the service manager's entry and the settings together. *)
THEOREM ConfiguredHolds == Spec => []Configured
<1>1. SaInv => Configured
  BY DEF SaInv, QuietInv, Configured, Idle, Busy, Ended, Installs, Erases, Together
<1> QED
  BY <1>1, SaInvHolds, PTL

(* An update that ran alone and reports success has changed both stores. *)
THEOREM UpdateHolds == Spec => UpdateWorks
<1>1. ServiceAdminAssumption
  BY ServiceAdminAssumption
<1>2. SaInv /\ [Next]_vars =>
        [\A c \in Command :
            Busy(c) /\ pc'[c] = "ok" /\ do[c] = "update" /\ alone[c] =>
                entry'.user = c /\ c \in reg'.options /\ entry'.params]_vars
  BY <1>1, UpdateSteps DEF UpdateStep
<1> QED
  BY <1>2, SaInvHolds, PTL DEF Spec, UpdateWorks

(* ++ loses none of the options there are, if the update runs alone and could
   read them. *)
THEOREM AddHolds == Spec => AddKeeps
<1>1. ServiceAdminAssumption
  BY ServiceAdminAssumption
<1>2. SaInv /\ [Next]_vars =>
        [\A c \in Command :
            At(c, "save") /\ add[c] /\ do[c] = "update" /\ alone[c] /\ Loadable =>
                reg.options \subseteq reg'.options]_vars
  BY <1>1, AddSteps DEF AddStep
<1> QED
  BY <1>2, SaInvHolds, PTL DEF Spec, AddKeeps
=============================================================================
