--------------------------- MODULE HandlersProofs ---------------------------
(***************************************************************************)
(* Theorems about the components of Handlers, each for all its behaviours. *)
(***************************************************************************)
EXTENDS Handlers, Integers, TLAPS

(* Telling of a jack sets its key, or is noted as missed. *)
LEMMA KeyTold ==
    ASSUME D!TypeOK, NEW j, NEW read \in BOOLEAN, D!TellKey(j, read)
    PROVE  /\ key' \in [D!Keyed -> D!Keys] /\ missed' \subseteq D!Keyed
           /\ \A i \in D!Keyed : /\ i # j => key'[i] = key[i]
                                 /\ i # j /\ i \in missed => i \in missed'
           /\ j \in D!Keyed /\ j \notin missed' => key'[j] = D!Reading(j)
<1> USE DEF D!TypeOK, D!TellKey, D!Reading, D!Keys
<1>1. CASE UNCHANGED key /\ missed' = missed \union ({j} \intersect D!Keyed)
  BY <1>1
<1>2. CASE /\ j \in D!Keyed
           /\ key' = [key EXCEPT ![j] = IF read THEN D!Reading(j) ELSE "unsupported"]
           /\ missed' = IF read THEN missed \ {j} ELSE missed \union {j}
  BY <1>2
<1> QED
  BY <1>1, <1>2

(* Moving the lock of a jack moves that one only, as was read, or is noted as *)
(* slipped.                                                                  *)
LEMMA LockMoved ==
    ASSUME D!TypeOK, NEW j, NEW read \in BOOLEAN, D!MoveLock(j, read)
    PROVE  /\ slipped' \subseteq D!Locking
           /\ locks' \union borrowed' \subseteq {"LCD_NORMAL", "LCD_OFF"}
           /\ slipped \subseteq slipped' \union {j}
           /\ \/ UNCHANGED <<locks, borrowed>> /\ (j \in D!Locking => j \in slipped')
              \/ /\ j \in D!Lcd
                 /\ "LCD_NORMAL" \in locks' <=> "LCD_NORMAL" \in locks
                 /\ "LCD_NORMAL" \in borrowed' <=> "LCD_NORMAL" \in borrowed
                 /\ "LCD_OFF" \in locks' <=> j \in online
              \/ /\ j = "hdmi"
                 /\ "LCD_OFF" \in locks' <=> "LCD_OFF" \in locks
                 /\ "LCD_OFF" \in borrowed' <=> "LCD_OFF" \in borrowed
                 /\ "LCD_NORMAL" \in locks' <=> j \in online
<1> USE DEF D!TypeOK, D!LockOf, D!Locking, D!Lcd
<1>1. CASE UNCHANGED <<locks, borrowed>> /\ slipped' = slipped \union ({j} \intersect D!Locking)
  BY <1>1
<1>2. ASSUME j \in D!Locking, slipped' = slipped \ {j}, borrowed' = borrowed \ D!LockOf(j),
             locks' = IF j \in online THEN locks \union D!LockOf(j) ELSE locks \ D!LockOf(j)
      PROVE  /\ slipped' \subseteq D!Locking
             /\ locks' \union borrowed' \subseteq {"LCD_NORMAL", "LCD_OFF"}
             /\ slipped \subseteq slipped' \union {j}
             /\ \/ /\ j \in D!Lcd
                   /\ "LCD_NORMAL" \in locks' <=> "LCD_NORMAL" \in locks
                   /\ "LCD_NORMAL" \in borrowed' <=> "LCD_NORMAL" \in borrowed
                   /\ "LCD_OFF" \in locks' <=> j \in online
                \/ /\ j = "hdmi"
                   /\ "LCD_OFF" \in locks' <=> "LCD_OFF" \in locks
                   /\ "LCD_OFF" \in borrowed' <=> "LCD_OFF" \in borrowed
                   /\ "LCD_NORMAL" \in locks' <=> j \in online
  <2>1. CASE j \in D!Lcd
    BY <1>2, <2>1
  <2>2. CASE j = "hdmi"
    BY <1>2, <2>2
  <2> QED
    BY <1>2, <2>1, <2>2
<1> QED
  BY <1>1, <1>2 DEF D!MoveLock

(* A report that queues an act leaves the rest alone. *)
LEMMA QueueingKeeps ==
    ASSUME D!TypeOK, NEW j \in jacks, D!Chgdet(j), D!QueueAct(j)
    PROVE  /\ j \in D!Queued /\ noti' = noti \ {j}
           /\ queue' \in [D!Queued -> 0..MaxCalls] /\ queue'[j] > 0
           /\ \A i \in D!Queued \ {j} : queue'[i] = queue[i]
           /\ UNCHANGED <<jacks, online, registered, key, locks, missed, slipped, users,
                          borrowed>>
<1>1. /\ noti' = noti \ {j}
      /\ UNCHANGED <<jacks, online, registered, key, locks, missed, slipped, users, borrowed>>
  BY DEF D!Chgdet, D!QueueAct
<1>2. /\ queue \in [D!Queued -> 0..MaxCalls] /\ MaxCalls \in Nat
      /\ j \in D!Queued /\ queue[j] < MaxCalls /\ queue[j] \in Nat
      /\ queue' = [queue EXCEPT ![j] = queue[j] + 1]
  BY HandlersAssumption DEF D!QueueAct, D!TypeOK
<1> QED
  BY <1>1, <1>2

(* The jacks keep their types. *)
LEMMA JacksTypes == D!TypeOK /\ [D!Next]_D!vars => D!TypeOK'
<1> SUFFICES ASSUME D!TypeOK, [D!Next]_D!vars PROVE D!TypeOK'
  OBVIOUS
<1> USE DEF D!Keyed, D!Locking
<1>1. ASSUME NEW j \in jacks, D!Change(j) PROVE D!TypeOK'
  BY <1>1 DEF D!TypeOK, D!Change, D!Lcd
<1>2. ASSUME NEW j \in jacks, D!Chgdet(j) PROVE D!TypeOK'
  <2>1. CASE D!QueueAct(j)
    BY <1>2, <2>1, QueueingKeeps DEF D!TypeOK
  <2>2. CASE D!Tell(j) /\ UNCHANGED queue
    BY <1>2, <2>2, KeyTold, LockMoved DEF D!TypeOK, D!Chgdet, D!Tell
  <2> QED
    BY <1>2, <2>1, <2>2 DEF D!Chgdet
<1>3. ASSUME NEW j \in jacks, D!RunAct(j) PROVE D!TypeOK'
  <2>1. queue' \in [D!Queued -> 0..MaxCalls]
    BY <1>3, HandlersAssumption DEF D!TypeOK, D!RunAct, D!Queued
  <2> QED
    BY <1>3, <2>1, KeyTold, LockMoved DEF D!TypeOK, D!RunAct, D!Tell
<1>4. CASE D!Register
  <2>1. key' \in [D!Keyed -> D!Keys] /\ missed' \subseteq D!Keyed
    BY <1>4, KeyTold DEF D!Register, D!TypeOK
  <2>2. /\ slipped' \subseteq D!Locking
        /\ locks' \union borrowed' \subseteq {"LCD_NORMAL", "LCD_OFF"}
    BY <1>4, LockMoved DEF D!Register, D!TypeOK
  <2> QED
    BY <1>4, <2>1, <2>2 DEF D!Register, D!TypeOK
<1>5. ASSUME NEW state, D!TimeAct(state) PROVE D!TypeOK'
  BY <1>5 DEF D!TypeOK, D!TimeAct, D!LockOf
<1>6. CASE UNCHANGED D!vars
  BY <1>6 DEF D!TypeOK, D!vars
<1> QED
  BY <1>1, <1>2, <1>3, <1>4, <1>5, <1>6 DEF D!Next

(* Whatever happens, one who is plugged in or still to be served is a user of *)
(* the lock of USB and charger.                                               *)
LEMMA UsersStep == D!TypeOK /\ D!UsersKnown /\ [D!Next]_D!vars => D!UsersKnown'
<1> SUFFICES ASSUME D!TypeOK, D!UsersKnown, [D!Next]_D!vars PROVE D!UsersKnown'
  OBVIOUS
<1> USE DEF D!UsersKnown, D!Served, D!LcdServed
<1>1. ASSUME NEW j \in jacks, D!Change(j) PROVE D!UsersKnown'
  BY <1>1 DEF D!Change, D!Lcd, D!TypeOK
<1>2. ASSUME NEW j \in jacks, D!Chgdet(j) PROVE D!UsersKnown'
  BY <1>2 DEF D!Chgdet, D!QueueAct, D!TypeOK
<1>3. ASSUME NEW j \in jacks, D!RunAct(j) PROVE D!UsersKnown'
  BY <1>3 DEF D!RunAct, D!TypeOK
<1>4. CASE UNCHANGED <<jacks, online, noti, queue, users>>
  BY <1>4
<1> QED
  BY <1>1, <1>2, <1>3, <1>4 DEF D!Next, D!vars, D!Register, D!TimeAct

(* Whoever tells of a jack tells what is plugged in. *)
LEMMA KeysStep == D!TypeOK /\ D!KeysSettle /\ [D!Next]_D!vars => D!KeysSettle'
<1> SUFFICES ASSUME D!TypeOK, D!KeysSettle, [D!Next]_D!vars PROVE D!KeysSettle'
  OBVIOUS
<1> USE DEF D!KeysSettle, D!Served, D!Reading, D!Keyed
<1>1. ASSUME NEW j \in jacks, D!Change(j) PROVE D!KeysSettle'
  BY <1>1 DEF D!Change, D!TypeOK
<1>2. ASSUME NEW j, NEW read \in BOOLEAN, D!TellKey(j, read),
             UNCHANGED <<jacks, online>>,
             \A i \in jacks \ {j} : D!Served(i)' => D!Served(i)
      PROVE  D!KeysSettle'
  <2>1. /\ \A i \in D!Keyed : /\ i # j => key'[i] = key[i]
                              /\ i # j /\ i \in missed => i \in missed'
        /\ j \in D!Keyed /\ j \notin missed' => key'[j] = D!Reading(j)
    BY <1>2, KeyTold
  <2> QED
    BY <1>2, <2>1
<1>3. ASSUME NEW j \in jacks, D!Chgdet(j) PROVE D!KeysSettle'
  <2>1. CASE D!QueueAct(j)
    <3>1. \A i \in jacks : D!Served(i)' => D!Served(i)
      BY <1>3, <2>1, QueueingKeeps
    <3> QED
      BY <1>3, <2>1, <3>1, QueueingKeeps
  <2>2. CASE D!Tell(j) /\ UNCHANGED queue
    BY <1>2, <1>3, <2>2 DEF D!Chgdet, D!Tell
  <2> QED
    BY <1>3, <2>1, <2>2 DEF D!Chgdet
<1>4. ASSUME NEW j \in jacks, D!RunAct(j) PROVE D!KeysSettle'
  <2>1. \A i \in jacks \ {j} : D!Served(i)' => D!Served(i)
    BY <1>4 DEF D!RunAct, D!TypeOK
  <2> QED
    BY <1>2, <1>4, <2>1 DEF D!RunAct, D!Tell
<1>5. ASSUME UNCHANGED <<jacks, online, noti, queue>>,
             UNCHANGED <<key, missed>> \/ \E read \in BOOLEAN : D!TellKey("keyboard", read)
      PROVE  D!KeysSettle'
  BY <1>2, <1>5
<1>6. CASE D!Register
  BY <1>5, <1>6 DEF D!Register
<1> QED
  BY <1>1, <1>3, <1>4, <1>5, <1>6 DEF D!Next, D!vars, D!TimeAct

(* When all is served the lock of USB and charger is that of what is plugged *)
(* in.                                                                       *)
LEMMA LcdStep == D!IInv /\ [D!Next]_D!vars => D!LcdFollows'
<1> SUFFICES ASSUME D!IInv, [D!Next]_D!vars PROVE D!LcdFollows'
  OBVIOUS
<1> USE DEF D!LcdFollows, D!LcdServed
<1>0. D!TypeOK /\ D!UsersKnown /\ D!LcdFollows
  BY DEF D!IInv, D!LockFollowsPlug
<1>1. ASSUME NEW j \in jacks, D!Change(j) PROVE D!LcdFollows'
  <2>1. CASE j \in D!Lcd
    <3>1. D!Served(j)' => j \in slipped'
      BY <1>1, <2>1 DEF D!Change, D!Served, D!Locking, D!Lcd
    <3> QED
      BY <2>1, <3>1
  <2>2. CASE j \notin D!Lcd
    <3>1. /\ online' \intersect D!Lcd = online \intersect D!Lcd
          /\ slipped \subseteq slipped'
          /\ UNCHANGED <<queue, locks, borrowed, users>>
          /\ \A i \in D!Lcd : D!Served(i)' = D!Served(i)
      BY <1>1, <2>2 DEF D!Change, D!Served
    <3> QED
      BY <1>0, <3>1
  <2> QED
    BY <2>1, <2>2
<1>2. ASSUME NEW j \in jacks, j \in D!Lcd => ~D!Served(j), UNCHANGED <<jacks, online, users>>,
             NEW read \in BOOLEAN, D!MoveLock(j, read),
             \A i \in D!Lcd : i # j => D!Served(i)' = D!Served(i)
      PROVE  D!LcdFollows'
  <2>1. CASE j \in D!Lcd
    <3>1. j \in slipped' \/ ("LCD_OFF" \in locks' <=> j \in online)
      BY <1>0, <1>2, <2>1, LockMoved DEF D!Lcd, D!Locking
    <3>2. /\ j \in users
          /\ j \notin online /\ online \intersect D!Lcd # {} => users = D!Lcd
      BY <1>0, <1>2, <2>1 DEF D!UsersKnown, D!TypeOK, D!Lcd
    <3>3. slipped' \intersect D!Lcd = {} => j \notin slipped'
      BY <2>1
    <3>4. j \in online => online \intersect D!Lcd # {}
      BY <2>1
    <3> QED
      BY <1>2, <3>1, <3>2, <3>3, <3>4
  <2>2. CASE j \notin D!Lcd
    <3>1. /\ slipped' \intersect D!Lcd = {} => slipped \intersect D!Lcd = {}
          /\ "LCD_OFF" \in locks' <=> "LCD_OFF" \in locks
          /\ "LCD_OFF" \in borrowed' <=> "LCD_OFF" \in borrowed
      BY <1>0, <1>2, <2>2, LockMoved
    <3>2. D!LcdServed' = D!LcdServed
      BY <1>2, <2>2
    <3> QED
      BY <1>0, <1>2, <3>1, <3>2
  <2> QED
    BY <2>1, <2>2
<1>3. ASSUME NEW j \in jacks, D!Chgdet(j) PROVE D!LcdFollows'
  <2>1. CASE D!QueueAct(j)
    <3>1. \A i : D!Served(i)' => D!Served(i)
      BY <1>0, <1>3, <2>1, QueueingKeeps DEF D!Served
    <3> QED
      BY <1>0, <1>3, <2>1, <3>1, QueueingKeeps
  <2>2. CASE D!Tell(j) /\ UNCHANGED queue
    BY <1>2, <1>3, <2>2 DEF D!Chgdet, D!Served, D!Tell
  <2> QED
    BY <1>3, <2>1, <2>2 DEF D!Chgdet
<1>4. ASSUME NEW j \in jacks, D!RunAct(j) PROVE D!LcdFollows'
  BY <1>0, <1>2, <1>4 DEF D!RunAct, D!Served, D!TypeOK, D!Tell
<1>5. CASE D!Register
  <2>1. UNCHANGED <<jacks, online, noti, queue, users>>
    BY <1>5 DEF D!Register
  <2>2. UNCHANGED <<locks, slipped, borrowed>> \/
            ("hdmi" \in jacks /\ \E read \in BOOLEAN : D!MoveLock("hdmi", read))
    BY <1>5 DEF D!Register
  <2>3. \A i \in D!Lcd : D!Served(i)' = D!Served(i)
    BY <2>1 DEF D!Served
  <2> QED
    BY <1>0, <1>2, <2>1, <2>2, <2>3 DEF D!Lcd
<1>6. ASSUME NEW state \in {"LCD_NORMAL", "LCD_OFF"}, D!TimeAct(state)
      PROVE  D!LcdFollows'
  BY <1>0, <1>6 DEF D!TimeAct, D!Served
<1>7. CASE UNCHANGED D!vars
  BY <1>0, <1>7 DEF D!vars, D!Served
<1> QED
  BY <1>1, <1>3, <1>4, <1>5, <1>6, <1>7 DEF D!Next

(* And the lock of HDMI. *)
LEMMA HdmiStep == D!IInv /\ [D!Next]_D!vars => D!HdmiFollows'
<1> SUFFICES ASSUME D!IInv, [D!Next]_D!vars PROVE D!HdmiFollows'
  OBVIOUS
<1> USE DEF D!HdmiFollows, D!Served, D!Queued
<1>0. D!TypeOK /\ D!UsersKnown /\ D!HdmiFollows
  BY DEF D!IInv, D!LockFollowsPlug
<1>1. ASSUME NEW j \in jacks, D!Change(j) PROVE D!HdmiFollows'
  BY <1>0, <1>1 DEF D!Change, D!Locking
<1>2. ASSUME NEW j \in jacks, UNCHANGED <<jacks, online>>,
             NEW read \in BOOLEAN, D!MoveLock(j, read),
             noti' \union {j} = noti \union {j}
      PROVE  D!HdmiFollows'
  <2>1. CASE j = "hdmi"
    BY <1>0, <1>2, <2>1, LockMoved DEF D!Lcd, D!Locking
  <2>2. CASE j # "hdmi"
    <3>1. /\ "hdmi" \in slipped => "hdmi" \in slipped'
          /\ "LCD_NORMAL" \in locks' <=> "LCD_NORMAL" \in locks
          /\ "LCD_NORMAL" \in borrowed' <=> "LCD_NORMAL" \in borrowed
      BY <1>0, <1>2, <2>2, LockMoved
    <3> QED
      BY <1>0, <1>2, <2>2, <3>1
  <2> QED
    BY <2>1, <2>2
<1>3. ASSUME NEW j \in jacks, D!Chgdet(j) PROVE D!HdmiFollows'
  <2>1. CASE D!QueueAct(j)
    BY <1>0, <1>3, <2>1, QueueingKeeps
  <2>2. CASE D!Tell(j) /\ UNCHANGED queue
    BY <1>2, <1>3, <2>2 DEF D!Chgdet, D!Tell
  <2> QED
    BY <1>3, <2>1, <2>2 DEF D!Chgdet
<1>4. ASSUME NEW j \in jacks, D!RunAct(j) PROVE D!HdmiFollows'
  BY <1>0, <1>2, <1>4 DEF D!RunAct, D!Tell
<1>5. CASE D!Register
  <2>1. UNCHANGED <<jacks, online, noti>>
    BY <1>5 DEF D!Register
  <2>2. UNCHANGED <<locks, slipped, borrowed>> \/
            ("hdmi" \in jacks /\ \E read \in BOOLEAN : D!MoveLock("hdmi", read))
    BY <1>5 DEF D!Register
  <2> QED
    BY <1>0, <1>2, <2>1, <2>2
<1>6. ASSUME NEW state \in {"LCD_NORMAL", "LCD_OFF"}, D!TimeAct(state)
      PROVE  D!HdmiFollows'
  BY <1>0, <1>6 DEF D!TimeAct
<1>7. CASE UNCHANGED D!vars
  BY <1>0, <1>7 DEF D!vars
<1> QED
  BY <1>1, <1>3, <1>4, <1>5, <1>6, <1>7 DEF D!Next

(* The inductive invariant of the jacks. *)
LEMMA JacksInvariance == D!Spec => []D!IInv
<1>1. D!Init => D!IInv
  <2> SUFFICES ASSUME D!Init PROVE D!IInv
    OBVIOUS
  <2> USE DEF D!Init
  <2>1. locks = UNION {D!LockOf(j) : j \in online \ slipped}
    OBVIOUS
  <2>2. D!TypeOK
    <3>1. locks \subseteq {"LCD_NORMAL", "LCD_OFF"}
      BY <2>1 DEF D!LockOf
    <3>2. queue \in [D!Queued -> 0..MaxCalls]
      BY HandlersAssumption
    <3>3. key \in [D!Keyed -> D!Keys] /\ missed \subseteq D!Keyed /\ slipped \subseteq D!Locking
      OBVIOUS
    <3> QED
      BY <3>1, <3>2, <3>3 DEF D!TypeOK
  <2>3. D!UsersKnown /\ D!KeysSettle
    BY DEF D!UsersKnown, D!KeysSettle, D!Served, D!Lcd, D!Queued
  <2>4. D!LockFollowsPlug
    <3>1. "LCD_OFF" \in locks <=> (online \ slipped) \intersect D!Lcd # {}
      BY <2>1 DEF D!LockOf, D!Lcd
    <3>2. "LCD_NORMAL" \in locks <=> "hdmi" \in online \ slipped
      BY <2>1 DEF D!LockOf, D!Lcd
    <3> QED
      BY <3>1, <3>2 DEF D!LockFollowsPlug, D!LcdFollows, D!HdmiFollows, D!Lcd
  <2> QED
    BY <2>2, <2>3, <2>4 DEF D!IInv
<1>2. D!IInv /\ [D!Next]_D!vars => D!IInv'
  BY JacksTypes, UsersStep, KeysStep, LcdStep, HdmiStep DEF D!IInv, D!LockFollowsPlug
<1> QED
  BY <1>1, <1>2, PTL DEF D!Spec

(* For any set of jacks and however reports, queued acts and changes cross, *)
(* clients are told what is plugged in once all is served, but for the      *)
(* exceptions named in the property.                                        *)
THEOREM ClientsSeeTheJacks == D!Spec => []KeysSettle
<1>1. D!IInv => KeysSettle
  BY DEF D!IInv, KeysSettle
<1> QED
  BY <1>1, JacksInvariance, PTL

(* And the display is locked for what is plugged in, but for the exceptions *)
(* named in the property.                                                   *)
THEOREM LocksFollowTheJacks == D!Spec => []LockFollowsPlug
<1>1. D!IInv => LockFollowsPlug
  BY DEF D!IInv, LockFollowsPlug
<1> QED
  BY <1>1, JacksInvariance, PTL
----------------------------------------------------------------------------
(* The inductive invariant of the notice of a full battery. *)
LEMMA ChargeInvariance == C!Spec => []C!IInv
<1> USE DEF C!IInv, C!TypeOK, C!FlagFollows, C!HelperFollows, C!Healths
<1>1. C!Init => C!IInv
  BY DEF C!Init
<1>2. C!IInv /\ [C!Next]_C!vars => C!IInv'
  <2> SUFFICES ASSUME C!IInv, [C!Next]_C!vars PROVE C!IInv'
    OBVIOUS
  <2>1. CASE C!Battery
    BY <2>1 DEF C!Battery
  <2>2. CASE C!ChargeCb
    <3> USE DEF C!Judge, C!Notify, C!Launch
    <3>1. CASE health = "bad" /\ UNCHANGED <<bat_full_noti, helper, lost>> /\ misread'
      BY <2>2, <3>1 DEF C!ChargeCb
    <3>2. ASSUME NEW val, C!Judge(val), misread' \/ val = IF full THEN "1" ELSE "0",
                 misread' \in BOOLEAN
          PROVE  C!IInv'
      BY <2>2, <3>2 DEF C!ChargeCb
    <3> QED
      BY <2>2, <3>1, <3>2 DEF C!ChargeCb
  <2>3. CASE C!PluggedIn
    BY <2>3 DEF C!PluggedIn, C!Launch
  <2>4. CASE C!HelperActs
    BY <2>4 DEF C!HelperActs
  <2>5. CASE C!HelperEnds
    BY <2>5 DEF C!HelperEnds
  <2>6. CASE UNCHANGED C!vars
    BY <2>6 DEF C!vars
  <2> QED
    BY <2>1, <2>2, <2>3, <2>4, <2>5, <2>6 DEF C!Next
<1> QED
  BY <1>1, <1>2, PTL DEF C!Spec

(* The notice in the tray is that of the battery, but for the exceptions   *)
(* named in the property.                                                  *)
THEOREM NoticeFollowsBattery == C!Spec => []FullNoticeSettles
<1>1. C!IInv => FullNoticeSettles
  BY DEF C!IInv, C!TypeOK, C!FlagFollows, C!HelperFollows, FullNoticeSettles,
         C!FullNoticeSettles
<1> QED
  BY <1>1, ChargeInvariance, PTL
----------------------------------------------------------------------------
(* A request of a timezone takes effect, whatever the zones and the requests *)
(* before it.                                                                *)
THEOREM ZoneRequestsTakeEffect == T!Spec => RequestTakesEffect
<1> USE DEF T!TypeOK
<1>1. T!Init => T!TypeOK
  BY DEF T!Init
<1>2. T!TypeOK /\ [T!Next]_T!vars => T!TypeOK'
  BY DEF T!Next, T!vars, T!HandleTimezone, T!ZoneFile
<1>3. T!TypeOK /\ [T!Next]_T!vars =>
        [UNCHANGED zone_files /\ unlinked' /\ linked' =>
            link' = asked' \/ (link \in Zones \ zone_files /\ link' = link)]_T!vars
  <2> SUFFICES ASSUME T!TypeOK, T!Next, UNCHANGED zone_files, unlinked', linked'
               PROVE  link' = asked' \/ (link \in Zones \ zone_files /\ link' = link)
    OBVIOUS
  <2> PICK zone \in Zones : T!HandleTimezone(zone)
    BY HandlersAssumption DEF T!Next, T!ZoneFile
  <2> QED
    BY DEF T!HandleTimezone, T!Resolves
<1> QED
  BY <1>1, <1>2, <1>3, PTL DEF T!Spec, RequestTakesEffect, T!RequestTakesEffect
----------------------------------------------------------------------------
(* The first client in line leaves it, and is not in it any more. *)
LEMMA LineMoves ==
    ASSUME S!IInv, backlog # <<>>, backlog' = Tail(backlog)
    PROVE  /\ backlog' \in Seq(Clients) /\ Head(backlog) = backlog[1]
           /\ \A k \in 1..Len(backlog') : /\ k + 1 \in 1..Len(backlog)
                                          /\ backlog'[k] = backlog[k + 1]
                                          /\ backlog'[k] # Head(backlog)
<1> USE DEF S!IInv, S!TypeOK, S!InLine
<1>1. backlog \in Seq(Clients) /\ Len(backlog) \in Nat /\ Len(backlog) > 0
  OBVIOUS
<1>2. /\ backlog' \in Seq(Clients) /\ Head(backlog) = backlog[1]
      /\ Len(backlog') = Len(backlog) - 1
      /\ \A k \in 1..Len(backlog') : backlog'[k] = backlog[k + 1]
  BY <1>1
<1>3. \A i, k \in 1..Len(backlog) : backlog[i] = backlog[k] => i = k
  OBVIOUS
<1> QED
  BY <1>1, <1>2, <1>3

(* What a served request comes to is right. *)
LEMMA OutcomesAreRight ==
    ASSUME S!IInv, serving # S!Nobody, S!RequestOver,
           NEW outcome \in S!Outcomes(serving, got)
    PROVE  /\ outcome \in {"accepted", "refused", "died"}
           /\ outcome = "accepted" =>
                kind[serving] \in {"call", "toomany"} /\ sent[serving] >= S!Type
           /\ outcome = "died" =>
                S!Cut(serving) \/ kind[serving] \in {"notype", "toomany"}
           /\ ~S!Cut(serving) =>
                IF kind[serving] = "call" THEN outcome = "accepted"
                ELSE outcome # "accepted"
<1> USE DEF S!IInv, S!TypeOK, S!InLine, S!RequestOver, S!Outcomes, S!Cut, S!Pieces,
            S!Type, S!Argc, S!Kinds
<1>1. serving \in Clients /\ got \in 0..4 /\ sent[serving] \in 0..4 /\ got <= sent[serving]
  OBVIOUS
<1>2. S!Cut(serving) \/ got = 4
  BY <1>1
<1> QED
  BY <1>1, <1>2

(* The inductive invariant of the requests. *)
LEMMA RequestsInvariance == S!Spec => []S!IInv
<1> USE DEF S!Answered, S!Cut, S!Pieces, S!Nobody
<1>1. S!Init => S!IInv
  <2> SUFFICES ASSUME S!Init PROVE S!IInv
    OBVIOUS
  <2> USE DEF S!Init, S!Service!Init
  <2>1. S!TypeOK
    <3>1. S!Service!TypeOK
      BY DEF S!Service!TypeOK
    <3>2. backlog \in Seq(Clients) /\ serving = "nobody" /\ got \in 0..4
      OBVIOUS
    <3>3. sent \in [Clients -> 0..4] /\ conn \in [Clients -> {"new", "open", "closed"}]
      OBVIOUS
    <3>4. died \in BOOLEAN /\ answer \in [Clients -> {"none", "accepted", "refused"}]
      OBVIOUS
    <3>5. kind \in [Clients -> S!Kinds]
      OBVIOUS
    <3> QED
      BY <3>1, <3>2, <3>3, <3>4, <3>5 DEF S!TypeOK
  <2>2. Len(backlog) = 0
    OBVIOUS
  <2>3. S!InLine /\ S!OnlyBadRequestsGoWrong
    BY <2>2 DEF S!InLine, S!OnlyBadRequestsGoWrong
  <2> QED
    BY <2>1, <2>3 DEF S!IInv
<1>2. S!IInv /\ [S!Next]_S!vars => S!IInv'
  <2> SUFFICES ASSUME S!IInv, [S!Next]_S!vars PROVE S!IInv'
    OBVIOUS
  <2> USE DEF S!IInv, S!TypeOK, S!Service!TypeOK, S!InLine, S!OnlyBadRequestsGoWrong
  <2>1. ASSUME NEW c \in Clients, S!Connect(c) PROVE S!IInv'
    <3>1. /\ backlog' \in Seq(Clients) /\ Len(backlog') = Len(backlog) + 1
          /\ Len(backlog) \in Nat
          /\ \A k \in 1..Len(backlog') :
                backlog'[k] = IF k = Len(backlog) + 1 THEN c ELSE backlog[k]
      BY <2>1 DEF S!Connect
    <3>2. S!InLine'
      BY <2>1, <3>1, HandlersAssumption DEF S!Connect
    <3>3. S!TypeOK'
      BY <2>1, <3>1 DEF S!Connect
    <3>4. S!OnlyBadRequestsGoWrong'
      BY <2>1, <3>1, <3>2 DEF S!Connect
    <3> QED
      BY <3>2, <3>3, <3>4
  <2>2. ASSUME NEW c \in Clients, S!Send(c) PROVE S!IInv'
    BY <2>2 DEF S!Send, S!Type
  <2>3. ASSUME NEW c \in Clients, S!Close(c) PROVE S!IInv'
    BY <2>3 DEF S!Close
  <2>4. CASE S!Accept
    <3>1. /\ serving' = Head(backlog) /\ backlog # <<>> /\ backlog' = Tail(backlog)
          /\ got' = 0
          /\ UNCHANGED <<kind, conn, sent, answer, died, status, busy>>
      BY <2>4 DEF S!Accept
    <3>2. /\ backlog' \in Seq(Clients) /\ serving' = backlog[1]
          /\ 1 \in 1..Len(backlog) /\ serving' \in Clients
          /\ \A k \in 1..Len(backlog') : /\ k + 1 \in 1..Len(backlog)
                                         /\ backlog'[k] = backlog[k + 1]
                                         /\ backlog'[k] # serving'
      BY <3>1, LineMoves
    <3>3. S!TypeOK'
      BY <3>1, <3>2
    <3>4. S!InLine'
      <4>1. \A i, k \in 1..Len(backlog') : backlog'[i] = backlog'[k] => i = k
        <5> TAKE i, k \in 1..Len(backlog')
        <5>1. i \in Nat /\ k \in Nat /\ i + 1 \in 1..Len(backlog) /\ k + 1 \in 1..Len(backlog)
          BY <3>2
        <5>2. backlog[i + 1] = backlog[k + 1] => i + 1 = k + 1
          BY <5>1
        <5> QED
          BY <3>2, <5>1, <5>2
      <4>2. \A k \in 1..Len(backlog') :
                conn[backlog'[k]] # "new" /\ ~(answer[backlog'[k]] # "none")
        BY <3>2
      <4>3. conn[serving'] # "new" /\ answer[serving'] = "none"
        BY <3>2
      <4>4. sent[serving'] \in 0..4
        BY <3>2
      <4> QED
        BY <3>1, <3>2, <4>1, <4>2, <4>3, <4>4
    <3>5. S!OnlyBadRequestsGoWrong'
      BY <3>1, <3>2
    <3> QED
      BY <3>3, <3>4, <3>5
  <2>5. CASE S!Read
    BY <2>5 DEF S!Read
  <2>6. CASE S!Answer
    <3>1. PICK outcome \in S!Outcomes(serving, got) :
              /\ died' = (outcome = "died")
              /\ answer' = IF outcome = "died" THEN answer
                           ELSE [answer EXCEPT ![serving] = outcome]
              /\ IF outcome = "accepted" THEN S!Service!Accept(serving)
                 ELSE UNCHANGED <<status, busy>>
      BY <2>6 DEF S!Answer
    <3>2. outcome \in {"accepted", "refused", "died"} /\ serving \in Clients
      BY <2>6, OutcomesAreRight DEF S!Answer
    <3>3. /\ serving' = "nobody" /\ UNCHANGED <<kind, conn, sent, backlog, got>>
          /\ serving # "nobody" /\ S!RequestOver
      BY <2>6 DEF S!Answer
    <3>4. S!TypeOK'
      BY <3>1, <3>2, <3>3 DEF S!Service!Accept
    <3>5. S!InLine'
      <4>1. \A c \in Clients : c = serving \/ answer'[c] = answer[c]
        BY <3>1, <3>2
      <4>2. \A k \in 1..Len(backlog) : backlog[k] \in Clients \ {serving}
        OBVIOUS
      <4>3. \A k \in 1..Len(backlog') :
                conn'[backlog'[k]] # "new" /\ ~(answer'[backlog'[k]] # "none")
        BY <3>3, <4>1, <4>2
      <4> QED
        BY <3>3, HandlersAssumption, <4>1, <4>2, <4>3
    <3>6. S!OnlyBadRequestsGoWrong'
      BY <3>1, <3>2, <3>3, OutcomesAreRight DEF S!Service!Accept
    <3> QED
      BY <3>4, <3>5, <3>6
  <2>7. CASE S!RunQueue
    <3>1. /\ S!Service!TypeOK'
          /\ \A c \in Clients : status'[c] = "idle" <=> status[c] = "idle"
      <4>1. CASE S!Service!Retire
        BY <4>1 DEF S!Service!Retire
      <4>2. ASSUME NEW c \in Clients, S!Service!Start(c)
            PROVE  /\ S!Service!TypeOK'
                   /\ \A d \in Clients : status'[d] = "idle" <=> status[d] = "idle"
        BY <4>2 DEF S!Service!Start
      <4> QED
        BY <2>7, <4>1, <4>2 DEF S!RunQueue
    <3> QED
      BY <2>7, <3>1 DEF S!RunQueue, S!socketVars
  <2>8. CASE S!Gone
    BY <2>8 DEF S!Gone, S!Service!ProcessGone, S!socketVars
  <2>9. CASE UNCHANGED S!vars
    BY <2>9 DEF S!vars, S!socketVars
  <2> QED
    BY <2>1, <2>2, <2>3, <2>4, <2>5, <2>6, <2>7, <2>8, <2>9 DEF S!Next, S!Daemon
<1> QED
  BY <1>1, <1>2, PTL DEF S!Spec

(* For any number of clients and however their sends and closes cross, only a *)
(* request that was cut, has an empty type or has too many arguments is not   *)
(* answered with what holds of it.                                            *)
THEOREM WholeRequestsAreRight == S!Spec => []OnlyBadRequestsGoWrong
<1>1. S!IInv => OnlyBadRequestsGoWrong
  BY DEF S!IInv, OnlyBadRequestsGoWrong
<1> QED
  BY <1>1, RequestsInvariance, PTL
(* The requests that are accepted and what becomes of them are calls as      *)
(* ActionService has them, which is also what RunQueue implements: a crash of *)
(* the daemon, a client that is slow or one that closes starts no call twice. *)
THEOREM RequestsUseTheService == S!Spec => S!Service!Spec
<1>1. S!Init => S!Service!Init
  BY DEF S!Init
<1>2. S!TypeOK /\ [S!Next]_S!vars => [S!Service!Next]_(S!Service!vars)
  <2> SUFFICES ASSUME S!TypeOK, [S!Next]_S!vars
               PROVE  S!Service!Next \/ UNCHANGED <<status, busy>>
    BY DEF S!Service!vars
  <2>1. CASE S!Answer
    <3>1. S!Service!Accept(serving) \/ UNCHANGED <<status, busy>>
      BY <2>1 DEF S!Answer
    <3>2. serving \in Clients
      BY <2>1 DEF S!Answer, S!TypeOK
    <3> QED
      BY <3>1, <3>2 DEF S!Service!Next
  <2>2. CASE S!RunQueue
    BY <2>2 DEF S!RunQueue, S!Service!Next
  <2>3. CASE S!Gone
    BY <2>3 DEF S!Gone, S!Service!Next
  <2>4. CASE \E c \in Clients : S!Connect(c) \/ S!Send(c) \/ S!Close(c)
    BY <2>4 DEF S!Connect, S!Send, S!Close
  <2>5. CASE S!Accept \/ S!Read
    BY <2>5 DEF S!Accept, S!Read
  <2>6. CASE UNCHANGED S!vars
    BY <2>6 DEF S!vars
  <2> QED
    BY <2>1, <2>2, <2>3, <2>4, <2>5, <2>6 DEF S!Next, S!Daemon
<1>3. S!IInv => S!TypeOK
  BY DEF S!IInv
<1> QED
  BY <1>1, <1>2, <1>3, RequestsInvariance, PTL DEF S!Spec, S!Service!Spec
----------------------------------------------------------------------------
(* What the log looks like after a line has been appended. *)
LEMMA Appended ==
    ASSUME B!TypeOK, NEW l \in Lines \union {B!Rest}, log' = Append(log, l)
    PROVE  /\ log' \in Seq(Lines \union {B!Rest}) /\ Len(log') = Len(log) + 1
           /\ Len(log) \in Nat /\ pos \in 0..Len(log')
           /\ \A k \in 1..Len(log) : log'[k] = log[k] /\ k \in 1..Len(log')
           /\ log'[Len(log')] = l
           /\ \A k \in 1..Len(log') : k \in 1..Len(log) \/ k = Len(log')
<1> USE DEF B!TypeOK
<1>1. log \in Seq(Lines \union {B!Rest}) /\ Len(log) \in Nat
  OBVIOUS
<1>2. log' \in Seq(Lines \union {B!Rest}) /\ Len(log') = Len(log) + 1
  BY <1>1
<1>3. /\ \A k \in 1..Len(log) : log'[k] = log[k]
      /\ log'[Len(log) + 1] = l
  BY <1>1
<1> QED
  BY <1>1, <1>2, <1>3

(* Handlers do not disturb the daemon. *)
LEMMA HandlerSteps ==
    ASSUME B!IInv, NEW l \in Lines, B!BeginLine(l) \/ B!EndLine(l)
    PROVE  B!IInv'
<1> USE DEF B!IInv, B!TypeOK, B!Writing, B!Removable, B!Unreported,
            B!NothingLostQuietly, B!InLog, B!Touch, B!Nothing, B!Rest
<1>1. CASE B!BeginLine(l)
  BY <1>1, HandlersAssumption DEF B!BeginLine
<1>2. CASE B!EndLine(l)
  <2>1. PICK end \in {l, "rest"} :
            /\ log' = Append(log, end)
            /\ end = "rest" => partial = "nothing"
            /\ end = l => partial = l
    BY <1>2, HandlersAssumption DEF B!EndLine
  <2>2. /\ log' \in Seq(Lines \union {"rest"}) /\ Len(log') = Len(log) + 1
        /\ Len(log) \in Nat /\ pos \in 0..Len(log')
        /\ \A k \in 1..Len(log) : log'[k] = log[k] /\ k \in 1..Len(log')
        /\ log'[Len(log')] = end
        /\ \A k \in 1..Len(log') : k \in 1..Len(log) \/ k = Len(log')
    BY <2>1, Appended
  <2>3. B!TypeOK' /\ B!Writing'
    BY <1>2, <2>1, <2>2, HandlersAssumption DEF B!EndLine
  <2>4. B!Removable'
    BY <1>2, <2>1, <2>2, HandlersAssumption DEF B!EndLine
  <2>5. B!Unreported'
    BY <1>2, <2>1, <2>2, HandlersAssumption DEF B!EndLine
  <2>6. B!NothingLostQuietly'
    BY <1>2, <2>1, <2>2, HandlersAssumption DEF B!EndLine
  <2> QED
    BY <2>3, <2>4, <2>5, <2>6
<1> QED
  BY <1>1, <1>2

(* The inductive invariant of the crash reports. *)
LEMMA ReportsInvariance == B!Spec => []B!IInv
<1> USE DEF B!Nothing, B!Rest
<1>1. B!Init => B!IInv
  <2> SUFFICES ASSUME B!Init PROVE B!IInv
    OBVIOUS
  <2> PICK l \in Lines : log \in {<<>>, <<l>>}
    BY DEF B!Init
  <2>1. /\ log \in Seq(Lines \union {"rest"}) /\ Len(log) \in {0, 1}
        /\ \A k \in 1..Len(log) : k = 1 /\ log[k] = l
    <3>1. CASE log = <<>>
      BY <3>1
    <3>2. CASE log = <<l>>
      BY <3>2
    <3> QED
      BY <3>1, <3>2
  <2>4. B!InLog = {log[k] : k \in 1..Len(log)} \union {"nothing"}
    BY DEF B!Init, B!InLog
  <2>2. B!TypeOK
    <3>1. written \union raced \union early \subseteq Lines
      BY <2>1, <2>4 DEF B!Init
    <3>2. reported \in [Lines -> 0..2] /\ pos \in 0..Len(log)
      BY <2>1 DEF B!Init
    <3> QED
      BY <2>1, <3>1, <3>2 DEF B!Init, B!TypeOK
  <2>3. B!Writing /\ B!Removable /\ B!Unreported /\ B!NothingLostQuietly
    BY <2>1, <2>4, HandlersAssumption DEF B!Init, B!Writing, B!Removable, B!Unreported,
       B!NothingLostQuietly
  <2> QED
    BY <2>2, <2>3 DEF B!IInv
<1>2. B!IInv /\ [B!Next]_B!vars => B!IInv'
  <2> SUFFICES ASSUME B!IInv, [B!Next]_B!vars PROVE B!IInv'
    OBVIOUS
  <2> USE DEF B!IInv, B!TypeOK, B!Writing, B!Removable, B!Unreported,
              B!NothingLostQuietly, B!InLog, B!logVars, B!historyVars
  <2>1. ASSUME NEW l \in Lines, B!BeginLine(l) \/ B!EndLine(l) PROVE B!IInv'
    BY <2>1, HandlerSteps
  <2>0. /\ Len(log) \in Nat /\ pos \in Nat /\ pos <= Len(log)
        /\ \A k \in 1..Len(log) : log[k] \in Lines \union {"rest"}
    OBVIOUS
  <2>2. CASE B!BsFileCb
    <3>1. /\ phase = "idle" /\ phase' = "reading" /\ pos' = 0 /\ ok' = FALSE
          /\ changed' = FALSE
          /\ UNCHANGED <<log, partial, pending, monitored, reported, written, raced,
                        early, failed>>
      BY <2>2 DEF B!BsFileCb
    <3>2. B!TypeOK'
      <4>1. pos' \in 0..Len(log') /\ log' \in Seq(Lines \union {"rest"})
        BY <2>0, <3>1
      <4>2. {changed', monitored', ok', failed'} \subseteq BOOLEAN
        BY <3>1
      <4> QED
        BY <3>1, <4>1, <4>2
    <3>3. B!Writing' /\ B!NothingLostQuietly'
      BY <3>1
    <3>4. B!Removable' /\ B!Unreported'
      BY <2>0, <3>1
    <3> QED
      BY <3>2, <3>3, <3>4
  <2>3. CASE B!ReadLine
    <3>0. /\ phase = "reading" /\ pos + 1 \in 1..Len(log)
          /\ UNCHANGED <<log, partial, pending, changed, monitored, written, raced, early>>
      BY <2>0, <2>3 DEF B!ReadLine
    <3>1. CASE B!Worker
      <4>1. /\ \A l \in Lines : reported'[l] = IF l = log[pos + 1] /\ reported[l] < 2
                                           THEN reported[l] + 1 ELSE reported[l]
            /\ reported' \in [Lines -> 0..2]
            /\ ok' /\ ok' \in BOOLEAN /\ pos' = pos + 1 /\ UNCHANGED <<phase, failed>>
        BY <3>1 DEF B!Worker
      <4>2. /\ \A l \in Lines : l # log[pos + 1] => reported'[l] = reported[l]
            /\ \A l \in Lines : reported[l] > 0 => reported'[l] > 0
            /\ log[pos + 1] # "rest" => reported'[log[pos + 1]] > 0
        BY <2>0, <3>0, <4>1
      <4>3. B!TypeOK'
        BY <2>0, <3>0, <4>1
      <4>4. B!Writing'
        BY <2>0, <3>0, <4>1, <4>2, HandlersAssumption
      <4>5. B!Removable'
        BY <2>0, <3>0, <4>1, <4>2
      <4>6. B!Unreported'
        BY <2>0, <3>0, <4>1, <4>2
      <4>7. B!NothingLostQuietly'
        <5>1. ~failed /\ log[pos + 1] # "rest" => reported[log[pos + 1]] = 0
          BY <2>0, <3>0
        <5>2. ~failed' => \A l \in Lines : reported'[l] < 2
          <6> SUFFICES ASSUME ~failed, NEW l \in Lines PROVE reported'[l] < 2
            BY <4>1
          <6>1. reported[l] \in 0..2 /\ reported[l] < 2
            OBVIOUS
          <6>2. CASE l = log[pos + 1]
            BY <4>1, <5>1, <6>1, <6>2, HandlersAssumption
          <6>3. CASE l # log[pos + 1]
            BY <4>2, <6>1, <6>3
          <6> QED
            BY <6>2, <6>3
        <5>3. \A l \in written' :
                 reported'[l] > 0 \/ l \in (B!InLog)' \union raced'
          BY <3>0, <4>2
        <5> QED
          BY <5>2, <5>3
      <4> QED
        BY <4>3, <4>4, <4>5, <4>6, <4>7
    <3>2. CASE B!StopReading(FALSE) /\ failed' = TRUE /\ UNCHANGED <<pos, reported>>
      <4>1. /\ phase' = "idle" /\ ok' = FALSE /\ failed' = TRUE
            /\ UNCHANGED <<pos, reported>>
        BY <3>2 DEF B!StopReading
      <4>2. B!TypeOK'
        BY <3>0, <4>1
      <4> QED
        BY <3>0, <4>1, <4>2
    <3>3. CASE /\ log[pos + 1] = "rest" /\ pos' = pos + 1
               /\ UNCHANGED <<phase, ok, reported, failed>>
      BY <2>0, <3>0, <3>3
    <3>4. CASE /\ log[pos + 1] = "rest" /\ ~ok /\ B!StopReading(FALSE)
               /\ UNCHANGED <<pos, reported, failed>>
      <4>1. /\ phase' = "idle" /\ ok' = FALSE
            /\ UNCHANGED <<pos, reported, failed>>
        BY <3>4 DEF B!StopReading
      <4>2. ~failed => \A k \in 1..Len(log) : ~(log[k] # "rest" /\ reported[log[k]] > 0)
        BY <2>0, <3>0, <3>4
      <4>3. B!TypeOK'
        BY <3>0, <4>1
      <4>4. B!Writing' /\ B!NothingLostQuietly'
        BY <3>0, <4>1
      <4>5. B!Removable'
        BY <4>1
      <4>6. B!Unreported'
        BY <3>0, <4>1, <4>2
      <4> QED
        BY <4>3, <4>4, <4>5, <4>6
    <3>5. CASE B!PassRest /\ UNCHANGED <<reported, failed>>
      BY <3>3, <3>4, <3>5 DEF B!PassRest
    <3> QED
      BY <2>3, <3>1, <3>2, <3>5 DEF B!ReadLine
  <2>4. CASE B!ReadEnd
    BY <2>4 DEF B!ReadEnd, B!StopReading
  <2>5. CASE B!Empty
    <3>0. phase = "emptying" /\ phase' = "idle"
          /\ UNCHANGED <<pending, monitored, ok, reported, written, raced, early>>
      BY <2>5 DEF B!Empty
    <3>1. CASE /\ log' = <<>> /\ partial' = "nothing" /\ pos' = 0
               /\ changed' = monitored /\ UNCHANGED failed
      <4>1. log' \in Seq(Lines \union {"rest"}) /\ Len(log') = 0
        BY <3>1
      <4>2. B!TypeOK' /\ B!Writing' /\ B!Removable' /\ B!Unreported'
        BY <3>0, <3>1, <4>1
      <4>3. B!NothingLostQuietly'
        BY <3>0, <3>1, HandlersAssumption
      <4> QED
        BY <4>2, <4>3
    <3>2. CASE failed' = TRUE /\ UNCHANGED <<log, partial, pos, changed>>
      BY <3>0, <3>2
    <3> QED
      BY <2>5, <3>1, <3>2 DEF B!Empty
  <2>6. CASE B!Watch
    BY <2>6 DEF B!Watch
  <2>7. CASE UNCHANGED B!vars
    BY <2>7 DEF B!vars
  <2> QED
    BY <2>1, <2>2, <2>3, <2>4, <2>5, <2>6, <2>7 DEF B!Next, B!Daemon
<1> QED
  BY <1>1, <1>2, PTL DEF B!Spec

(* No line disappears from the log quietly, nor is one reported twice,     *)
(* however many handlers append and wherever the emptying falls.           *)
THEOREM CrashesAreNotLost == B!Spec => []NothingLostQuietly
<1>1. B!IInv => NothingLostQuietly
  BY DEF B!IInv, NothingLostQuietly
<1> QED
  BY <1>1, ReportsInvariance, PTL
----------------------------------------------------------------------------
(* The oldest report is taken; the others stay. *)
LEMMA DeathTaken ==
    ASSUME P!IInv, deaths # <<>>, deaths' = Tail(deaths)
    PROVE  /\ Head(deaths) \in Pids /\ P!Reported(Head(deaths))
           /\ deaths' \in Seq(Pids) /\ Len(deaths') <= MaxDeaths
           /\ \A q : P!Reported(q) <=> P!Reported(q)' \/ q = Head(deaths)
           /\ \A q : P!Reported(q)' <=> \E k \in 2..Len(deaths) : deaths[k] = q
           /\ \A q : q = Head(deaths) /\ P!Reported(q)' => P!Spoiled(file[q])
           /\ \A i, k \in 1..Len(deaths') :
                 deaths'[i] = deaths'[k] /\ i # k => P!Spoiled(file[deaths'[i]])
<1> USE DEF P!IInv, P!TypeOK, P!FilesAreRight, P!Reported
<1>1. /\ deaths \in Seq(Pids) /\ Len(deaths) \in Nat /\ Len(deaths) > 0
      /\ Head(deaths) = deaths[1] /\ Len(deaths) <= MaxDeaths /\ MaxDeaths \in Nat
  BY HandlersAssumption
<1>2. /\ deaths' \in Seq(Pids) /\ Len(deaths') = Len(deaths) - 1
      /\ \A k \in 1..Len(deaths') : deaths'[k] = deaths[k + 1]
  BY <1>1
<1>3. \A k \in 2..Len(deaths) : k - 1 \in 1..Len(deaths') /\ deaths'[k - 1] = deaths[k]
  BY <1>1, <1>2
<1>4. \A k \in 1..Len(deaths') : k + 1 \in 2..Len(deaths)
  BY <1>1, <1>2
<1>5. /\ \A k \in 1..Len(deaths) : k = 1 \/ k \in 2..Len(deaths)
      /\ 1 \in 1..Len(deaths) /\ \A k \in 2..Len(deaths) : k \in 1..Len(deaths) /\ k # 1
  BY <1>1
<1>6. \A q : P!Reported(q)' <=> \E k \in 2..Len(deaths) : deaths[k] = q
  BY <1>2, <1>3, <1>4
<1>7. \A q : P!Reported(q) <=> P!Reported(q)' \/ q = Head(deaths)
  BY <1>1, <1>5, <1>6
<1>8. \A q : q = Head(deaths) /\ P!Reported(q)' => P!Spoiled(file[q])
  <2> SUFFICES ASSUME NEW q, q = deaths[1], P!Reported(q)' PROVE P!Spoiled(file[deaths[1]])
    BY <1>1
  <2>1. PICK k \in 2..Len(deaths) : deaths[k] = deaths[1]
    BY <1>1, <1>6
  <2>2. 1 \in 1..Len(deaths) /\ k \in 1..Len(deaths) /\ 1 # k
    BY <1>5
  <2> QED
    BY <2>1, <2>2
<1>9. ASSUME NEW i \in 1..Len(deaths'), NEW k \in 1..Len(deaths'), deaths'[i] = deaths'[k],
             i # k
      PROVE  P!Spoiled(file[deaths'[i]])
  <2>1. i \in Nat /\ k \in Nat /\ i + 1 \in 1..Len(deaths) /\ k + 1 \in 1..Len(deaths)
        /\ i + 1 # k + 1
    <3>1. i \in Nat /\ k \in Nat /\ i >= 1 /\ k >= 1 /\ i <= Len(deaths')
          /\ k <= Len(deaths')
      BY <1>1, <1>2
    <3> QED
      BY <1>1, <1>2, <1>9, <3>1
  <2> QED
    BY <1>2, <1>9, <2>1
<1> QED
  BY <1>1, <1>2, <1>5, <1>6, <1>7, <1>8, <1>9

(* A death keeps the invariant ... *)
LEMMA DieStep == ASSUME P!IInv, NEW p \in Pids, P!Die(p) PROVE P!IInv'
<1> USE DEF P!IInv, P!TypeOK, P!FilesAreRight, P!ServedIsOver, P!PermanentStays,
            P!StandsFor, P!Kept, P!Spoiled, P!Die, P!Spoil, P!None, P!Mixed
<1>1. /\ proc[p] # "none" /\ proc' = [proc EXCEPT ![p] = "none"]
      /\ watched' = watched \ {p} /\ UNCHANGED <<file, adopting>>
      /\ spoiled \subseteq spoiled' /\ spoiled' \subseteq Programs
      /\ p \notin watched /\ proc[p] \in Programs => proc[p] \in spoiled'
  OBVIOUS
<1>2. /\ deaths' \in Seq(Pids) /\ Len(deaths') <= MaxDeaths
      /\ \A q : P!Reported(q)' <=> P!Reported(q) \/ (q = p /\ p \in watched)
      /\ \A i, k \in 1..Len(deaths') :
            deaths'[i] = deaths'[k] /\ i # k =>
                \/ i \in 1..Len(deaths) /\ k \in 1..Len(deaths)
                   /\ deaths[i] = deaths[k] /\ deaths'[i] = deaths[i]
                \/ deaths'[i] = p /\ p \in watched /\ P!Reported(p)
  <2>1. CASE p \notin watched
    BY <2>1 DEF P!Reported
  <2>2. CASE p \in watched
    <3>1. deaths' = Append(deaths, p) /\ deaths \in Seq(Pids) /\ Len(deaths) \in Nat
          /\ Len(deaths) < MaxDeaths /\ MaxDeaths \in Nat
      BY <2>2, HandlersAssumption
    <3>2. /\ deaths' \in Seq(Pids) /\ Len(deaths') = Len(deaths) + 1
          /\ \A k \in 1..Len(deaths) : k \in 1..Len(deaths') /\ deaths'[k] = deaths[k]
          /\ deaths'[Len(deaths) + 1] = p
          /\ \A k \in 1..Len(deaths') : k \in 1..Len(deaths) \/ k = Len(deaths) + 1
          /\ Len(deaths) + 1 \in 1..Len(deaths')
      BY <3>1
    <3>3. \A q : P!Reported(q)' <=> P!Reported(q) \/ q = p
      BY <3>2 DEF P!Reported
    <3>4. ASSUME NEW i \in 1..Len(deaths'), NEW k \in 1..Len(deaths'),
                 deaths'[i] = deaths'[k], i # k
          PROVE  \/ i \in 1..Len(deaths) /\ k \in 1..Len(deaths)
                    /\ deaths[i] = deaths[k] /\ deaths'[i] = deaths[i]
                 \/ deaths'[i] = p /\ P!Reported(p)
      BY <3>2, <3>4 DEF P!Reported
    <3> QED
      BY <2>2, <3>1, <3>2, <3>3, <3>4
  <2> QED
    BY <2>1, <2>2
<1>3. P!TypeOK'
  BY <1>1, <1>2
<1>4. \A q \in Pids : P!Kept(q)' => P!Kept(q) /\ q # p /\ proc'[q] = proc[q]
  BY <1>1
<1>5. P!FilesAreRight'
  <2>1. \A q \in Pids : P!Kept(q)' =>
            \/ P!Spoiled(file[q])' /\ P!Spoiled(proc[q])'
            \/ file'[q] = proc'[q] /\ ~P!Reported(q)'
    BY <1>1, <1>2, <1>4
  <2>2. P!Reported(p) /\ p \in watched => P!Spoiled(file[p])
    BY <1>1
  <2>3. \A i, k \in 1..Len(deaths') :
            deaths'[i] = deaths'[k] /\ i # k => P!Spoiled(file[deaths[i]])'
    BY <1>1, <1>2, <2>2
  <2> QED
    BY <2>1, <2>3
<1>6. \A q \in Pids, g \in Programs \ spoiled' :
          P!StandsFor(q, g)' <=> P!StandsFor(q, g)
  <2> SUFFICES ASSUME NEW q \in Pids, NEW g \in Programs \ spoiled'
               PROVE  P!StandsFor(q, g)' <=> P!StandsFor(q, g)
    OBVIOUS
  <2>1. /\ P!StandsFor(q, g) <=>
              file[q] = g /\ ((proc[q] = g /\ P!Kept(q)) \/ P!Reported(q))
        /\ P!StandsFor(q, g)' <=>
              file'[q] = g /\ ((proc'[q] = g /\ P!Kept(q)') \/ P!Reported(q)')
    BY HandlersAssumption DEF P!Reported
  <2>2. CASE q # p
    BY <1>1, <1>2, <2>1, <2>2
  <2>3. CASE q = p
    <3>1. p \in watched => P!Kept(p)
      BY <1>1
    <3> QED
      BY <1>1, <1>2, <2>1, <2>3, <3>1, HandlersAssumption
  <2> QED
    BY <2>2, <2>3
<1>7. P!PermanentStays'
  BY <1>1, <1>6 DEF P!PermanentStays
<1>8. P!ServedIsOver'
  BY <1>1, <1>6
<1> QED
  BY <1>3, <1>5, <1>7, <1>8

(* ... so does serving a report, ... *)
LEMMA PmonCbStep == ASSUME P!IInv, P!PmonCb PROVE P!IInv'
<1> USE DEF P!None, P!Mixed
<1> DEFINE pid == Head(deaths)
<1>1. /\ adopting = <<>> /\ deaths # <<>> /\ deaths' = Tail(deaths) /\ UNCHANGED watched
      /\ P!Ignore(pid) \/ \E new_pid \in Pids : P!Relaunch(pid, new_pid)
  BY DEF P!PmonCb
<1>2. /\ pid \in Pids /\ P!Reported(pid)
      /\ deaths' \in Seq(Pids) /\ Len(deaths') <= MaxDeaths
      /\ \A q : P!Reported(q) <=> P!Reported(q)' \/ q = pid
      /\ \A q : P!Reported(q)' <=> \E k \in 2..Len(deaths) : deaths[k] = q
      /\ \A q : q = pid /\ P!Reported(q)' => P!Spoiled(file[q])
      /\ \A i, k \in 1..Len(deaths') :
            deaths'[i] = deaths'[k] /\ i # k => P!Spoiled(file[deaths'[i]])
  BY <1>1, DeathTaken
<1> HIDE DEF pid
<1> USE DEF P!IInv, P!TypeOK, P!FilesAreRight, P!ServedIsOver, P!Kept, P!Spoiled,
            P!Spoil
<1>3. \A q \in Pids, g \in Programs :
          /\ P!StandsFor(q, g) <=>
                file[q] = g /\ ((proc[q] = g /\ P!Kept(q)) \/ P!Reported(q))
          /\ P!StandsFor(q, g)' <=>
                file'[q] = g /\ ((proc'[q] = g /\ P!Kept(q)') \/ P!Reported(q)')
  BY HandlersAssumption DEF P!StandsFor, P!Reported
<1>4. ASSUME spoiled' = spoiled \union ({file[pid]} \intersect Programs),
             UNCHANGED <<file, adopting>>,
             \A q \in Pids : P!Kept(q) => proc'[q] = proc[q],
             \A q \in Pids : q \in watched => proc'[q] # "none",
             proc' \in [Pids -> Programs \union {"none", "mixed"}]
      PROVE  P!IInv'
  <2>1. P!TypeOK'
    BY <1>1, <1>2, <1>4
  <2>2. \A q \in Pids : P!Kept(q)' => P!Kept(q) /\ proc'[q] = proc[q]
    BY <1>1, <1>4
  <2>3. P!FilesAreRight'
    BY <1>1, <1>2, <1>4, <2>2
  <2>4. \A q \in Pids, g \in Programs \ spoiled' :
            P!StandsFor(q, g)' <=> P!StandsFor(q, g)
    BY <1>1, <1>2, <1>3, <1>4, <2>2
  <2>5. P!PermanentStays'
    BY <1>4, <2>4 DEF P!PermanentStays
  <2>6. P!ServedIsOver'
    BY <1>1, <1>4
  <2> QED
    BY <2>1, <2>3, <2>5, <2>6
<1>5. CASE P!Ignore(pid)
  BY <1>4, <1>5 DEF P!Ignore
<1>6. ASSUME NEW new_pid \in Pids, P!Relaunch(pid, new_pid) PROVE P!IInv'
  <2>1. /\ file[pid] \in Programs \union {"mixed"} /\ proc[new_pid] = "none"
        /\ proc' = [proc EXCEPT ![new_pid] = file[pid]]
        /\ new_pid \notin watched /\ ~P!Kept(new_pid)
    BY <1>1, <1>2, <1>6 DEF P!Relaunch
  <2>2. CASE P!Spoil({file[pid]}) /\ UNCHANGED <<file, adopting>>
    BY <1>2, <1>4, <2>1, <2>2
  <2>3. CASE adopting' = <<pid, new_pid>> /\ ~UNCHANGED adopting
    <3>1. PICK text \in IF file[new_pid] \in {"none", file[pid]} THEN {file[pid]}
                        ELSE {file[pid], "mixed"} :
              file' = [file EXCEPT ![new_pid] = text]
      BY <1>6, <2>3 DEF P!Relaunch
    <3>2. /\ spoiled \subseteq spoiled' /\ spoiled' \subseteq Programs
          /\ P!Reused(pid, new_pid) =>
                \A g \in Programs : g \in {file[pid], file[new_pid]} => g \in spoiled'
      BY <1>6, <2>3 DEF P!Relaunch
    <3>3. P!Reused(pid, new_pid) <=>
            file[new_pid] \notin {"none", file[pid]} \/ P!Reported(new_pid)'
      BY <1>2 DEF P!Reused
    <3>4. P!TypeOK'
      BY <1>1, <1>2, <2>1, <2>3, <3>1, <3>2
    <3>5. \A q \in Pids : P!Kept(q)' <=> P!Kept(q) \/ q = new_pid
      BY <1>1, <1>2, <2>1, <2>3, HandlersAssumption
    <3>6. \A q \in Pids : q # new_pid => file'[q] = file[q] /\ proc'[q] = proc[q]
      BY <2>1, <3>1
    <3>7. P!FilesAreRight'
      <4>1. ASSUME NEW q \in Pids, P!Kept(q)'
            PROVE  \/ P!Spoiled(file[q])' /\ P!Spoiled(proc[q])'
                   \/ file'[q] = proc'[q] /\ ~P!Reported(q)'
        <5>1. CASE q = new_pid
          BY <2>1, <3>1, <3>2, <3>3, <5>1, HandlersAssumption
        <5>2. CASE q # new_pid
          BY <1>2, <3>2, <3>5, <3>6, <4>1, <5>2
        <5> QED
          BY <5>1, <5>2
      <4>2. ASSUME NEW i \in 1..Len(deaths'), NEW k \in 1..Len(deaths'),
                   deaths'[i] = deaths'[k], i # k
            PROVE  P!Spoiled(file[deaths[i]])'
        <5>1. deaths'[i] \in Pids /\ P!Reported(deaths[i])'
          BY <1>2 DEF P!Reported
        <5>2. CASE deaths'[i] = new_pid
          BY <2>1, <3>1, <3>2, <3>3, <5>1, <5>2, HandlersAssumption
        <5>3. CASE deaths'[i] # new_pid
          BY <1>2, <3>2, <3>6, <4>2, <5>1, <5>3
        <5> QED
          BY <5>2, <5>3
      <4> QED
        BY <4>1, <4>2
    <3>8. ASSUME NEW g \in Programs \ spoiled'
          PROVE  \E p \in Pids : /\ P!StandsFor(p, g)'
                                 /\ \A q \in Pids : P!StandsFor(q, g)' => q = p
      <4>1. PICK p \in Pids : P!StandsFor(p, g) /\ \A q \in Pids : P!StandsFor(q, g) => q = p
        BY <3>2 DEF P!PermanentStays
      <4>2. \A q \in Pids : q # new_pid =>
                (P!StandsFor(q, g)' <=>
                    file[q] = g /\ ((proc[q] = g /\ P!Kept(q)) \/ P!Reported(q)'))
        BY <1>3, <3>5, <3>6
      <4>3. CASE g = file[pid]
        <5>1. p = pid /\ ~P!Reused(pid, new_pid)
          BY <1>2, <1>3, <3>2, <4>1, <4>3
        <5>2. P!StandsFor(new_pid, g)'
          BY <1>3, <2>1, <3>1, <3>3, <3>5, <4>3, <5>1
        <5>3. \A q \in Pids : q # new_pid /\ q # pid => ~P!StandsFor(q, g)'
          BY <1>2, <1>3, <4>1, <4>2, <5>1
        <5>4. ~P!Kept(pid) /\ \A q : q = pid => ~P!Reported(q)'
          BY <1>2, <3>2, <4>3
        <5>5. pid # new_pid => ~(\E q \in Pids : q = pid /\ P!StandsFor(q, g)')
          BY <1>2, <4>2, <5>4
        <5> QED
          BY <5>2, <5>3, <5>5
      <4>4. CASE g # file[pid]
        <5>1. /\ P!StandsFor(new_pid, g) => P!Reused(pid, new_pid)
              /\ file'[new_pid] # g
          BY <1>3, <2>1, <3>1, <3>3, <4>4, HandlersAssumption
        <5>2. p # new_pid /\ p # pid
          BY <1>3, <3>2, <4>1, <4>4, <5>1
        <5>3. P!StandsFor(p, g)'
          BY <1>2, <1>3, <4>1, <4>2, <5>2
        <5>4. \A q \in Pids : P!StandsFor(q, g)' => q # new_pid /\ P!StandsFor(q, g)
          BY <1>2, <1>3, <4>2, <5>1
        <5> QED
          BY <4>1, <5>3, <5>4
      <4> QED
        BY <4>3, <4>4
    <3>9. P!PermanentStays'
      BY <3>8 DEF P!PermanentStays
    <3>10. P!ServedIsOver'
      <4>1. ASSUME pid # new_pid, file[pid] \in Programs \ spoiled'
            PROVE  ~(\E q \in Pids : q = pid /\ P!StandsFor(q, file[q])')
        <5>1. ~P!Kept(pid) /\ \A q : q = pid => ~P!Reported(q)'
          BY <1>2, <3>2, <4>1
        <5> QED
          BY <1>2, <1>3, <3>5, <3>6, <4>1, <5>1
      <4> QED
        BY <1>2, <2>3, <3>2, <3>6, <4>1
    <3> QED
      BY <3>4, <3>7, <3>9, <3>10
  <2>4. <<pid, new_pid>> # <<>>
    OBVIOUS
  <2> QED
    BY <1>1, <1>6, <2>2, <2>3, <2>4 DEF P!Relaunch
<1> QED
  BY <1>1, <1>5, <1>6

(* ... and so does taking over the new process. *)
LEMMA AdoptStep == ASSUME P!IInv, P!AdoptNew PROVE P!IInv'
<1> USE DEF P!None, P!Mixed
<1>1. PICK pid \in Pids, new_pid \in Pids :
          /\ adopting = <<pid, new_pid>> /\ adopting # <<>>
          /\ P!Adopt(pid, new_pid)
  BY DEF P!IInv, P!TypeOK, P!AdoptNew
<1>2. adopting[1] = pid /\ adopting[2] = new_pid
  BY <1>1
<1>3. /\ adopting' = <<>> /\ UNCHANGED <<proc, deaths>>
      /\ watched' \in {watched, watched \union {new_pid}}
      /\ watched' # watched => proc[new_pid] # "none"
      /\ file' = file \/ file' = [file EXCEPT ![pid] = "none"]
      /\ spoiled \subseteq spoiled'
      /\ \A g \in Programs : g \in spoiled' <=>
            g \in spoiled \/ (g = file[new_pid] /\ (pid = new_pid \/ new_pid \notin watched'))
      /\ spoiled' \subseteq spoiled \union Programs
  BY <1>1 DEF P!AdoptNew, P!Adopt, P!Spoil
<1> USE DEF P!IInv, P!TypeOK, P!FilesAreRight, P!ServedIsOver, P!Kept, P!Spoiled
<1>4. P!TypeOK'
  BY <1>3
<1>5. \A q \in Pids, g \in Programs :
          /\ P!StandsFor(q, g) <=>
                file[q] = g /\ ((proc[q] = g /\ P!Kept(q)) \/ P!Reported(q))
          /\ P!StandsFor(q, g)' <=>
                file'[q] = g /\ ((proc'[q] = g /\ P!Kept(q)') \/ P!Reported(q))
  BY <1>3, HandlersAssumption DEF P!StandsFor, P!Reported
<1>6. \A q \in Pids : /\ P!Kept(q)' <=> proc[q] # "none" /\ q \in watched'
                      /\ P!Kept(q)' => P!Kept(q)
                      /\ P!Kept(q) => P!Kept(q)' \/ q = new_pid
                      /\ file'[q] = file[q] \/ (q = pid /\ file'[q] = "none")
  BY <1>1, <1>2, <1>3
<1>7. P!FilesAreRight'
  <2>1. ASSUME NEW q \in Pids, P!Kept(q)'
        PROVE  \/ P!Spoiled(file[q])' /\ P!Spoiled(proc[q])'
               \/ file'[q] = proc'[q] /\ ~P!Reported(q)'
    <3>1. CASE file'[q] = file[q]
      BY <1>3, <1>6, <2>1, <3>1 DEF P!Reported
    <3>2. CASE q = pid /\ file'[q] = "none"
      <4>1. P!Spoiled(proc[q])'
        BY <1>1, <1>2, <1>3, <1>5, <1>6, <2>1, <3>2
      <4> QED
        BY <3>2, <4>1, HandlersAssumption
    <3> QED
      BY <1>6, <3>1, <3>2
  <2>2. \A q \in Pids : P!Spoiled(file[q]) => P!Spoiled(file[q])'
    BY <1>3, <1>6, HandlersAssumption
  <2>3. \A k \in 1..Len(deaths) : deaths[k] \in Pids
    OBVIOUS
  <2> QED
    BY <1>3, <2>1, <2>2, <2>3
<1>8. ASSUME NEW g \in Programs \ spoiled'
      PROVE  \E p \in Pids : /\ P!StandsFor(p, g)'
                             /\ \A q \in Pids : P!StandsFor(q, g)' => q = p
  <2>1. PICK p \in Pids : P!StandsFor(p, g) /\ \A q \in Pids : P!StandsFor(q, g) => q = p
    BY <1>3 DEF P!PermanentStays
  <2>2. \A q \in Pids : P!StandsFor(q, g)' => P!StandsFor(q, g)
    BY <1>3, <1>5, <1>6, HandlersAssumption
  <2>3. p = pid => p = new_pid
    BY <1>1, <1>2, <1>3, <1>5, <2>1
  <2>4. p = new_pid => pid # new_pid /\ new_pid \in watched'
    BY <1>3, <1>5, <2>1
  <2>5. P!StandsFor(p, g)'
    BY <1>3, <1>5, <1>6, <2>1, <2>3, <2>4
  <2> QED
    BY <2>1, <2>2, <2>5
<1>9. P!PermanentStays' /\ P!ServedIsOver'
  BY <1>3, <1>8 DEF P!PermanentStays
<1> QED
  BY <1>4, <1>7, <1>9

(* The inductive invariant of the permanent processes. *)
LEMMA PermanentInvariance == P!Spec => []P!IInv
<1>1. P!Init => P!IInv
  <2> SUFFICES ASSUME P!Init PROVE P!IInv
    OBVIOUS
  <2>1. /\ deaths \in Seq(Pids) /\ Len(deaths) = 0 /\ adopting = <<>> /\ file = proc
        /\ proc \in [Pids -> Programs \union {"none"}]
        /\ watched = {p \in Pids : proc[p] # "none"} /\ spoiled = {}
    BY DEF P!Init, P!None
  <2>2. P!TypeOK
    BY <2>1, HandlersAssumption DEF P!TypeOK, P!None
  <2>3. P!FilesAreRight /\ P!ServedIsOver
    BY <2>1 DEF P!FilesAreRight, P!ServedIsOver, P!Reported
  <2>4. \A q \in Pids, g \in Programs : P!StandsFor(q, g) <=> proc[q] = g
    BY <2>1, HandlersAssumption DEF P!StandsFor
  <2>5. P!PermanentStays
    BY <2>4 DEF P!PermanentStays, P!Init
  <2> QED
    BY <2>2, <2>3, <2>5 DEF P!IInv
<1>2. P!IInv /\ [P!Next]_P!vars => P!IInv'
  <2> SUFFICES ASSUME P!IInv, [P!Next]_P!vars PROVE P!IInv'
    OBVIOUS
  <2>1. CASE UNCHANGED P!vars
    BY <2>1 DEF P!vars, P!IInv, P!TypeOK, P!FilesAreRight, P!ServedIsOver,
       P!PermanentStays, P!StandsFor, P!Kept, P!Reported, P!Spoiled
  <2> QED
    BY <2>1, DieStep, PmonCbStep, AdoptStep DEF P!Next
<1> QED
  BY <1>1, <1>2, PTL DEF P!Spec

(* A permanent program is never forgotten and never launched twice, for any *)
(* programs and pids and however deaths and launches cross.                 *)
THEOREM PermanentProcessesStay == P!Spec => []PermanentStays
<1>1. P!IInv => PermanentStays
  BY DEF P!IInv, PermanentStays
<1> QED
  BY <1>1, PermanentInvariance, PTL
----------------------------------------------------------------------------
(* Every behaviour of the sum is one of each component: the one that moves   *)
(* takes its own steps, and the others wait in one of their first states.   *)
THEOREM SumOfComponents ==
    Spec => S!Spec /\ D!Spec /\ C!Spec /\ B!Spec /\ P!Spec /\ T!Spec
<1>1. Init => S!Init /\ D!Init /\ C!Init /\ B!Init /\ P!Init /\ T!Init
  BY DEF Init
<1> USE DEF Next, OnlySysnoti, OnlyBs, sysnotiVars, jacksVars, chargeVars, bsVars, pmonVars,
            timeVars, allVars
<1>2. [Next]_allVars => [S!Next]_(S!vars)
  BY DEF S!vars, S!socketVars
<1>3. [Next]_allVars => [D!Next]_(D!vars)
  BY DEF D!vars
<1>4. [Next]_allVars => [C!Next]_(C!vars)
  BY DEF C!vars
<1>5. [Next]_allVars => [B!Next]_(B!vars)
  BY DEF B!vars
<1>6. [Next]_allVars => [P!Next]_(P!vars)
  BY DEF P!vars
<1>7. [Next]_allVars => [T!Next]_(T!vars)
  BY DEF T!vars
<1> QED
  BY <1>1, <1>2, <1>3, <1>4, <1>5, <1>6, <1>7, PTL
     DEF Spec, S!Spec, D!Spec, C!Spec, B!Spec, P!Spec, T!Spec

(* What was proved of the components one by one holds of the whole that the  *)
(* run of Handlers checks.                                                 *)
THEOREM SumKeepsItsPromises ==
    Spec => /\ []OnlyBadRequestsGoWrong
            /\ []KeysSettle /\ []LockFollowsPlug
            /\ []FullNoticeSettles
            /\ []NothingLostQuietly
            /\ []PermanentStays
            /\ RequestTakesEffect
BY SumOfComponents, WholeRequestsAreRight, ClientsSeeTheJacks, LocksFollowTheJacks,
   NoticeFollowsBattery, CrashesAreNotLost, PermanentProcessesStay,
   ZoneRequestsTakeEffect, PTL
=============================================================================
