---------------------------- MODULE StorageProofs ----------------------------
(* Theorems about what is mounted: USB storage, for any devices, names and   *)
(* acts, and the memory card, for any cards and any number of events on     *)
(* their way.                                                              *)
EXTENDS UsbStorage, Mmc, TLAPS

(* The counter clients watch stays between 1 and INT_MAX. *)
LEMMA CounterInRange ==
    ASSUME NEW v \in 0..INT_MAX
    PROVE  NextNoti(v) \in 1..INT_MAX /\ NextNoti(v) # v
BY UsbStorageAssumption DEF NextNoti

(* Every act on a device keeps the invariant on mount table and flag. *)
LEMMA InductiveStep == IInv /\ [Next]_vars => IInv'
<1> SUFFICES ASSUME IInv, [Next]_vars PROVE IInv'
  OBVIOUS
<1> USE DEF IInv
<1>1. ASSUME NEW d \in Devs, Added(d) PROVE IInv'
  <2>1. /\ tempfs_mounted' \in {0, 1} /\ layers' \in {0, 1}
        /\ \A m \in mounted : m[2] = layers' \/ (m[2] = 0 /\ m[1] \in bare)
        /\ tempfs_mounted' = 0 =>
              layers' = 0 /\ \A m \in mounted : m[2] = 0 /\ m[1] \in bare
    <3>1. layers \in {0, 1} /\ tempfs_mounted \in {0, 1}
      BY DEF TypeOK, NotStacked
    <3>2. CASE UNCHANGED <<tempfs_mounted, layers>>
      BY <3>1, <3>2 DEF NothingHidden, FlagNotSet
    <3>3. CASE tempfs_mounted # 1 /\ tempfs_mounted' = 1 /\ layers' = layers + 1
      <4>1. layers = 0 /\ \A m \in mounted : m[2] = 0 /\ m[1] \in bare
        BY <3>1, <3>3 DEF FlagNotSet
      <4> QED
        BY <3>3, <4>1
    <3> QED
      BY <1>1, <3>2, <3>3 DEF Added, MountTmpfs
  <2>2. /\ bare' \subseteq Devs /\ bare \subseteq bare'
        /\ tempfs_mounted' = 0 => d \in bare'
    BY <1>1, <2>1 DEF Added, TypeOK
  <2>3. \A m \in mounted' : m \in mounted \/ m = <<d, layers'>>
    BY <1>1 DEF Added, MountDevice
  <2>4. /\ {added_noti_value, removed_noti_value}' \subseteq 0..INT_MAX
        /\ {added_key, removed_key}' \subseteq -1..INT_MAX
    BY <1>1, CounterInRange, UsbStorageAssumption DEF Added, Announce, keys, TypeOK
  <2>5. plugged' \subseteq Devs /\ announced' \in Devs \union {Nobody}
    BY <1>1 DEF Added, Announce, TypeOK
  <2>6. set_failed' \in BOOLEAN
    BY <1>1, Zenon DEF Added, Announce, keys, TypeOK
  <2>7. mounted' \subseteq Devs \X Nat /\ layers' \in Nat
    BY <2>1, <2>3 DEF TypeOK
  <2>8. NothingHidden'
    BY <2>1, <2>2, <2>3 DEF NothingHidden
  <2>9. FlagNotSet' /\ NotStacked'
    BY <2>1, <2>2, <2>3 DEF FlagNotSet, NotStacked
  <2>10. KeyIsCounter'
    BY <1>1, Zenon DEF Added, Announce, keys, KeyIsCounter
  <2> QED
    BY <2>1, <2>2, <2>4, <2>5, <2>6, <2>7, <2>8, <2>9, <2>10, Zenon DEF TypeOK
<1>2. ASSUME NEW d \in Devs, Removed(d) PROVE IInv'
  <2>1. layers \in {0, 1} /\ tempfs_mounted \in {0, 1} /\ bare' = bare
    BY <1>2 DEF Removed, TypeOK, NotStacked
  <2>2. /\ mounted' \subseteq mounted /\ layers' = 0
        /\ tempfs_mounted' \in {0, 1}
        /\ tempfs_mounted' = 0 => tempfs_mounted = 0
        /\ \A m \in mounted' : m[2] = 0
    <3>1. CASE layers > 0
      <4>1. layers = 1 /\ layers' = 0 /\ tempfs_mounted' = 1
            /\ mounted' = {m \in mounted : m[2] # 1}
        BY <1>2, <2>1, <3>1 DEF Removed, Detach
      <4> QED
        BY <4>1 DEF NothingHidden
    <3>2. CASE ~(layers > 0)
      <4>1. layers = 0 /\ layers' = 0 /\ tempfs_mounted' = tempfs_mounted
            /\ mounted' \subseteq mounted
        BY <1>2, <2>1, <3>2 DEF Removed, Detach
      <4> QED
        BY <2>1, <4>1 DEF NothingHidden
    <3> QED
      BY <3>1, <3>2
  <2>3. /\ {added_noti_value, removed_noti_value}' \subseteq 0..INT_MAX
        /\ {added_key, removed_key}' \subseteq -1..INT_MAX
    BY <1>2, CounterInRange, UsbStorageAssumption DEF Removed, TypeOK
  <2>4. plugged' \subseteq Devs /\ announced' \in Devs \union {Nobody}
    BY <1>2 DEF Removed, TypeOK
  <2>5. set_failed' \in BOOLEAN
    BY <1>2, Zenon DEF Removed, TypeOK
  <2>6. mounted' \subseteq Devs \X Nat /\ bare' \subseteq Devs
    BY <2>1, <2>2 DEF TypeOK
  <2>7. NothingHidden' /\ FlagNotSet' /\ NotStacked' /\ layers' \in Nat
    BY <2>1, <2>2 DEF NothingHidden, FlagNotSet, NotStacked
  <2>8. KeyIsCounter'
    BY <1>2 DEF Removed, KeyIsCounter
  <2> QED
    BY <2>2, <2>3, <2>4, <2>5, <2>6, <2>7, <2>8, Zenon DEF TypeOK
<1>3. ASSUME NEW d \in Devs, AddFails(d) \/ Plug(d) PROVE IInv'
  <2>1. /\ plugged' \subseteq Devs /\ announced' = Nobody
        /\ UNCHANGED <<tempfs_mounted, layers, mounted, keys, bare>>
    BY <1>3 DEF AddFails, Plug, TypeOK
  <2>2. announced' \in Devs \union {Nobody}
    BY <2>1
  <2> QED
    BY <2>1, <2>2, Zenon DEF TypeOK, NothingHidden, NotStacked, FlagNotSet,
                             KeyIsCounter, keys
<1>4. CASE UNCHANGED vars
  BY <1>4, Zenon DEF vars, keys, TypeOK, NothingHidden, NotStacked, FlagNotSet,
                     KeyIsCounter
<1> QED
  BY <1>1, <1>2, <1>3, <1>4 DEF Next

(* The inductive invariant of the USB storage acts. *)
LEMMA Invariance == Spec => []IInv
<1>1. Init => IInv
  <2> SUFFICES ASSUME Init PROVE IInv
    OBVIOUS
  <2>1. set_failed \in BOOLEAN
    BY Zenon DEF Init
  <2>2. /\ {added_noti_value, removed_noti_value} \subseteq 0..INT_MAX
        /\ {added_key, removed_key} \subseteq -1..INT_MAX
    BY UsbStorageAssumption DEF Init
  <2>3. /\ plugged \subseteq Devs /\ mounted \subseteq Devs \X Nat
        /\ announced \in Devs \union {Nobody} /\ bare \subseteq Devs
        /\ tempfs_mounted \in {0, 1} /\ layers \in Nat
    BY DEF Init
  <2>4. NothingHidden /\ NotStacked /\ FlagNotSet /\ KeyIsCounter
    BY DEF Init, NothingHidden, NotStacked, FlagNotSet, KeyIsCounter
  <2> QED
    BY <2>1, <2>2, <2>3, <2>4, Zenon DEF IInv, TypeOK
<1> QED
  BY <1>1, InductiveStep, PTL DEF Spec

(* Every announcement reaches the clients that watch the key, also when the  *)
(* counter wraps.                                                          *)
THEOREM ClientsSeeAnnouncements == Spec => AnnouncementsAreSeen
<1>1. IInv /\ [Next]_vars =>
        [announced' # Nobody /\ ~set_failed' => added_key' # added_key]_vars
  <2> SUFFICES ASSUME IInv, [Next]_vars, ~UNCHANGED vars,
                      announced' # Nobody, ~set_failed'
               PROVE  added_key' # added_key
    OBVIOUS
  <2>1. PICK d \in Devs : Added(d)
    BY DEF Next, AddFails, Removed, Plug
  <2>2. Announce(d)
    BY <2>1 DEF Added
  <2>3. added_key' = NextNoti(added_noti_value) /\ ~set_failed
    BY <2>2 DEF Announce
  <2>4. added_noti_value \in 0..INT_MAX /\ added_key = added_noti_value
    BY <2>3 DEF IInv, TypeOK, KeyIsCounter
  <2> QED
    BY <2>3, <2>4, CounterInRange
<1> QED
  BY <1>1, Invariance, PTL DEF Spec, AnnouncementsAreSeen

(* However acts are lost, repeated or reordered, no device in use is ever    *)
(* hidden under a tmpfs, so that its removal always finds it, but those      *)
(* that were mounted without one when the kernel said EBUSY.                *)
THEOREM DevicesStayReachable == Spec => []NothingHidden
BY Invariance, PTL DEF IInv

(* No tmpfs is ever stacked on another, with or without EBUSY: the removal of *)
(* one device detaches all that was mounted over the flash.                 *)
THEOREM TmpfsIsNotStacked == Spec => []NotStacked
BY Invariance, PTL DEF IInv
----------------------------------------------------------------------------
(* An insertion mounts a card where none was, or leaves everything but the  *)
(* keys alone.                                                              *)
LEMMA InsertedKeeps ==
    ASSUME MmcIInv, MmcInserted, slot' = slot, EventsShape'
    PROVE  /\ mount' \in Cards \union {NoCard, Dead}
           /\ {mmc_status, status_key}' \subseteq Statuses
           /\ reply' \in {"MOUNT_COMPLETED", "MOUNT_ALREADY", "MOUNT_FAILED", "none"}
           /\ status_unset' \in BOOLEAN
           /\ StatusIsMount' /\ KeyIsStatus' /\ RepliesAreTrue'
<1> USE DEF MmcIInv, MmcTypeOK, MmcInserted, Know, Tell, NoCard, Statuses
<1>1. mount' \in Cards \union {NoCard, Dead} /\ {mmc_status, status_key}' \subseteq Statuses
  OBVIOUS
<1>2. reply' \in {"MOUNT_COMPLETED", "MOUNT_ALREADY", "MOUNT_FAILED", "none"}
  OBVIOUS
<1>3. status_unset' \in BOOLEAN
  BY Zenon
<1>4. StatusIsMount'
  BY MmcAssumption DEF StatusIsMount
<1>5. RepliesAreTrue'
  <2>1. \/ mount # NoCard /\ mount' = mount /\ reply' \in {"MOUNT_ALREADY", "none"}
        \/ mount = NoCard /\ mount' = NoCard /\ reply' \in {"MOUNT_FAILED", "none"}
        \/ mount' = slot /\ slot # NoCard /\ reply' \in {"MOUNT_COMPLETED", "none"}
    BY DEF StatusIsMount
  <2>2. mount' \notin {NoCard, slot'} => RemovalComes'
    BY DEF EventsShape
  <2> QED
    BY <2>1, <2>2 DEF RepliesAreTrue
<1>6. KeyIsStatus'
  BY DEF KeyIsStatus
<1> QED
  BY <1>1, <1>2, <1>3, <1>4, <1>5, <1>6

(* The events left after one is served. *)
LEMMA TailOfEvents ==
    ASSUME NEW S, NEW e \in Seq(S), e # <<>>
    PROVE  /\ Tail(e) \in Seq(S) /\ Len(Tail(e)) = Len(e) - 1
           /\ \A i \in 1..Len(Tail(e)) : Tail(e)[i] = e[i + 1]
OBVIOUS

(* The events on their way after udev has sent one more. *)
LEMMA AppendOfEvents ==
    ASSUME NEW S, NEW e \in Seq(S), NEW x \in S
    PROVE  /\ Append(e, x) \in Seq(S) /\ Len(Append(e, x)) = Len(e) + 1
           /\ \A i \in 1..Len(e) : Append(e, x)[i] = e[i]
           /\ Append(e, x)[Len(e) + 1] = x
OBVIOUS

(* Whatever is served, the events left tell what there is left to tell. *)
LEMMA ShapeStep == MmcIInv /\ [MmcNext]_mmcVars => EventsShape' /\ EventsSettle'
<1> SUFFICES ASSUME MmcIInv, [MmcNext]_mmcVars PROVE EventsShape' /\ EventsSettle'
  OBVIOUS
<1> DEFINE Kinds == {"mmcblk_add", "mmcblk_remove"}
<1>1. /\ events \in Seq(Kinds) /\ Len(events) \in Nat
      /\ \A i \in 1..Len(events) : events[i] \in Kinds
      /\ slot \in Cards \union {NoCard} /\ mount \in Cards \union {NoCard, Dead}
      /\ mmc_status = "MOUNTED" <=> mount # NoCard
      /\ EventsShape /\ EventsSettle
  BY DEF MmcIInv, MmcTypeOK, StatusIsMount
<1>2. CASE MmcAdd
  <2>1. /\ events # <<>> /\ events[1] = "mmcblk_add" /\ events' = Tail(events)
        /\ Len(events) > 0 /\ slot' = slot
    BY <1>1, <1>2 DEF MmcAdd
  <2>2. /\ Len(events') = Len(events) - 1
        /\ \A i \in 1..Len(events') : events'[i] = events[i + 1]
    BY <1>1, <2>1, TailOfEvents
  <2>3. \/ mount # NoCard /\ mount' = mount /\ mmc_status' = "MOUNTED"
        \/ mount = NoCard /\ mount' = NoCard /\ slot = NoCard /\ mmc_status' = "REMOVED"
        \/ mount = NoCard /\ mount' \in {NoCard, slot} /\ slot # NoCard /\ mmc_status' # "REMOVED"
    BY <1>1, <1>2 DEF MmcAdd, MmcInserted, Know
  <2>4. EventsShape'
    <3>1. CASE Len(events) = 1
      <4>1. Len(events') = 0 /\ mount \in {NoCard, slot}
        BY <1>1, <2>1, <2>2, <3>1 DEF EventsShape, RemovalComes
      <4> QED
        BY <2>1, <2>3, <4>1 DEF EventsShape
    <3>2. CASE Len(events) # 1
      <4>1. Len(events') > 0 /\ events'[Len(events')] = events[Len(events)]
        BY <1>1, <2>1, <2>2, <3>2
      <4>2. events[Len(events)] = "mmcblk_remove" => slot = NoCard
        BY <1>1, <2>1 DEF EventsShape
      <4>3. ~(events[Len(events)] = "mmcblk_add" /\ slot = NoCard)
        BY <1>1, <2>1, <3>2 DEF EventsShape
      <4>4. mount' \notin {NoCard, slot'} =>
              RemovalComes'
        <5> USE DEF RemovalComes
        <5> SUFFICES ASSUME mount' \notin {NoCard, slot'}
                     PROVE  \E i \in 1..Len(events') : events'[i] = "mmcblk_remove"
          OBVIOUS
        <5>1. mount \notin {NoCard, slot}
          BY <2>1, <2>3
        <5>2. PICK i \in 1..Len(events) : events[i] = "mmcblk_remove"
          BY <1>1, <5>1 DEF EventsShape
        <5>3. i # 1 /\ i - 1 \in 1..Len(events') /\ events'[i - 1] = events[i]
          BY <1>1, <2>1, <2>2, <5>2
        <5> QED
          BY <5>2, <5>3
      <4> QED
        BY <2>1, <4>1, <4>2, <4>3, <4>4 DEF EventsShape
    <3> QED
      BY <3>1, <3>2
  <2>5. EventsSettle'
    <3> SUFFICES ASSUME events' = <<>>
                 PROVE  mount' \in {NoCard, slot} /\ (mmc_status' = "REMOVED" <=> slot = NoCard)
      BY <2>1 DEF EventsSettle
    <3>1. Len(events) = 1
      BY <1>1, <2>2
    <3>2. mount \in {NoCard, slot}
      BY <1>1, <2>1, <3>1 DEF EventsShape, RemovalComes
    <3> QED
      BY <2>3, <3>2
  <2> QED
    BY <2>4, <2>5
<1>3. CASE MmcRemove
  <2>1. /\ events # <<>> /\ events' = Tail(events) /\ Len(events) > 0
        /\ slot' = slot /\ mount' = NoCard /\ mmc_status' = "REMOVED"
        /\ events[1] = "mmcblk_remove"
    BY <1>1, <1>3 DEF MmcRemove, MmcRemoved, Know
  <2>2. /\ Len(events') = Len(events) - 1
        /\ \A i \in 1..Len(events') : events'[i] = events[i + 1]
    BY <1>1, <2>1, TailOfEvents
  <2>3. Len(events) > 1 => events'[Len(events')] = events[Len(events)]
    BY <1>1, <2>2
  <2>4. EventsShape'
    BY <1>1, <2>1, <2>2, <2>3 DEF EventsShape, RemovalComes
  <2>5. EventsSettle'
    <3>1. events' = <<>> => Len(events) = 1
      BY <1>1, <2>2
    <3>2. Len(events) = 1 => slot = NoCard
      BY <1>1, <2>1 DEF EventsShape
    <3> QED
      BY <2>1, <3>1, <3>2 DEF EventsSettle
  <2> QED
    BY <2>4, <2>5
<1>4. CASE MountRequest \/ UnmountRequest
  <2>1. slot' = slot /\ events' = events
    BY <1>4 DEF MountRequest, UnmountRequest
  <2>2. mount' \in {NoCard, slot, mount} /\ (slot = NoCard => mount' \in {NoCard, mount})
    BY <1>4 DEF MountRequest, MmcInserted, UnmountRequest
  <2>3. EventsShape'
    BY <1>1, <2>1, <2>2 DEF EventsShape, RemovalComes
  <2>4. EventsSettle'
    BY <1>1, <1>4, <2>1 DEF MountRequest, MmcInserted, UnmountRequest, Know, EventsSettle
  <2> QED
    BY <2>3, <2>4
<1>5. CASE Pull \/ \E card \in Cards : Insert(card)
  <2>1. PICK x \in Kinds :
            /\ events' = Append(events, x)
            /\ x = "mmcblk_remove" => slot' = NoCard
            /\ x = "mmcblk_add" => slot = NoCard /\ slot' \in Cards /\ mount' = mount
    <3>1. CASE Pull
      BY <3>1 DEF Pull
    <3>2. CASE \E card \in Cards : Insert(card)
      BY <3>2 DEF Insert
    <3> QED
      BY <1>5, <3>1, <3>2
  <2>2. /\ Len(events') = Len(events) + 1
        /\ \A i \in 1..Len(events) : events'[i] = events[i]
        /\ events'[Len(events')] = x
    BY <1>1, <2>1, AppendOfEvents
  <2>3. NoCard \notin Cards
    BY MmcAssumption DEF NoCard
  <2>4. mount' \notin {NoCard, slot'} => RemovalComes'
    <3> USE DEF RemovalComes
    <3>1. CASE x = "mmcblk_remove"
      <4>1. Len(events') \in 1..Len(events') /\ events'[Len(events')] = "mmcblk_remove"
        BY <1>1, <2>2, <3>1
      <4> QED
        BY <4>1
    <3>2. CASE x = "mmcblk_add"
      <4>1. mount # NoCard => \E i \in 1..Len(events) : events[i] = "mmcblk_remove"
        BY <1>1, <2>1, <3>2 DEF EventsShape
      <4>2. \A i \in 1..Len(events) : i \in 1..Len(events') /\ events'[i] = events[i]
        BY <1>1, <2>2
      <4>3. mount # NoCard => \E i \in 1..Len(events') : events'[i] = "mmcblk_remove"
        BY <4>1, <4>2
      <4> QED
        BY <2>1, <4>3
    <3> QED
      BY <3>1, <3>2
  <2>5. EventsShape'
    <3>1. events'[Len(events')] = "mmcblk_remove" => slot' = NoCard
      BY <2>1, <2>2
    <3>2. ~(events'[Len(events')] = "mmcblk_add" /\ slot' = NoCard)
      BY <2>1, <2>2, <2>3
    <3> QED
      BY <2>4, <3>1, <3>2 DEF EventsShape
  <2>6. events' # <<>>
    BY <1>1, <2>2
  <2> QED
    BY <2>5, <2>6 DEF EventsSettle
<1>6. CASE UNCHANGED mmcVars
  BY <1>1, <1>6 DEF mmcVars, EventsShape, EventsSettle, RemovalComes
<1> QED
  BY <1>2, <1>3, <1>4, <1>5, <1>6 DEF MmcNext

(* Every step keeps the invariant: events, status, key and mount table agree. *)
LEMMA MmcInductiveStep == MmcIInv /\ [MmcNext]_mmcVars => MmcIInv'
<1> SUFFICES ASSUME MmcIInv, [MmcNext]_mmcVars PROVE MmcIInv'
  OBVIOUS
<1>a. EventsShape' /\ EventsSettle'
  BY ShapeStep
<1>1. CASE MmcAdd \/ MountRequest
  <2>1. MmcInserted /\ slot' = slot /\ events' \in {events, Tail(events)}
    BY <1>1 DEF MmcAdd, MountRequest
  <2>2. /\ events' \in Seq({"mmcblk_add", "mmcblk_remove"}) /\ Len(events') <= MaxEvents
    <3>1. CASE MmcAdd
      BY <3>1, MmcAssumption DEF MmcAdd, MmcIInv, MmcTypeOK
    <3>2. CASE MountRequest
      BY <3>2 DEF MountRequest, MmcIInv, MmcTypeOK
    <3> QED
      BY <1>1, <3>1, <3>2
  <2>3. slot' \in Cards \union {NoCard}
    BY <2>1 DEF MmcIInv, MmcTypeOK
  <2> QED
    BY <1>a, <2>1, <2>2, <2>3, InsertedKeeps DEF MmcIInv, MmcTypeOK
<1>2. CASE MmcRemove
  <2>1. /\ events' \in Seq({"mmcblk_add", "mmcblk_remove"}) /\ Len(events') <= MaxEvents
    BY <1>2, MmcAssumption DEF MmcRemove, MmcIInv, MmcTypeOK
  <2>2. status_unset' \in BOOLEAN
    BY <1>2, Zenon DEF MmcRemove, MmcRemoved, Know
  <2>3. /\ slot' \in Cards \union {NoCard} /\ mount' \in Cards \union {NoCard, Dead}
        /\ reply' = "none" /\ {mmc_status, status_key}' \subseteq Statuses
    BY <1>2 DEF MmcRemove, MmcRemoved, Know, MmcIInv, MmcTypeOK, Statuses
  <2>4. MmcTypeOK'
    BY <2>1, <2>2, <2>3 DEF MmcTypeOK
  <2>5. StatusIsMount' /\ KeyIsStatus' /\ RepliesAreTrue'
    BY <1>2 DEF MmcRemove, MmcRemoved, Know, StatusIsMount, KeyIsStatus, RepliesAreTrue
  <2> QED
    BY <1>a, <2>4, <2>5 DEF MmcIInv
<1>3. CASE UnmountRequest
  <2>1. status_unset' \in BOOLEAN
    BY <1>3, Zenon DEF UnmountRequest, Know, MmcIInv, MmcTypeOK
  <2>2. /\ slot' \in Cards \union {NoCard} /\ mount' \in Cards \union {NoCard, Dead}
        /\ reply' \in {"UNMOUNT_COMPLETED", "UNMOUNT_FAILED", "none"}
        /\ {mmc_status, status_key}' \subseteq Statuses /\ events' = events
    BY <1>3 DEF UnmountRequest, Know, Tell, MmcIInv, MmcTypeOK, Statuses
  <2>3. MmcTypeOK'
    BY <2>1, <2>2 DEF MmcIInv, MmcTypeOK
  <2>4. StatusIsMount' /\ RepliesAreTrue'
    BY <1>3 DEF UnmountRequest, Know, Tell, MmcIInv, StatusIsMount, RepliesAreTrue
  <2>5. KeyIsStatus'
    BY <1>3 DEF UnmountRequest, Know, MmcIInv, KeyIsStatus
  <2> QED
    BY <1>a, <2>3, <2>4, <2>5 DEF MmcIInv
<1>4. CASE Pull \/ \E card \in Cards : Insert(card)
  <2>1. /\ slot' \in Cards \union {NoCard} /\ reply' = "none"
        /\ mount' \in {mount, Dead} /\ (mount' = NoCard <=> mount = NoCard)
        /\ UNCHANGED <<mmc_status, status_key, status_unset>>
    BY <1>4 DEF Pull, Insert, NoCard, Dead
  <2>2. /\ events' \in Seq({"mmcblk_add", "mmcblk_remove"}) /\ Len(events') <= MaxEvents
    BY <1>4, MmcAssumption DEF Pull, Insert, MmcIInv, MmcTypeOK
  <2>3. MmcTypeOK'
    <3>1. slot' \in Cards \union {NoCard} /\ mount' \in Cards \union {NoCard, Dead}
      BY <2>1 DEF MmcIInv, MmcTypeOK
    <3>2. {mmc_status, status_key}' \subseteq Statuses
      BY <2>1 DEF MmcIInv, MmcTypeOK
    <3>3. status_unset' \in BOOLEAN
      BY <2>1, Zenon DEF MmcIInv, MmcTypeOK
    <3> QED
      BY <2>1, <2>2, <3>1, <3>2, <3>3 DEF MmcTypeOK
  <2>4. StatusIsMount' /\ RepliesAreTrue'
    BY <2>1 DEF MmcIInv, StatusIsMount, RepliesAreTrue
  <2>5. KeyIsStatus'
    BY <2>1, Zenon DEF MmcIInv, KeyIsStatus
  <2> QED
    BY <1>a, <2>3, <2>4, <2>5 DEF MmcIInv
<1>5. CASE UNCHANGED mmcVars
  BY <1>a, <1>5, Zenon DEF mmcVars, MmcIInv, MmcTypeOK, StatusIsMount, KeyIsStatus,
                           RepliesAreTrue, RemovalComes
<1> QED
  BY <1>1, <1>2, <1>3, <1>4, <1>5 DEF MmcNext

(* The inductive invariant of the memory card. *)
LEMMA MmcInvariance == MmcSpec => []MmcIInv
<1>1. MmcInit => MmcIInv
  <2> SUFFICES ASSUME MmcInit PROVE MmcIInv
    OBVIOUS
  <2>1. events \in Seq({"mmcblk_add", "mmcblk_remove"})
    BY DEF MmcInit
  <2>2. Len(events) = 1 /\ events[1] = "mmcblk_add" /\ mount = NoCard
    BY DEF MmcInit
  <2>3. status_unset \in BOOLEAN
    BY Zenon DEF MmcInit
  <2>4. MmcTypeOK
    BY MmcAssumption, <2>1, <2>2, <2>3 DEF MmcInit, MmcTypeOK, Statuses
  <2>5. EventsShape /\ EventsSettle
    BY <2>1, <2>2 DEF EventsShape, EventsSettle, RemovalComes
  <2>6. StatusIsMount /\ RepliesAreTrue /\ KeyIsStatus
    BY DEF MmcInit, StatusIsMount, RepliesAreTrue, KeyIsStatus
  <2> QED
    BY <2>4, <2>5, <2>6 DEF MmcIInv
<1> QED
  BY <1>1, MmcInductiveStep, PTL DEF MmcSpec

(* The daemon's status is the truth about the mount point. *)
THEOREM StatusIsTrue == MmcSpec => []StatusIsMount
BY MmcInvariance, PTL DEF MmcIInv

(* Clients read the daemon's status, unless it could not be written. *)
THEOREM ClientsReadTheStatus == MmcSpec => []KeyIsStatus
BY MmcInvariance, PTL DEF MmcIInv

(* However many events are on their way and however requests and the card    *)
(* change between them, they end with the right card mounted, or none.       *)
THEOREM EventsLeadToTheTruth == MmcSpec => []EventsSettle
BY MmcInvariance, PTL DEF MmcIInv

(* A client is told nothing false of the mount, but that a card is mounted     *)
(* already while the report that it has been pulled out still waits.        *)
THEOREM AnswersAreTrue == MmcSpec => []RepliesAreTrue
BY MmcInvariance, PTL DEF MmcIInv
=============================================================================
