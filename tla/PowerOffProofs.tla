--------------------------- MODULE PowerOffProofs ---------------------------
(* Theorems about PowerOff, for any timeout, animation and number of         *)
(* requests.                                                               *)
EXTENDS PowerOff, TLAPS

(* Nothing has been asked for at the start. *)
LEMMA InitIInv == Init => IInv
BY PowerOffAssumption
   DEF Init, IInv, TypeOK, FirstTimerRuns, OneAnimation, NothingWaitsUnasked,
       Ids, Kinds, NoTimer

(* A request that leaves the device up starts a timer of its own and touches *)
(* no other.                                                               *)
LEMMA RequestStep ==
    ASSUME IInv, NEW kind \in Kinds, Request(kind)
    PROVE  IInv'
<1> USE PowerOffAssumption DEF Ids, NoTimer
<1> DEFINE n == Len(requests) + 1
<1>1. /\ requests \in Seq(Kinds) /\ Len(requests) \in Nat /\ n \in Ids
      /\ waited \in Nat /\ timers \in [Ids -> NoTimer..TIMEOUT] /\ ending = "no"
      /\ down = "no" /\ down' = "no" /\ shown' = 0 /\ DURATION \in Nat
      /\ noti \subseteq Kinds /\ waited' = waited /\ handle \in BOOLEAN
      /\ poweroff_timer_id \in Ids \union {0}
  BY DEF IInv, TypeOK, Request
<1>2. /\ requests' \in Seq(Kinds) /\ Len(requests') = n
      /\ requests'[n] = kind
      /\ \A i \in 1..Len(requests) : requests'[i] = requests[i]
  BY <1>1 DEF Request
<1>3. CASE ByForce(kind)
  <2>1. ending' = kind /\ handle' = FALSE /\ noti' \subseteq noti \union {kind}
    BY <1>3 DEF ByForce, Down
  <2>2. /\ timers' \in [Ids -> NoTimer..TIMEOUT]
        /\ \A i \in Ids : timers'[i] # NoTimer => timers[i] # NoTimer
        /\ poweroff_timer_id' \in Ids \union {0}
    <3>1. CASE UNCHANGED <<timers, poweroff_timer_id>>
      BY <1>1, <3>1
    <3>2. CASE DeleteKnownTimer
      BY <1>1, <3>2 DEF DeleteKnownTimer
    <3> QED
      BY <1>3, <3>1, <3>2 DEF ByForce
  <2>3. TypeOK'
    <3>1. /\ noti' \subseteq Kinds /\ ending' \in Kinds /\ waited' \in Nat
          /\ down' \in {"no", ending'} /\ shown' \in 0..DURATION
      BY <1>1, <2>1
    <3>2. requests' \in Seq(Kinds) /\ Len(requests') <= MaxRequests
      BY <1>1, <1>2
    <3>3. handle' \in BOOLEAN
      BY <2>1
    <3> QED
      BY <2>2, <3>1, <3>2, <3>3 DEF TypeOK
  <2>4. FirstTimerRuns' /\ OneAnimation'
    <3>1. waited <= TIMEOUT
      <4>1. CASE requests = <<>>
        BY <4>1 DEF IInv, NothingWaitsUnasked
      <4>2. CASE requests # <<>>
        <5>1. timers[1] \in Int /\ timers[1] >= 0 /\ waited + timers[1] = TIMEOUT
          BY <1>1, <4>2 DEF IInv, FirstTimerRuns
        <5> QED
          BY <1>1, <5>1
      <4> QED
        BY <4>1, <4>2
    <3>2. ending' # "no"
      BY <2>1 DEF Kinds
    <3> QED
      BY <1>1, <3>1, <3>2 DEF FirstTimerRuns, OneAnimation
  <2>5. NothingWaitsUnasked'
    <3>1. requests' # <<>>
      BY <1>1, <1>2
    <3>2. \A i \in Ids : timers'[i] # NoTimer => i <= Len(requests')
      <4>1. \A i \in Ids : timers[i] # NoTimer => i <= Len(requests)
        BY DEF IInv, NothingWaitsUnasked
      <4> QED
        BY <1>1, <1>2, <2>2, <4>1
    <3>3. ASSUME NEW k \in noti' PROVE \E i \in 1..Len(requests') : requests'[i] = k
      <4>1. CASE k = kind
        BY <1>1, <1>2, <4>1
      <4>2. CASE k \in noti
        <5>1. PICK i \in 1..Len(requests) : requests[i] = k
          BY <4>2 DEF IInv, NothingWaitsUnasked
        <5> QED
          BY <1>1, <1>2, <5>1
      <4> QED
        BY <2>1, <3>3, <4>1, <4>2
    <3> QED
      BY <1>2, <2>1, <3>1, <3>2, <3>3 DEF NothingWaitsUnasked
  <2> QED
    BY <2>3, <2>4, <2>5 DEF IInv
<1>4. CASE WaitForModem(kind)
  <2>1. /\ noti' \subseteq noti \union {kind} /\ ending' = "no"
        /\ handle' = handle /\ poweroff_timer_id' = n
    BY <1>1, <1>2, <1>4 DEF WaitForModem
  <2>2. /\ timers' \in [Ids -> NoTimer..TIMEOUT]
        /\ timers'[n] = TIMEOUT
        /\ \A i \in Ids : i # n => timers'[i] = timers[i]
    BY <1>1, <1>2, <1>4 DEF WaitForModem
  <2>3. TypeOK'
    BY <1>1, <1>2, <2>1, <2>2 DEF TypeOK
  <2>4. FirstTimerRuns'
    <3>1. CASE requests = <<>>
      <4>1. n = 1 /\ waited = 0
        BY <1>1, <3>1 DEF IInv, NothingWaitsUnasked
      <4>2. timers'[1] = TIMEOUT /\ waited' = 0
        BY <1>1, <2>2, <4>1
      <4> QED
        BY <4>2 DEF FirstTimerRuns
    <3>2. CASE requests # <<>>
      <4>1. n # 1 /\ 1 \in Ids
        BY <1>1, <3>2
      <4> QED
        BY <1>1, <2>2, <3>2, <4>1 DEF FirstTimerRuns, IInv
    <3> QED
      BY <3>1, <3>2
  <2>5. NothingWaitsUnasked'
    <3>1. requests' # <<>>
      BY <1>1, <1>2
    <3>2. \A i \in Ids : timers'[i] # NoTimer => i <= Len(requests')
      <4>1. \A i \in Ids : timers[i] # NoTimer => i <= Len(requests)
        BY DEF IInv, NothingWaitsUnasked
      <4>2. ASSUME NEW i \in Ids, timers'[i] # NoTimer, i # n
            PROVE  i <= Len(requests')
        BY <1>1, <1>2, <2>2, <4>1, <4>2
      <4> QED
        BY <1>2, <4>2
    <3>3. ASSUME NEW k \in noti' PROVE \E i \in 1..Len(requests') : requests'[i] = k
      <4>1. CASE k = kind
        BY <1>1, <1>2, <4>1
      <4>2. CASE k \in noti
        <5>1. PICK i \in 1..Len(requests) : requests[i] = k
          BY <4>2 DEF IInv, NothingWaitsUnasked
        <5> QED
          BY <1>1, <1>2, <5>1
      <4> QED
        BY <2>1, <3>3, <4>1, <4>2
    <3> QED
      BY <2>1, <3>1, <3>2, <3>3 DEF NothingWaitsUnasked
  <2>6. OneAnimation'
    BY <2>1 DEF OneAnimation
  <2> QED
    BY <2>3, <2>4, <2>5, <2>6 DEF IInv
<1> QED
  BY <1>3, <1>4 DEF Request

(* The end that begins is one that was asked for, in time. *)
LEMMA EndStep ==
    ASSUME IInv, NEW kind \in Kinds, Down(kind), ending = "no",
           \E i \in 1..Len(requests) : requests[i] = kind,
           UNCHANGED <<requests, waited, shown, down>>,
           noti' \subseteq noti,
           DeleteKnownTimer \/ UNCHANGED <<timers, poweroff_timer_id>>
    PROVE  IInv'
<1> USE PowerOffAssumption DEF Ids, NoTimer
<1>1. /\ timers' \in [Ids -> NoTimer..TIMEOUT]
      /\ \A i \in Ids : timers'[i] # NoTimer => timers[i] # NoTimer
      /\ poweroff_timer_id' \in Ids \union {0}
  <2>1. timers \in [Ids -> NoTimer..TIMEOUT] /\ poweroff_timer_id \in Ids \union {0}
    BY DEF IInv, TypeOK
  <2>2. CASE UNCHANGED <<timers, poweroff_timer_id>>
    BY <2>1, <2>2
  <2>3. CASE DeleteKnownTimer
    BY <2>1, <2>3 DEF DeleteKnownTimer
  <2> QED
    BY <2>2, <2>3
<1>2. TypeOK'
  BY <1>1 DEF IInv, TypeOK, Down
<1>3. FirstTimerRuns' /\ OneAnimation'
  <2>1. ending' # "no"
    BY DEF Down, Kinds
  <2>2. requests \in Seq(Kinds) /\ Len(requests) <= MaxRequests /\ requests # <<>>
    BY DEF IInv, TypeOK
  <2>3. 1 \in Ids
    BY <2>2
  <2>4. /\ timers[1] \in Int /\ timers[1] >= 0 /\ waited + timers[1] = TIMEOUT
        /\ waited \in Nat /\ shown \in Nat
    BY <2>2, <2>3 DEF IInv, TypeOK, FirstTimerRuns
  <2> QED
    BY <2>1, <2>4 DEF FirstTimerRuns, OneAnimation
<1>4. NothingWaitsUnasked'
  BY <1>1 DEF NothingWaitsUnasked, IInv, Down
<1> QED
  BY <1>2, <1>3, <1>4 DEF IInv

(* Every request, notification and timer keeps the invariant. *)
LEMMA InductiveStep == IInv /\ [Next]_vars => IInv'
<1> SUFFICES ASSUME IInv, [Next]_vars PROVE IInv'
  OBVIOUS
<1> USE PowerOffAssumption
<1>1. ASSUME NEW kind \in Kinds, Request(kind) PROVE IInv'
  BY <1>1, RequestStep
<1>2. ASSUME NEW kind \in Kinds, ModemNoti(kind) PROVE IInv'
  <2>1. \E i \in 1..Len(requests) : requests[i] = kind
    BY <1>2 DEF ModemNoti, IInv, NothingWaitsUnasked
  <2> QED
    BY <1>2, <2>1, EndStep DEF ModemNoti
<1>3. ASSUME NEW i \in Ids, TimerFires(i) PROVE IInv'
  <2>1. i \in 1..Len(requests) /\ requests[i] \in Kinds
    BY <1>3 DEF TimerFires, IInv, NothingWaitsUnasked, TypeOK, Ids, NoTimer
  <2> QED
    BY <1>3, <2>1, EndStep DEF TimerFires
<1>4. CASE End
  BY <1>4 DEF End, IInv, TypeOK, FirstTimerRuns, OneAnimation, NothingWaitsUnasked
<1>5. CASE Tick
  <2> USE DEF Ids, NoTimer
  <2>1. /\ timers \in [Ids -> NoTimer..TIMEOUT] /\ waited \in Nat
        /\ requests \in Seq(Kinds) /\ shown \in 0..DURATION /\ shown' \in 0..DURATION
        /\ waited' \in Nat /\ waited' <= waited + 1 /\ requests # <<>>
    BY <1>5 DEF IInv, TypeOK, Tick
  <2>2. /\ timers' \in [Ids -> NoTimer..TIMEOUT]
        /\ \A i \in Ids : timers'[i] # NoTimer => timers[i] # NoTimer
    BY <1>5, <2>1 DEF Tick
  <2>3. TypeOK'
    BY <1>5, <2>1, <2>2 DEF Tick, IInv, TypeOK
  <2>4. FirstTimerRuns'
    <3>1. CASE ending = "no"
      <4>1. /\ 1 \in Ids /\ timers[1] > 0 /\ waited + timers[1] = TIMEOUT
            /\ ending' = ending
        BY <1>5, <2>1, <3>1 DEF Tick, IInv, FirstTimerRuns, TypeOK
      <4>2. timers'[1] = timers[1] - 1 /\ waited' = waited + 1
        BY <1>5, <2>1, <4>1 DEF Tick
      <4> QED
        BY <2>1, <4>1, <4>2 DEF FirstTimerRuns
    <3>2. CASE ending # "no"
      BY <1>5, <3>2 DEF Tick, FirstTimerRuns
    <3> QED
      BY <3>1, <3>2
  <2>5. OneAnimation'
    <3>1. CASE ending = "no"
      BY <1>5, <3>1 DEF Tick, OneAnimation
    <3>2. CASE ending # "no"
      <4>1. waited <= TIMEOUT + shown /\ shown' = shown + 1
        BY <1>5, <3>2 DEF Tick, IInv, OneAnimation
      <4> QED
        BY <2>1, <4>1 DEF OneAnimation
    <3> QED
      BY <3>1, <3>2
  <2>6. NothingWaitsUnasked'
    BY <1>5, <2>1, <2>2 DEF Tick, IInv, NothingWaitsUnasked
  <2> QED
    BY <2>3, <2>4, <2>5, <2>6 DEF IInv
<1>6. CASE UNCHANGED vars
  BY <1>6 DEF vars, IInv, TypeOK, FirstTimerRuns, OneAnimation, NothingWaitsUnasked,
              Ids, Kinds
<1> QED
  BY <1>1, <1>2, <1>3, <1>4, <1>5, <1>6 DEF Next

(* The inductive invariant of power-off and restart. *)
THEOREM Invariance == Spec => []IInv
BY InitIInv, InductiveStep, PTL DEF Spec

(* Whoever ends the device, the modem, a timer or the action itself, ends it  *)
(* in a way that was asked for.                                            *)
THEOREM EndsAsAsked == Spec => []DownAsAsked
<1>1. IInv => DownAsAsked
  BY DEF IInv, TypeOK, NothingWaitsUnasked, DownAsAsked
<1> QED
  BY <1>1, Invariance, PTL

(* Further requests, each of which starts the animation anew, put off the     *)
(* end that the first one asked for by one animation at most, however many. *)
THEOREM EndIsPutOffByOneAnimation == Spec => []DeadlineKept
<1>1. IInv => DeadlineKept
  <2> SUFFICES ASSUME IInv, requests # <<>>, down = "no"
               PROVE  waited <= TIMEOUT + DURATION
    BY DEF DeadlineKept
  <2>1. requests \in Seq(Kinds) /\ Len(requests) <= MaxRequests /\ waited \in Nat
        /\ timers \in [Ids -> NoTimer..TIMEOUT] /\ shown \in 0..DURATION
    BY DEF IInv, TypeOK
  <2>2. CASE ending = "no"
    <3>1. 1 \in Ids
      BY <2>1, PowerOffAssumption DEF Ids
    <3>2. timers[1] \in Int /\ timers[1] >= 0 /\ waited + timers[1] = TIMEOUT
      BY <2>1, <2>2, <3>1, PowerOffAssumption DEF IInv, FirstTimerRuns, NoTimer
    <3> QED
      BY <2>1, <3>2, PowerOffAssumption
  <2>3. CASE ending # "no"
    BY <2>1, <2>3, PowerOffAssumption DEF IInv, OneAnimation
  <2> QED
    BY <2>2, <2>3
<1> QED
  BY <1>1, Invariance, PTL
=============================================================================
