--------------------------- MODULE RunQueueProofs ---------------------------
(* Theorems about RunQueue, for any number of calls, any set of pids and    *)
(* any capacity of the pipe.                                               *)
EXTENDS RunQueuePipe, FiniteSetTheorems, FunctionTheorems, TLAPS

----------------------------------------------------------------------------
(* core_pipe as a sequence: what a write and a read do to its content.      *)
LEMMA WriteHas ==
    ASSUME NEW S, NEW s \in Seq(S), NEW x \in S, NEW m
    PROVE  Has(Append(s, x), m) <=> Has(s, m) \/ m = x
<1>1. Len(Append(s, x)) = Len(s) + 1 /\ Len(s) \in Nat
  OBVIOUS
<1>2. \A k \in 1..Len(s) : Append(s, x)[k] = s[k]
  OBVIOUS
<1>3. Append(s, x)[Len(s) + 1] = x
  OBVIOUS
<1>4. ASSUME Has(Append(s, x), m) PROVE Has(s, m) \/ m = x
  BY <1>1, <1>2, <1>3, <1>4 DEF Has
<1>5. ASSUME Has(s, m) PROVE Has(Append(s, x), m)
  <2>1. PICK k \in 1..Len(s) : s[k] = m
    BY <1>5 DEF Has
  <2>2. k \in 1..Len(Append(s, x)) /\ Append(s, x)[k] = m
    BY <1>1, <1>2, <2>1
  <2> QED
    BY <2>2 DEF Has
<1>6. ASSUME m = x PROVE Has(Append(s, x), m)
  BY <1>1, <1>3, <1>6 DEF Has
<1> QED
  BY <1>4, <1>5, <1>6

(* What is left in the pipe after the daemon has read its first message. *)
LEMMA ReadHas ==
    ASSUME NEW S, NEW s \in Seq(S), s # <<>>, NEW m
    PROVE  Has(s, m) <=> m = Head(s) \/ Has(Tail(s), m)
<1>1. Len(Tail(s)) = Len(s) - 1 /\ Len(s) \in Nat \ {0}
  OBVIOUS
<1>2. \A k \in 1..Len(Tail(s)) : Tail(s)[k] = s[k + 1]
  OBVIOUS
<1>3. Head(s) = s[1]
  OBVIOUS
<1>4. ASSUME Has(s, m), m # Head(s) PROVE Has(Tail(s), m)
  <2>1. PICK k \in 1..Len(s) : s[k] = m
    BY <1>4 DEF Has
  <2>2. k - 1 \in 1..Len(Tail(s)) /\ Tail(s)[k - 1] = m
    BY <1>1, <1>2, <1>3, <1>4, <2>1
  <2> QED
    BY <2>2 DEF Has
<1>5. ASSUME Has(Tail(s), m) PROVE Has(s, m)
  <2>1. PICK k \in 1..Len(Tail(s)) : Tail(s)[k] = m
    BY <1>5 DEF Has
  <2>2. k + 1 \in 1..Len(s) /\ s[k + 1] = m
    BY <1>1, <1>2, <2>1
  <2> QED
    BY <2>2 DEF Has
<1>6. ASSUME m = Head(s) PROVE Has(s, m)
  BY <1>1, <1>3, <1>6 DEF Has
<1> QED
  BY <1>4, <1>5, <1>6

(* Messages that differ in kind or pid differ. *)
LEMMA MessagesDiffer ==
    /\ \A p, q : ClearMsg(p) = ClearMsg(q) => p = q
    /\ \A p : ClearMsg(p) # RunMsg
    /\ \A m \in Messages : m.type = "RUN" => m = RunMsg
    /\ \A m \in Messages : m.type = "CLEAR" => m.pid \in Pids \cup {FastPid}
                                               /\ m = ClearMsg(m.pid)
BY DEF ClearMsg, RunMsg, Messages

(* The pids that are not a child's. *)
LEMMA SpecialPids ==
    /\ NoPid \notin Pids /\ InitPid \notin Pids /\ FastPid \notin Pids
    /\ NoPid # FastPid /\ InitPid # FastPid /\ NoPid # InitPid
BY RunQueueAssumption DEF NoPid, InitPid, FastPid

----------------------------------------------------------------------------
(* Every variable keeps its type. *)
LEMMA TypeStep == TypeOK /\ [Next]_vars => TypeOK'
<1> SUFFICES ASSUME TypeOK, [Next]_vars PROVE TypeOK'
  OBVIOUS
<1> USE RunQueueAssumption DEF TypeOK, Calls, MainAt, queue, thread, sig
<1>1. CASE Call
  BY <1>1 DEF Call
<1>2. CASE Wake
  BY <1>2 DEF Wake, Write, Messages
<1>3. CASE ReadRun
  BY <1>3 DEF ReadRun
<1>4. CASE ReadClear
  BY <1>4 DEF ReadClear
<1>5. CASE RunFast
  BY <1>5 DEF RunFast, Run, IsNext, Ahead
<1>6. CASE RunExisting
  BY <1>6 DEF RunExisting, Run, IsNext, Ahead
<1>7. ASSUME NEW p \in Pids, RunFork(p) PROVE TypeOK'
  BY <1>7 DEF RunFork, Run, IsNext, Ahead
<1>8. CASE SweepEnd
  BY <1>8 DEF SweepEnd
<1>9. CASE Probe
  BY <1>9 DEF Probe
<1>10. CASE Store
  BY <1>10 DEF Store
<1>11. CASE Finish
  BY <1>11 DEF Finish
<1>12. CASE ClearSelf
  BY <1>12 DEF ClearSelf, Write, Messages
<1>13. CASE Deliver
  BY <1>13 DEF Deliver
<1>14. CASE Reap
  BY <1>14 DEF Reap
<1>15. CASE ReapFails
  BY <1>15 DEF ReapFails
<1>16. CASE Report
  BY <1>16 DEF Report, Write, Messages
<1>17. ASSUME NEW p \in Pids, LaunchDetached(p) PROVE TypeOK'
  BY <1>17 DEF LaunchDetached
<1>18. ASSUME NEW p \in Pids, Exit(p) PROVE TypeOK'
  BY <1>18 DEF Exit, Raise
<1>19. ASSUME NEW p \in Pids, Stop(p) PROVE TypeOK'
  BY <1>19 DEF Stop, Raise
<1>20. CASE UNCHANGED vars
  BY <1>20 DEF vars
<1> QED
  BY <1>1, <1>2, <1>3, <1>4, <1>5, <1>6, <1>7, <1>8, <1>9, <1>10, <1>11, <1>12,
     <1>13, <1>14, <1>15, <1>16, <1>17, <1>18, <1>19, <1>20
     DEF Next, Main, Handler, RunEntry

(* Entries, pipe, handler and children keep their types, at every point where*)
(* SIGCHLD may interrupt the daemon.                                        *)
THEOREM TypeCorrect == Spec => []TypeOK
<1>1. Init => TypeOK
  BY RunQueueAssumption DEF Init, TypeOK, Calls
<1> QED
  BY <1>1, TypeStep, PTL DEF Spec

----------------------------------------------------------------------------
(* Every step of the thread, of the handler and of the children keeps the   *)
(* invariant.                                                               *)
LEMMA InductiveStep == IInv /\ [Next]_vars => IInv'
<1> SUFFICES ASSUME IInv, [Next]_vars PROVE IInv'
  OBVIOUS
<1>a. TypeOK /\ TypeOK'
  BY TypeStep DEF IInv
<1> USE RunQueueAssumption, SpecialPids, MessagesDiffer, <1>a DEF IInv, TypeOK, Calls, MainAt, queue, thread, sig, InPipe
<1>1. CASE Call
  <2>0. \A m : InPipe(m)' <=> InPipe(m)
    BY <1>1 DEF Call
  <2>1. EntryShape'
    BY <1>1, <2>0 DEF Call, EntryShape, CursorShape, SignalShape
  <2>2. CursorShape'
    BY <1>1, <2>0 DEF Call, CursorShape, EntryShape, SignalShape
  <2>3. SignalShape'
    BY <1>1, <2>0 DEF Call, SignalShape, EntryShape, CursorShape
  <2>4. NoLostWakeup'
    BY <1>1, <2>0 DEF Call, NoLostWakeup, EntryShape, CursorShape, SignalShape
  <2>5. DoneWillBeCleared'
    BY <1>1, <2>0 DEF Call, DoneWillBeCleared, EntryShape, CursorShape, SignalShape
  <2>6. DeadChildWillBeCleared'
    BY <1>1, <2>0 DEF Call, DeadChildWillBeCleared, PidOf, EntryShape, CursorShape, SignalShape
  <2>7. OneEntryPerChild'
    BY <1>1, <2>0 DEF Call, OneEntryPerChild, PidOf, DeadChildWillBeCleared, EntryShape, CursorShape, SignalShape
  <2> QED
    BY <2>1, <2>2, <2>3, <2>4, <2>5, <2>6, <2>7
<1>2. CASE Wake
  <2>0. \A m : InPipe(m)' <=> InPipe(m) \/ m = RunMsg
    BY <1>2, WriteHas DEF Wake, Write, Messages
  <2>1. EntryShape'
    BY <1>2, <2>0 DEF Wake, Write, EntryShape, CursorShape, SignalShape
  <2>2. CursorShape'
    BY <1>2, <2>0 DEF Wake, Write, CursorShape, EntryShape, SignalShape
  <2>3. SignalShape'
    BY <1>2, <2>0 DEF Wake, Write, SignalShape, EntryShape, CursorShape
  <2>4. NoLostWakeup'
    BY <1>2, <2>0 DEF Wake, Write, NoLostWakeup, EntryShape, CursorShape, SignalShape
  <2>5. DoneWillBeCleared'
    BY <1>2, <2>0 DEF Wake, Write, DoneWillBeCleared, EntryShape, CursorShape, SignalShape
  <2>6. DeadChildWillBeCleared'
    BY <1>2, <2>0 DEF Wake, Write, DeadChildWillBeCleared, PidOf, EntryShape, CursorShape, SignalShape
  <2>7. OneEntryPerChild'
    BY <1>2, <2>0 DEF Wake, Write, OneEntryPerChild, PidOf, DeadChildWillBeCleared, EntryShape, CursorShape, SignalShape
  <2> QED
    BY <2>1, <2>2, <2>3, <2>4, <2>5, <2>6, <2>7
<1>3. CASE ReadRun
  <2>0. \A m : InPipe(m) <=> m = Head(core_pipe) \/ InPipe(m)'
    BY <1>3, ReadHas DEF ReadRun
  <2>1. EntryShape'
    BY <1>3, <2>0 DEF ReadRun, EntryShape, CursorShape, SignalShape
  <2>2. CursorShape'
    BY <1>3, <2>0 DEF ReadRun, CursorShape, EntryShape, SignalShape
  <2>3. SignalShape'
    BY <1>3, <2>0 DEF ReadRun, SignalShape, EntryShape, CursorShape
  <2>4. NoLostWakeup'
    BY <1>3, <2>0 DEF ReadRun, NoLostWakeup, EntryShape, CursorShape, SignalShape
  <2>5. DoneWillBeCleared'
    BY <1>3, <2>0 DEF ReadRun, DoneWillBeCleared, EntryShape, CursorShape, SignalShape
  <2>6. DeadChildWillBeCleared'
    BY <1>3, <2>0 DEF ReadRun, DeadChildWillBeCleared, PidOf, EntryShape, CursorShape, SignalShape
  <2>7. OneEntryPerChild'
    BY <1>3, <2>0 DEF ReadRun, OneEntryPerChild, PidOf, DeadChildWillBeCleared, EntryShape, CursorShape, SignalShape
  <2> QED
    BY <2>1, <2>2, <2>3, <2>4, <2>5, <2>6, <2>7
<1>4. CASE ReadClear
  <2>0. \A m : InPipe(m) <=> m = Head(core_pipe) \/ InPipe(m)'
    BY <1>4, ReadHas DEF ReadClear
  <2>1. EntryShape'
    BY <1>4, <2>0 DEF ReadClear, EntryShape, CursorShape, SignalShape
  <2>2. CursorShape'
    BY <1>4, <2>0 DEF ReadClear, CursorShape, EntryShape, SignalShape
  <2>3. SignalShape'
    BY <1>4, <2>0 DEF ReadClear, SignalShape, EntryShape, CursorShape
  <2>4. NoLostWakeup'
    BY <1>4, <2>0 DEF ReadClear, NoLostWakeup, EntryShape, CursorShape, SignalShape
  <2>5. DoneWillBeCleared'
    BY <1>4, <2>0 DEF ReadClear, DoneWillBeCleared, EntryShape, CursorShape, SignalShape
  <2>6. DeadChildWillBeCleared'
    BY <1>4, <2>0 DEF ReadClear, DeadChildWillBeCleared, PidOf, EntryShape, CursorShape, SignalShape
  <2>7. OneEntryPerChild'
    BY <1>4, <2>0 DEF ReadClear, OneEntryPerChild, PidOf, DeadChildWillBeCleared, EntryShape, CursorShape, SignalShape
  <2> QED
    BY <2>1, <2>2, <2>3, <2>4, <2>5, <2>6, <2>7
<1>5. CASE RunFast
  <2>0. \A m : InPipe(m)' <=> InPipe(m)
    BY <1>5 DEF RunFast, Run
  <2>1. EntryShape'
    BY <1>5, <2>0 DEF RunFast, Run, IsNext, Ahead, EntryShape, CursorShape, SignalShape
  <2>2. CursorShape'
    BY <1>5, <2>0 DEF RunFast, Run, IsNext, Ahead, CursorShape, EntryShape, SignalShape
  <2>3. SignalShape'
    BY <1>5, <2>0 DEF RunFast, Run, IsNext, Ahead, SignalShape, EntryShape, CursorShape
  <2>4. NoLostWakeup'
    BY <1>5, <2>0 DEF RunFast, Run, IsNext, Ahead, NoLostWakeup, EntryShape, CursorShape, SignalShape
  <2>5. DoneWillBeCleared'
    BY <1>5, <2>0 DEF RunFast, Run, IsNext, Ahead, DoneWillBeCleared, EntryShape, CursorShape, SignalShape
  <2>6. DeadChildWillBeCleared'
    BY <1>5, <2>0 DEF RunFast, Run, IsNext, Ahead, DeadChildWillBeCleared, PidOf, EntryShape, CursorShape, SignalShape
  <2>7. OneEntryPerChild'
    BY <1>5, <2>0 DEF RunFast, Run, IsNext, Ahead, OneEntryPerChild, PidOf, DeadChildWillBeCleared, EntryShape, CursorShape, SignalShape
  <2> QED
    BY <2>1, <2>2, <2>3, <2>4, <2>5, <2>6, <2>7
<1>6. CASE RunExisting
  <2>0. \A m : InPipe(m)' <=> InPipe(m)
    BY <1>6 DEF RunExisting, Run
  <2>1. EntryShape'
    BY <1>6, <2>0 DEF RunExisting, Run, IsNext, Ahead, EntryShape, CursorShape, SignalShape
  <2>2. CursorShape'
    BY <1>6, <2>0 DEF RunExisting, Run, IsNext, Ahead, CursorShape, EntryShape, SignalShape
  <2>3. SignalShape'
    BY <1>6, <2>0 DEF RunExisting, Run, IsNext, Ahead, SignalShape, EntryShape, CursorShape
  <2>4. NoLostWakeup'
    BY <1>6, <2>0 DEF RunExisting, Run, IsNext, Ahead, NoLostWakeup, EntryShape, CursorShape, SignalShape
  <2>5. DoneWillBeCleared'
    BY <1>6, <2>0 DEF RunExisting, Run, IsNext, Ahead, DoneWillBeCleared, EntryShape, CursorShape, SignalShape
  <2>6. DeadChildWillBeCleared'
    BY <1>6, <2>0 DEF RunExisting, Run, IsNext, Ahead, DeadChildWillBeCleared, PidOf, EntryShape, CursorShape, SignalShape
  <2>7. OneEntryPerChild'
    BY <1>6, <2>0 DEF RunExisting, Run, IsNext, Ahead, OneEntryPerChild, PidOf, DeadChildWillBeCleared, EntryShape, CursorShape, SignalShape
  <2> QED
    BY <2>1, <2>2, <2>3, <2>4, <2>5, <2>6, <2>7
<1>7. ASSUME NEW p \in Pids, RunFork(p) PROVE IInv'
  <2>0. \A m : InPipe(m)' <=> InPipe(m)
    BY <1>7 DEF RunFork, Run
  <2>1. EntryShape'
    BY <1>7, <2>0 DEF RunFork, Run, IsNext, Ahead, Unused, EntryShape, CursorShape, SignalShape
  <2>2. CursorShape'
    BY <1>7, <2>0 DEF RunFork, Run, IsNext, Ahead, Unused, CursorShape, EntryShape, SignalShape
  <2>3. SignalShape'
    BY <1>7, <2>0 DEF RunFork, Run, IsNext, Ahead, Unused, SignalShape, EntryShape, CursorShape
  <2>4. NoLostWakeup'
    BY <1>7, <2>0 DEF RunFork, Run, IsNext, Ahead, Unused, NoLostWakeup, EntryShape, CursorShape, SignalShape
  <2>5. DoneWillBeCleared'
    BY <1>7, <2>0 DEF RunFork, Run, IsNext, Ahead, Unused, DoneWillBeCleared, EntryShape, CursorShape, SignalShape
  <2>6. DeadChildWillBeCleared'
    BY <1>7, <2>0 DEF RunFork, Run, IsNext, Ahead, Unused, DeadChildWillBeCleared, PidOf, EntryShape, CursorShape, SignalShape
  <2>7. OneEntryPerChild'
    BY <1>7, <2>0 DEF RunFork, Run, IsNext, Ahead, Unused, OneEntryPerChild, PidOf, DeadChildWillBeCleared, EntryShape, CursorShape, SignalShape
  <2> QED
    BY <2>1, <2>2, <2>3, <2>4, <2>5, <2>6, <2>7
<1>8. CASE SweepEnd
  <2>0. \A m : InPipe(m)' <=> InPipe(m)
    BY <1>8 DEF SweepEnd
  <2>1. EntryShape'
    BY <1>8, <2>0 DEF SweepEnd, Ahead, EntryShape, CursorShape, SignalShape
  <2>2. CursorShape'
    BY <1>8, <2>0 DEF SweepEnd, Ahead, CursorShape, EntryShape, SignalShape
  <2>3. SignalShape'
    BY <1>8, <2>0 DEF SweepEnd, Ahead, SignalShape, EntryShape, CursorShape
  <2>4. NoLostWakeup'
    BY <1>8, <2>0 DEF SweepEnd, Ahead, NoLostWakeup, EntryShape, CursorShape, SignalShape
  <2>5. DoneWillBeCleared'
    BY <1>8, <2>0 DEF SweepEnd, Ahead, DoneWillBeCleared, EntryShape, CursorShape, SignalShape
  <2>6. DeadChildWillBeCleared'
    BY <1>8, <2>0 DEF SweepEnd, Ahead, DeadChildWillBeCleared, PidOf, EntryShape, CursorShape, SignalShape
  <2>7. OneEntryPerChild'
    BY <1>8, <2>0 DEF SweepEnd, Ahead, OneEntryPerChild, PidOf, DeadChildWillBeCleared, EntryShape, CursorShape, SignalShape
  <2> QED
    BY <2>1, <2>2, <2>3, <2>4, <2>5, <2>6, <2>7
<1>9. CASE Probe
  <2>0. \A m : InPipe(m)' <=> InPipe(m)
    BY <1>9 DEF Probe
  <2>1. EntryShape'
    BY <1>9, <2>0 DEF Probe, HasStatus, EntryShape, CursorShape, SignalShape
  <2>2. CursorShape'
    BY <1>9, <2>0 DEF Probe, HasStatus, CursorShape, EntryShape, SignalShape
  <2>3. SignalShape'
    BY <1>9, <2>0 DEF Probe, HasStatus, SignalShape, EntryShape, CursorShape
  <2>4. NoLostWakeup'
    BY <1>9, <2>0 DEF Probe, HasStatus, NoLostWakeup, EntryShape, CursorShape, SignalShape
  <2>5. DoneWillBeCleared'
    BY <1>9, <2>0 DEF Probe, HasStatus, DoneWillBeCleared, EntryShape, CursorShape, SignalShape
  <2>6. DeadChildWillBeCleared'
    BY <1>9, <2>0 DEF Probe, HasStatus, DeadChildWillBeCleared, PidOf, EntryShape, CursorShape, SignalShape
  <2>7. OneEntryPerChild'
    BY <1>9, <2>0 DEF Probe, HasStatus, OneEntryPerChild, PidOf, DeadChildWillBeCleared, EntryShape, CursorShape, SignalShape
  <2> QED
    BY <2>1, <2>2, <2>3, <2>4, <2>5, <2>6, <2>7
<1>10. CASE Store
  <2>0. \A m : InPipe(m)' <=> InPipe(m)
    BY <1>10 DEF Store
  <2>1. EntryShape'
    BY <1>10, <2>0 DEF Store, EntryShape, CursorShape, SignalShape
  <2>2. CursorShape'
    BY <1>10, <2>0 DEF Store, CursorShape, EntryShape, SignalShape
  <2>3. SignalShape'
    BY <1>10, <2>0 DEF Store, SignalShape, EntryShape, CursorShape
  <2>4. NoLostWakeup'
    BY <1>10, <2>0 DEF Store, NoLostWakeup, EntryShape, CursorShape, SignalShape
  <2>5. DoneWillBeCleared'
    BY <1>10, <2>0 DEF Store, DoneWillBeCleared, EntryShape, CursorShape, SignalShape
  <2>6. DeadChildWillBeCleared'
    BY <1>10, <2>0 DEF Store, DeadChildWillBeCleared, PidOf, EntryShape, CursorShape, SignalShape
  <2>7. OneEntryPerChild'
    BY <1>10, <2>0 DEF Store, OneEntryPerChild, PidOf, DeadChildWillBeCleared, EntryShape, CursorShape, SignalShape
  <2> QED
    BY <2>1, <2>2, <2>3, <2>4, <2>5, <2>6, <2>7
<1>11. CASE Finish
  <2>0. \A m : InPipe(m)' <=> InPipe(m)
    BY <1>11 DEF Finish
  <2>1. EntryShape'
    BY <1>11, <2>0 DEF Finish, EntryShape, CursorShape, SignalShape
  <2>2. CursorShape'
    BY <1>11, <2>0 DEF Finish, CursorShape, EntryShape, SignalShape
  <2>3. SignalShape'
    BY <1>11, <2>0 DEF Finish, SignalShape, EntryShape, CursorShape
  <2>4. NoLostWakeup'
    BY <1>11, <2>0 DEF Finish, NoLostWakeup, EntryShape, CursorShape, SignalShape
  <2>5. DoneWillBeCleared'
    BY <1>11, <2>0 DEF Finish, DoneWillBeCleared, EntryShape, CursorShape, SignalShape
  <2>6. DeadChildWillBeCleared'
    BY <1>11, <2>0 DEF Finish, DeadChildWillBeCleared, PidOf, EntryShape, CursorShape, SignalShape
  <2>7. OneEntryPerChild'
    BY <1>11, <2>0 DEF Finish, OneEntryPerChild, PidOf, DeadChildWillBeCleared, EntryShape, CursorShape, SignalShape
  <2> QED
    BY <2>1, <2>2, <2>3, <2>4, <2>5, <2>6, <2>7
<1>12. CASE ClearSelf
  <2>0. \A m : InPipe(m)' <=> InPipe(m) \/ m = ClearMsg(FastPid)
    BY <1>12, WriteHas DEF ClearSelf, Write, Messages
  <2>1. EntryShape'
    BY <1>12, <2>0 DEF ClearSelf, Write, EntryShape, CursorShape, SignalShape
  <2>2. CursorShape'
    BY <1>12, <2>0 DEF ClearSelf, Write, CursorShape, EntryShape, SignalShape
  <2>3. SignalShape'
    BY <1>12, <2>0 DEF ClearSelf, Write, SignalShape, EntryShape, CursorShape
  <2>4. NoLostWakeup'
    BY <1>12, <2>0 DEF ClearSelf, Write, NoLostWakeup, EntryShape, CursorShape, SignalShape
  <2>5. DoneWillBeCleared'
    BY <1>12, <2>0 DEF ClearSelf, Write, DoneWillBeCleared, EntryShape, CursorShape, SignalShape
  <2>6. DeadChildWillBeCleared'
    BY <1>12, <2>0 DEF ClearSelf, Write, DeadChildWillBeCleared, PidOf, EntryShape, CursorShape, SignalShape
  <2>7. OneEntryPerChild'
    BY <1>12, <2>0 DEF ClearSelf, Write, OneEntryPerChild, PidOf, DeadChildWillBeCleared, EntryShape, CursorShape, SignalShape
  <2> QED
    BY <2>1, <2>2, <2>3, <2>4, <2>5, <2>6, <2>7
<1>13. CASE Deliver
  <2>0. \A m : InPipe(m)' <=> InPipe(m)
    BY <1>13 DEF Deliver
  <2>1. EntryShape'
    BY <1>13, <2>0 DEF Deliver, EntryShape, CursorShape, SignalShape
  <2>2. CursorShape'
    BY <1>13, <2>0 DEF Deliver, CursorShape, EntryShape, SignalShape
  <2>3. SignalShape'
    BY <1>13, <2>0 DEF Deliver, SignalShape, EntryShape, CursorShape
  <2>4. NoLostWakeup'
    BY <1>13, <2>0 DEF Deliver, NoLostWakeup, EntryShape, CursorShape, SignalShape
  <2>5. DoneWillBeCleared'
    BY <1>13, <2>0 DEF Deliver, DoneWillBeCleared, EntryShape, CursorShape, SignalShape
  <2>6. DeadChildWillBeCleared'
    BY <1>13, <2>0 DEF Deliver, DeadChildWillBeCleared, PidOf, EntryShape, CursorShape, SignalShape
  <2>7. OneEntryPerChild'
    BY <1>13, <2>0 DEF Deliver, OneEntryPerChild, PidOf, DeadChildWillBeCleared, EntryShape, CursorShape, SignalShape
  <2> QED
    BY <2>1, <2>2, <2>3, <2>4, <2>5, <2>6, <2>7
<1>14. CASE Reap
  <2>0. \A m : InPipe(m)' <=> InPipe(m)
    BY <1>14 DEF Reap
  <2>1. EntryShape'
    BY <1>14, <2>0 DEF Reap, EntryShape, CursorShape, SignalShape
  <2>2. CursorShape'
    BY <1>14, <2>0 DEF Reap, CursorShape, EntryShape, SignalShape
  <2>3. SignalShape'
    BY <1>14, <2>0 DEF Reap, SignalShape, EntryShape, CursorShape
  <2>4. NoLostWakeup'
    BY <1>14, <2>0 DEF Reap, NoLostWakeup, EntryShape, CursorShape, SignalShape
  <2>5. DoneWillBeCleared'
    BY <1>14, <2>0 DEF Reap, DoneWillBeCleared, EntryShape, CursorShape, SignalShape
  <2>6. DeadChildWillBeCleared'
    BY <1>14, <2>0 DEF Reap, DeadChildWillBeCleared, PidOf, EntryShape, CursorShape, SignalShape
  <2>7. OneEntryPerChild'
    BY <1>14, <2>0 DEF Reap, OneEntryPerChild, PidOf, DeadChildWillBeCleared, EntryShape, CursorShape, SignalShape
  <2> QED
    BY <2>1, <2>2, <2>3, <2>4, <2>5, <2>6, <2>7
<1>15. CASE ReapFails
  <2>0. \A m : InPipe(m)' <=> InPipe(m)
    BY <1>15 DEF ReapFails
  <2>1. EntryShape'
    BY <1>15, <2>0 DEF ReapFails, EntryShape, CursorShape, SignalShape
  <2>2. CursorShape'
    BY <1>15, <2>0 DEF ReapFails, CursorShape, EntryShape, SignalShape
  <2>3. SignalShape'
    BY <1>15, <2>0 DEF ReapFails, SignalShape, EntryShape, CursorShape
  <2>4. NoLostWakeup'
    BY <1>15, <2>0 DEF ReapFails, NoLostWakeup, EntryShape, CursorShape, SignalShape
  <2>5. DoneWillBeCleared'
    BY <1>15, <2>0 DEF ReapFails, DoneWillBeCleared, EntryShape, CursorShape, SignalShape
  <2>6. DeadChildWillBeCleared'
    BY <1>15, <2>0 DEF ReapFails, DeadChildWillBeCleared, PidOf, EntryShape, CursorShape, SignalShape
  <2>7. OneEntryPerChild'
    BY <1>15, <2>0 DEF ReapFails, OneEntryPerChild, PidOf, DeadChildWillBeCleared, EntryShape, CursorShape, SignalShape
  <2> QED
    BY <2>1, <2>2, <2>3, <2>4, <2>5, <2>6, <2>7
<1>16. CASE Report
  <2>0. \A m : InPipe(m)' <=> InPipe(m) \/ m = ClearMsg(hpid)
    BY <1>16, WriteHas DEF Report, Write, Messages
  <2>1. EntryShape'
    BY <1>16, <2>0 DEF Report, Write, EntryShape, CursorShape, SignalShape
  <2>2. CursorShape'
    BY <1>16, <2>0 DEF Report, Write, CursorShape, EntryShape, SignalShape
  <2>3. SignalShape'
    BY <1>16, <2>0 DEF Report, Write, SignalShape, EntryShape, CursorShape
  <2>4. NoLostWakeup'
    BY <1>16, <2>0 DEF Report, Write, NoLostWakeup, EntryShape, CursorShape, SignalShape
  <2>5. DoneWillBeCleared'
    BY <1>16, <2>0 DEF Report, Write, DoneWillBeCleared, EntryShape, CursorShape, SignalShape
  <2>6. DeadChildWillBeCleared'
    BY <1>16, <2>0 DEF Report, Write, DeadChildWillBeCleared, PidOf, EntryShape, CursorShape, SignalShape
  <2>7. OneEntryPerChild'
    BY <1>16, <2>0 DEF Report, Write, OneEntryPerChild, PidOf, DeadChildWillBeCleared, EntryShape, CursorShape, SignalShape
  <2> QED
    BY <2>1, <2>2, <2>3, <2>4, <2>5, <2>6, <2>7
<1>17. ASSUME NEW p \in Pids, LaunchDetached(p) PROVE IInv'
  <2>0. \A m : InPipe(m)' <=> InPipe(m)
    BY <1>17 DEF LaunchDetached
  <2>1. EntryShape'
    BY <1>17, <2>0 DEF LaunchDetached, Unused, EntryShape, CursorShape, SignalShape
  <2>2. CursorShape'
    BY <1>17, <2>0 DEF LaunchDetached, Unused, CursorShape, EntryShape, SignalShape
  <2>3. SignalShape'
    BY <1>17, <2>0 DEF LaunchDetached, Unused, SignalShape, EntryShape, CursorShape
  <2>4. NoLostWakeup'
    BY <1>17, <2>0 DEF LaunchDetached, Unused, NoLostWakeup, EntryShape, CursorShape, SignalShape
  <2>5. DoneWillBeCleared'
    BY <1>17, <2>0 DEF LaunchDetached, Unused, DoneWillBeCleared, EntryShape, CursorShape, SignalShape
  <2>6. DeadChildWillBeCleared'
    BY <1>17, <2>0 DEF LaunchDetached, Unused, DeadChildWillBeCleared, PidOf, EntryShape, CursorShape, SignalShape
  <2>7. OneEntryPerChild'
    BY <1>17, <2>0 DEF LaunchDetached, Unused, OneEntryPerChild, PidOf, DeadChildWillBeCleared, EntryShape, CursorShape, SignalShape
  <2> QED
    BY <2>1, <2>2, <2>3, <2>4, <2>5, <2>6, <2>7
<1>18. ASSUME NEW p \in Pids, Exit(p) PROVE IInv'
  <2>0. \A m : InPipe(m)' <=> InPipe(m)
    BY <1>18 DEF Exit
  <2>1. EntryShape'
    BY <1>18, <2>0 DEF Exit, Raise, EntryShape, CursorShape, SignalShape
  <2>2. CursorShape'
    BY <1>18, <2>0 DEF Exit, Raise, CursorShape, EntryShape, SignalShape
  <2>3. SignalShape'
    BY <1>18, <2>0 DEF Exit, Raise, SignalShape, EntryShape, CursorShape
  <2>4. NoLostWakeup'
    BY <1>18, <2>0 DEF Exit, Raise, NoLostWakeup, EntryShape, CursorShape, SignalShape
  <2>5. DoneWillBeCleared'
    BY <1>18, <2>0 DEF Exit, Raise, DoneWillBeCleared, EntryShape, CursorShape, SignalShape
  <2>6. DeadChildWillBeCleared'
    BY <1>18, <2>0 DEF Exit, Raise, DeadChildWillBeCleared, PidOf, EntryShape, CursorShape, SignalShape
  <2>7. OneEntryPerChild'
    BY <1>18, <2>0 DEF Exit, Raise, OneEntryPerChild, PidOf, DeadChildWillBeCleared, EntryShape, CursorShape, SignalShape
  <2> QED
    BY <2>1, <2>2, <2>3, <2>4, <2>5, <2>6, <2>7
<1>19. ASSUME NEW p \in Pids, Stop(p) PROVE IInv'
  <2>0. \A m : InPipe(m)' <=> InPipe(m)
    BY <1>19 DEF Stop
  <2>1. EntryShape'
    BY <1>19, <2>0 DEF Stop, Raise, EntryShape, CursorShape, SignalShape
  <2>2. CursorShape'
    BY <1>19, <2>0 DEF Stop, Raise, CursorShape, EntryShape, SignalShape
  <2>3. SignalShape'
    BY <1>19, <2>0 DEF Stop, Raise, SignalShape, EntryShape, CursorShape
  <2>4. NoLostWakeup'
    BY <1>19, <2>0 DEF Stop, Raise, NoLostWakeup, EntryShape, CursorShape, SignalShape
  <2>5. DoneWillBeCleared'
    BY <1>19, <2>0 DEF Stop, Raise, DoneWillBeCleared, EntryShape, CursorShape, SignalShape
  <2>6. DeadChildWillBeCleared'
    BY <1>19, <2>0 DEF Stop, Raise, DeadChildWillBeCleared, PidOf, EntryShape, CursorShape, SignalShape
  <2>7. OneEntryPerChild'
    BY <1>19, <2>0 DEF Stop, Raise, OneEntryPerChild, PidOf, DeadChildWillBeCleared, EntryShape, CursorShape, SignalShape
  <2> QED
    BY <2>1, <2>2, <2>3, <2>4, <2>5, <2>6, <2>7
<1>20. CASE UNCHANGED vars
  BY <1>20 DEF vars, EntryShape, CursorShape, SignalShape, NoLostWakeup, DoneWillBeCleared, DeadChildWillBeCleared, OneEntryPerChild, PidOf
<1> QED
  BY <1>1, <1>2, <1>3, <1>4, <1>5, <1>6, <1>7, <1>8, <1>9, <1>10, <1>11, <1>12, <1>13, <1>14, <1>15, <1>16, <1>17, <1>18, <1>19, <1>20 DEF Next, Main, Handler, RunEntry

(* It holds when the daemon starts. *)
LEMMA InitialIInv == Init => IInv
BY RunQueueAssumption, SpecialPids
   DEF Init, IInv, TypeOK, Calls, EntryShape, CursorShape, SignalShape, InPipe, Has,
       NoLostWakeup, DoneWillBeCleared, DeadChildWillBeCleared, OneEntryPerChild

(* Spec keeps the inductive invariant, and with it each of its parts.       *)
THEOREM Invariance == Spec => []IInv
BY InitialIInv, InductiveStep, PTL DEF Spec

(* A called action is never forgotten in the queue (ss_core.c:80-82). *)
THEOREM CallsAreNotForgotten == Spec => []NoLostWakeup
BY Invariance, PTL DEF IInv

(* An entry whose action left no process is about to be freed. *)
THEOREM DoneEntriesLeave == Spec => []DoneWillBeCleared
BY Invariance, PTL DEF IInv

(* However early the child dies, the CLEAR for its entry is under way. *)
THEOREM DeadChildrenAreReported == Spec => []DeadChildWillBeCleared
BY Invariance, PTL DEF IInv

(* A step frees an entry only if its action is over.  The only step that    *)
(* frees is ReadClear, and a CLEAR names either FastPid, the pid of entries *)
(* that are done, or a child that was reaped before it was reported.        *)
THEOREM EntriesOutliveTheirChild == Spec => FreedOnlyWhenOver
<1> DEFINE Kept == \A i \in Calls :
               state[i] # "free" /\ state'[i] = "free" =>
                   \/ state[i] = "DONE"
                   \/ /\ state[i] = "RUNNING"
                      /\ forked_pid[i] \in Pids
                      /\ proc[forked_pid[i]] = "free"
<1>1. IInv /\ ReadClear => Kept
  <2> SUFFICES ASSUME IInv, ReadClear, NEW i \in Calls, state[i] # "free", state'[i] = "free"
               PROVE  \/ state[i] = "DONE"
                      \/ /\ state[i] = "RUNNING"
                         /\ forked_pid[i] \in Pids
                         /\ proc[forked_pid[i]] = "free"
    OBVIOUS
  <2>1. InPipe(Head(core_pipe)) /\ Head(core_pipe) \in Messages
    BY ReadHas DEF ReadClear, IInv, TypeOK, InPipe
  <2>2. /\ forked_pid[i] = Head(core_pipe).pid
        /\ forked_pid[i] \in Pids \cup {FastPid}
        /\ InPipe(ClearMsg(forked_pid[i]))
    BY <2>1, MessagesDiffer DEF ReadClear, IInv, TypeOK
  <2> QED
    BY <2>2, SpecialPids DEF IInv, TypeOK, EntryShape, SignalShape
<1>2. IInv /\ [Next]_vars /\ ~ReadClear => Kept
  BY DEF IInv, TypeOK, Calls, Kept, vars, queue, Next, Main, Handler, RunEntry, Call, Wake,
         ReadRun, RunFast, RunExisting, RunFork, Run, SweepEnd, Probe, Store, Finish,
         ClearSelf, Deliver, Reap, ReapFails, Report, LaunchDetached, Exit, Stop
<1>3. IInv /\ [Next]_vars => [Kept]_vars
  BY <1>1, <1>2
<1> QED
  BY <1>3, Invariance, PTL DEF Spec, FreedOnlyWhenOver

----------------------------------------------------------------------------
(* The refinement. Which entries have a living process, step by step.       *)
(* A pid that a fork may return belongs to no entry. *)
LEMMA UnusedPidIsNobodys ==
    ASSUME IInv, NEW p \in Pids, Unused(p), NEW i \in Calls, state[i] = "RUNNING"
    PROVE  PidOf(i) # p
<1> SUFFICES ASSUME PidOf(i) = p PROVE FALSE
  OBVIOUS
<1>1. proc[p] = "free" /\ ~InPipe(ClearMsg(p)) /\ hpid # p
  BY DEF Unused
<1>2. InPipe(ClearMsg(p)) \/ hpid = p
  BY <1>1 DEF IInv, DeadChildWillBeCleared
<1> QED
  BY <1>1, <1>2

(* A step that starts and ends no process leaves the abstract state alone. *)
LEMMA BusyStutters ==
    ASSUME IInv, IInv',
           \/ Call \/ Wake \/ ReadRun \/ ReadClear \/ RunFast \/ RunExisting \/ SweepEnd
           \/ Probe \/ Store \/ Finish \/ ClearSelf \/ Deliver \/ ReapFails \/ Report
           \/ \E p \in Pids : LaunchDetached(p) \/ Exit(p) \/ Stop(p)
    PROVE  busyBar' = busyBar
<1> USE RunQueueAssumption, SpecialPids DEF IInv, TypeOK, Calls, MainAt, queue, thread, sig,
        busyBar, PidOf, EntryShape, CursorShape
<1>1. CASE Call
  BY <1>1 DEF Call
<1>2. CASE Wake \/ ReadRun \/ SweepEnd \/ ClearSelf \/ Deliver \/ ReapFails \/ Report
  BY <1>2 DEF Wake, ReadRun, SweepEnd, ClearSelf, Deliver, ReapFails, Report
<1>3. CASE ReadClear
  <2>1. InPipe(Head(core_pipe)) /\ Head(core_pipe) \in Messages
    BY <1>3, ReadHas DEF ReadClear, InPipe
  <2>2. /\ Head(core_pipe).pid \in Pids \cup {FastPid}
        /\ InPipe(ClearMsg(Head(core_pipe).pid))
    BY <1>3, <2>1, MessagesDiffer DEF ReadClear
  <2> DEFINE q == Head(core_pipe).pid
  <2>. q \in Pids => proc[q] = "free"
    BY <2>2 DEF SignalShape
  <2>3. \A i \in Calls : forked_pid[i] = q => i \notin busyBar
    BY <1>3, <2>2 DEF ReadClear
  <2>4. \A i \in Calls : i \in busyBar' <=> i \in busyBar
    BY <1>3, <2>3 DEF ReadClear
  <2> QED
    BY <2>4
<1>4. CASE RunFast \/ RunExisting
  <2>1. PICK i \in Calls : IsNext(i) /\ state' = [state EXCEPT ![i] = "RUNNING"] /\ cur' = i
    BY <1>4 DEF RunFast, RunExisting, Run
  <2>2. state[i] = "INIT"
    BY <2>1 DEF IsNext, Ahead
  <2>3. i \notin busyBar /\ i \notin busyBar'
    BY <1>4, <2>1, <2>2 DEF RunFast, RunExisting, Run
  <2>4. \A j \in Calls \ {i} : j \in busyBar' <=> j \in busyBar
    BY <1>4, <2>1 DEF RunFast, RunExisting, Run
  <2> QED
    BY <2>3, <2>4
<1>5. CASE Probe
  BY <1>5 DEF Probe, HasStatus
<1>6. CASE Store
  BY <1>6 DEF Store
<1>7. CASE Finish
  BY <1>7 DEF Finish
<1>8. ASSUME NEW p \in Pids, LaunchDetached(p) PROVE busyBar' = busyBar
  <2>1. \A i \in Calls : ~(state[i] = "RUNNING" /\ PidOf(i) = p)
    BY <1>8, UnusedPidIsNobodys DEF LaunchDetached
  <2> QED
    BY <1>8, <2>1 DEF LaunchDetached
<1>9. ASSUME NEW p \in Pids, Exit(p) PROVE busyBar' = busyBar
  BY <1>9 DEF Exit
<1>10. ASSUME NEW p \in Pids, Stop(p) PROVE busyBar' = busyBar
  BY <1>10 DEF Stop
<1> QED
  BY <1>1, <1>2, <1>3, <1>4, <1>5, <1>6, <1>7, <1>8, <1>9, <1>10

(* Every step of the engine is a step of the service or leaves it alone. *)
LEMMA StepRefines == IInv /\ IInv' /\ [Next]_vars => [Service!Next]_(Service!vars)
<1> SUFFICES ASSUME IInv, IInv', [Next]_vars
             PROVE  [Service!Next]_(Service!vars)
  OBVIOUS
<1> USE RunQueueAssumption, SpecialPids DEF IInv, TypeOK, Calls, MainAt, queue, thread, sig
<1>1. CASE Call
  <2>1. busyBar' = busyBar
    BY <1>1, BusyStutters
  <2>2. calls + 1 \in Calls /\ state[calls + 1] = "free"
    BY <1>1 DEF Call, EntryShape
  <2>3. statusBar[calls + 1] = "idle"
    BY <2>2 DEF statusBar
  <2>4. \A i \in Calls : statusBar'[i] = IF i = calls + 1 THEN "queued" ELSE statusBar[i]
    BY <1>1, <2>2 DEF Call, statusBar
  <2>5. statusBar' = [statusBar EXCEPT ![calls + 1] = "queued"]
    BY <2>4 DEF statusBar
  <2> QED
    BY <2>1, <2>2, <2>3, <2>5 DEF Service!Next, Service!Accept
<1>2. CASE \/ Wake \/ ReadRun \/ SweepEnd \/ Probe \/ Store \/ Finish \/ ClearSelf
           \/ Deliver \/ ReapFails \/ Report
           \/ \E p \in Pids : LaunchDetached(p) \/ Exit(p) \/ Stop(p)
  <2>1. busyBar' = busyBar
    BY <1>2, BusyStutters
  <2>2. statusBar' = statusBar
    BY <1>2 DEF statusBar, CursorShape, Wake, ReadRun, SweepEnd, Probe, Store, Finish, ClearSelf,
           Deliver, ReapFails, Report, LaunchDetached, Exit, Stop
  <2> QED
    BY <2>1, <2>2 DEF Service!vars
<1>3. CASE ReadClear
  <2> DEFINE S == {i \in Calls : state[i] # "free" /\ state'[i] = "free"}
  <2>1. busyBar' = busyBar
    BY <1>3, BusyStutters
  <2>2. S \subseteq {i \in Calls \ busyBar : statusBar[i] = "started"}
    <3>1. InPipe(Head(core_pipe)) /\ Head(core_pipe) \in Messages
      BY <1>3, ReadHas DEF ReadClear, InPipe
    <3>2. /\ Head(core_pipe).pid \in Pids \cup {FastPid}
          /\ InPipe(ClearMsg(Head(core_pipe).pid))
      BY <1>3, <3>1, MessagesDiffer DEF ReadClear
    <3>3. Head(core_pipe).pid \in Pids => proc[Head(core_pipe).pid] = "free"
      BY <3>2 DEF SignalShape
    <3>4. \A i \in S : forked_pid[i] = Head(core_pipe).pid /\ PidOf(i) = forked_pid[i]
      BY <1>3 DEF ReadClear, PidOf
    <3>5. S \cap busyBar = {}
      BY <3>2, <3>3, <3>4 DEF busyBar
    <3>6. \A i \in S : statusBar[i] = "started"
      BY <3>2, <3>4 DEF statusBar, EntryShape
    <3> QED
      BY <3>5, <3>6
  <2>3. statusBar' = [i \in Calls |-> IF i \in S THEN "retired" ELSE statusBar[i]]
    BY <1>3 DEF ReadClear, statusBar, EntryShape
  <2>4. CASE S = {}
    <3>1. statusBar' = statusBar
      BY <2>3, <2>4 DEF statusBar
    <3> QED
      BY <2>1, <3>1 DEF Service!vars
  <2>5. CASE S # {}
    BY <2>1, <2>2, <2>3, <2>5 DEF Service!Next, Service!Retire
  <2> QED
    BY <2>4, <2>5
<1>4. ASSUME NEW r \in Pids \cup {NoPid, InitPid}, NEW label,
             Run(r, label), r \in Pids => label = "probe",
             \/ r \notin Pids /\ UNCHANGED proc /\ busyBar' = busyBar
             \/ r \in Pids /\ RunFork(r)
      PROVE  [Service!Next]_(Service!vars)
  <2>1. PICK i \in Calls : IsNext(i) /\ state' = [state EXCEPT ![i] = "RUNNING"] /\ cur' = i
    BY <1>4 DEF Run
  <2>2. statusBar[i] = "queued"
    BY <2>1 DEF statusBar, IsNext, Ahead, EntryShape
  <2>3. statusBar' = [statusBar EXCEPT ![i] = "started"]
    BY <1>4, <2>1 DEF statusBar, Run, IsNext, Ahead, EntryShape
  <2>4. busyBar' \in {busyBar, busyBar \cup {i}}
    <3>1. CASE r \notin Pids
      BY <1>4, <3>1
    <3>2. CASE r \in Pids
      <4>1. \A j \in Calls : ~(state[j] = "RUNNING" /\ PidOf(j) = r)
        BY <1>4, <3>2, UnusedPidIsNobodys DEF RunFork
      <4>2. i \in busyBar'
        BY <1>4, <2>1, <3>2 DEF RunFork, Run, busyBar, PidOf
      <4>3. \A j \in Calls \ {i} : j \in busyBar' <=> j \in busyBar
        BY <1>4, <2>1, <3>2, <4>1 DEF RunFork, Run, busyBar, PidOf
      <4>4. busyBar' = busyBar \cup {i}
        BY <4>2, <4>3 DEF busyBar
      <4> QED
        BY <4>4
    <3> QED
      BY <3>1, <3>2
  <2> QED
    BY <2>2, <2>3, <2>4 DEF Service!Next, Service!Start
<1>5. CASE RunFast
  BY <1>4, <1>5, BusyStutters DEF RunFast
<1>6. CASE RunExisting
  BY <1>4, <1>6, BusyStutters DEF RunExisting
<1>7. ASSUME NEW p \in Pids, RunFork(p) PROVE [Service!Next]_(Service!vars)
  BY <1>4, <1>7 DEF RunFork
<1>8. CASE Reap
  <2>1. statusBar' = statusBar
    BY <1>8 DEF Reap, statusBar
  <2>2. CASE \E i \in Calls : state[i] = "RUNNING" /\ PidOf(i) = hpid
    <3>1. PICK i \in Calls : state[i] = "RUNNING" /\ PidOf(i) = hpid
      BY <2>2
    <3>2. i \in busyBar /\ busyBar' = busyBar \ {i}
      BY <1>8, <3>1 DEF Reap, busyBar, PidOf, OneEntryPerChild
    <3> QED
      BY <2>1, <3>2 DEF Service!Next, Service!ProcessGone
  <2>3. CASE ~\E i \in Calls : state[i] = "RUNNING" /\ PidOf(i) = hpid
    <3>1. busyBar' = busyBar
      BY <1>8, <2>3 DEF Reap, busyBar, PidOf
    <3> QED
      BY <2>1, <3>1 DEF Service!vars
  <2> QED
    BY <2>2, <2>3
<1>9. CASE UNCHANGED vars
  BY <1>9 DEF vars, statusBar, busyBar, PidOf, Service!vars
<1> QED
  BY <1>1, <1>2, <1>3, <1>5, <1>6, <1>7, <1>8, <1>9 DEF Next, Main, Handler, RunEntry

(* The queue, the pipe and the signal handler together do what             *)
(* ActionService promises: each accepted call is started exactly once and  *)
(* its entry outlives the process it waits for.                            *)
THEOREM QueueImplementsService == Spec => ImplementsService
<1>1. Init => Service!Init
  BY RunQueueAssumption DEF Init, Service!Init, statusBar, busyBar, Calls
<1>2. IInv /\ IInv' /\ [Next]_vars => [Service!Next]_(Service!vars)
  BY StepRefines
<1> QED
  BY <1>1, <1>2, Invariance, PTL DEF Spec, ImplementsService, Service!Spec
----------------------------------------------------------------------------
(* How many messages of a kind the pipe holds.  At(s, m) are their places.  *)
At(s, m) == {k \in 1..Len(s) : s[k] = m}

LEMMA AtIsFinite ==
    ASSUME NEW S, NEW s \in Seq(S), NEW m
    PROVE  IsFiniteSet(At(s, m)) /\ Cardinality(At(s, m)) \in Nat
<1>1. IsFiniteSet(1..Len(s)) /\ At(s, m) \in SUBSET (1..Len(s))
  BY FS_Interval DEF At
<1> QED
  BY <1>1, FS_Subset, FS_CardinalityType

(* A write adds one to the messages of its kind. *)
LEMMA WriteCounts ==
    ASSUME NEW S, NEW s \in Seq(S), NEW x \in S, NEW m
    PROVE  Cardinality(At(Append(s, x), m)) =
               Cardinality(At(s, m)) + (IF x = m THEN 1 ELSE 0)
<1>1. /\ Len(Append(s, x)) = Len(s) + 1 /\ Len(s) \in Nat
      /\ \A k \in 1..Len(s) : Append(s, x)[k] = s[k]
      /\ Append(s, x)[Len(s) + 1] = x
  OBVIOUS
<1>2. At(Append(s, x), m) = IF x = m THEN At(s, m) \union {Len(s) + 1} ELSE At(s, m)
  BY <1>1 DEF At
<1>3. Len(s) + 1 \notin At(s, m)
  BY <1>1 DEF At
<1>4. IsFiniteSet(At(s, m)) /\ Cardinality(At(s, m)) \in Nat
  BY AtIsFinite
<1>5. CASE x = m
  <2>1. Cardinality(At(s, m) \union {Len(s) + 1}) = Cardinality(At(s, m)) + 1
    BY <1>3, <1>4, FS_AddElement
  <2> QED
    BY <1>2, <1>5, <2>1
<1>6. CASE x # m
  BY <1>2, <1>4, <1>6
<1> QED
  BY <1>5, <1>6

(* A read takes one from the messages of its kind. *)
LEMMA ReadCounts ==
    ASSUME NEW S, NEW s \in Seq(S), s # <<>>, NEW m
    PROVE  Cardinality(At(s, m)) =
               Cardinality(At(Tail(s), m)) + (IF Head(s) = m THEN 1 ELSE 0)
<1> DEFINE f == [k \in At(Tail(s), m) |-> k + 1]
<1>1. /\ Tail(s) \in Seq(S) /\ Len(Tail(s)) = Len(s) - 1 /\ Len(s) \in Nat \ {0}
      /\ \A k \in 1..Len(Tail(s)) : Tail(s)[k] = s[k + 1]
      /\ Head(s) = s[1]
  OBVIOUS
<1>2. \A k \in At(Tail(s), m) : k \in Int /\ k + 1 \in At(s, m) \ {1}
  BY <1>1 DEF At
<1>3. \A k \in At(s, m) \ {1} : k - 1 \in At(Tail(s), m) /\ k = (k - 1) + 1
  BY <1>1 DEF At
<1>4. f \in Bijection(At(Tail(s), m), At(s, m) \ {1})
  <2>1. f \in [At(Tail(s), m) -> At(s, m) \ {1}]
    BY <1>2
  <2>2. \A a, b \in At(Tail(s), m) : f[a] = f[b] => a = b
    BY <1>2
  <2>3. \A t \in At(s, m) \ {1} : \E k \in At(Tail(s), m) : f[k] = t
    BY <1>3
  <2> HIDE DEF f
  <2> QED
    BY <2>1, <2>2, <2>3, Fun_IsBij
<1> HIDE DEF f
<1>5. IsFiniteSet(At(s, m)) /\ IsFiniteSet(At(Tail(s), m))
  BY <1>1, AtIsFinite
<1>6. ExistsBijection(At(Tail(s), m), At(s, m) \ {1})
  BY <1>4 DEF ExistsBijection
<1>7. Cardinality(At(s, m) \ {1}) = Cardinality(At(Tail(s), m))
  BY <1>5, <1>6, FS_Bijection
<1>8. /\ Cardinality(At(s, m)) \in Nat
      /\ Cardinality(At(s, m) \ {1}) =
            IF 1 \in At(s, m) THEN Cardinality(At(s, m)) - 1 ELSE Cardinality(At(s, m))
  BY <1>5, FS_RemoveElement, FS_CardinalityType
<1>9. 1 \in At(s, m) <=> Head(s) = m
  BY <1>1 DEF At
<1> QED
  BY <1>7, <1>8, <1>9

(* Count in terms of places. *)
LEMMA CountIs ==
    /\ \A m : Count(m) = Cardinality(At(core_pipe, m))
    /\ \A m : Count(m)' = Cardinality(At(core_pipe', m))
BY DEF Count, At

(* The steps that write or read the pipe, and what all the others leave. *)
Quiet ==
    /\ core_pipe' = core_pipe
    /\ calls' = calls
    /\ pc' = "wake" <=> pc = "wake"
    /\ pc' = "clear" <=> pc = "clear"
    /\ hpc' = "report" => hpc = "report" /\ hpid' = hpid

LEMMA QuietSteps ==
    IInv /\ [Next]_vars =>
        Quiet \/ Call \/ Wake \/ ReadRun \/ ReadClear \/ Finish \/ ClearSelf \/ Reap \/ Report
BY DEF IInv, TypeOK, Quiet, MainAt, vars, queue, thread, sig, Next, Main, Handler, RunEntry,
       RunFast, RunExisting, RunFork, Run, SweepEnd, Probe, Store, Deliver, ReapFails,
       LaunchDetached, Exit, Stop

(* A call that finds the pipe empty opens a new burst. *)
FreshCall == Call /\ core_pipe = <<>>

(* The calls of the burst, after a step that does not open another one. *)
LEMMA RecentStep ==
    ASSUME IInv, burst \in 0..calls, PipeNext \/ UNCHANGED pipeVars, ~FreshCall
    PROVE  /\ Call => Recent' = Recent \cup {calls + 1} /\ burst' = burst + 1
           /\ ~Call => Recent' = Recent /\ burst' = burst /\ calls' = calls
<1> USE RunQueueAssumption DEF IInv, TypeOK, Calls, Recent, FreshCall
<1>1. CASE Call
  <2>1. /\ calls' = calls + 1 /\ burst' = burst + 1
        /\ calls \in Nat /\ burst \in Nat /\ burst <= calls /\ calls + 1 \in 1..MaxCalls
    BY <1>1 DEF Call, PipeNext, pipeVars, vars
  <2>2. \A i \in 1..MaxCalls :
           calls' - burst' < i /\ i <= calls' <=>
               (calls - burst < i /\ i <= calls) \/ i = calls + 1
    BY <2>1
  <2> QED
    BY <1>1, <2>1, <2>2
<1>2. CASE ~Call
  <2>1. calls' = calls
    BY <1>2 DEF PipeNext, Next, Main, Handler, RunEntry, RunFast, RunExisting, RunFork, Run,
        Wake, ReadRun, ReadClear, SweepEnd, Probe, Store, Finish, ClearSelf, Deliver, Reap,
        ReapFails, Report, LaunchDetached, Exit, Stop, queue, pipeVars, vars
  <2>2. burst' = burst
    BY <2>1 DEF PipeNext, pipeVars
  <2> QED
    BY <1>2, <2>1, <2>2
<1> QED
  BY <1>1, <1>2

(* An entry that is over stays over, and only the read of a RUN message makes *)
(* the difference between a burst nothing was run of and one that is run.   *)
LEMMA OverStep ==
    ASSUME IInv, burst \in 0..calls, PipeNext \/ UNCHANGED pipeVars, ~FreshCall
    PROVE  Over \subseteq Over' /\ (Swept' => Swept \/ ReadRun)
<1>r. /\ Call => Recent' = Recent \cup {calls + 1}
      /\ ~Call => Recent' = Recent
  BY RecentStep
<1>c. Recent \subseteq 1..calls /\ Recent \subseteq Calls /\ calls + 1 \notin Recent
      /\ (Call => calls + 1 \in Calls)
  BY RunQueueAssumption DEF IInv, TypeOK, Recent, Calls, Call
<1>n. Next \/ UNCHANGED vars
  BY DEF PipeNext, pipeVars
<1> USE RunQueueAssumption, SpecialPids, <1>r, <1>c
    DEF IInv, TypeOK, Over, Swept, MainAt, queue, thread, sig
<1>1. CASE Call
  <2>1. /\ Recent' = Recent \cup {calls + 1} /\ pc = "loop" /\ pc' = "wake"
        /\ calls + 1 \in Calls /\ calls + 1 \notin Recent /\ Recent \subseteq Calls
        /\ state' = [state EXCEPT ![calls + 1] = "INIT"]
        /\ state \in [Calls -> {"free", "INIT", "RUNNING", "DONE"}]
    <3>1. Recent' = Recent \cup {calls + 1} /\ calls + 1 \in Calls
      BY <1>1, <1>r, <1>c
    <3> QED
      BY <1>1, <3>1 DEF Call
  <2> HIDE DEF IInv, TypeOK
  <2>2. \A i \in Recent : state'[i] = state[i]
    BY <2>1
  <2>3. state'[calls + 1] = "INIT"
    BY <2>1
  <2> QED
    BY <2>1, <2>2, <2>3
<1>2. CASE ReadClear
  <2>0. ~Call
    BY <1>2 DEF Call, ReadClear
  <2>1. Head(core_pipe).pid \in Pids \cup {FastPid}
    BY <1>2, ReadHas, MessagesDiffer DEF ReadClear
  <2>2. \A i \in Recent : state[i] = "INIT" => state'[i] = "INIT"
    BY <1>2, <2>1 DEF ReadClear, EntryShape
  <2>3. calls' = calls /\ pc' = pc /\ \A i \in Recent : state'[i] \in {"free", state[i]}
    BY <1>2 DEF ReadClear
  <2>4. Over \subseteq Over'
    BY <2>0, <2>3
  <2>5. Swept' => Swept
    BY <2>0, <2>2, <2>3
  <2> QED
    BY <2>4, <2>5
<1>3. CASE RunEntry
  <2>1. /\ pc = "sweep" /\ ~Call
        /\ \E i \in Calls : state[i] = "INIT" /\ state' = [state EXCEPT ![i] = "RUNNING"]
    BY <1>3 DEF RunEntry, RunFast, RunExisting, RunFork, Run, IsNext, Ahead, Call
  <2> QED
    BY <2>1
<1>4. CASE Finish
  BY <1>4 DEF Finish, CursorShape, Call
<1>5. CASE ReadRun
  BY <1>5 DEF ReadRun, Call
<1>6. CASE Wake \/ SweepEnd \/ Probe \/ Store \/ ClearSelf
  BY <1>6 DEF Wake, SweepEnd, Probe, Store, ClearSelf, Call
<1>7. CASE Handler
  BY <1>7 DEF Handler, Deliver, Reap, ReapFails, Report, Call
<1>8. CASE \E p \in Pids : LaunchDetached(p) \/ Exit(p) \/ Stop(p)
  BY <1>8 DEF LaunchDetached, Exit, Stop, Call
<1>9. CASE UNCHANGED vars
  BY <1>9 DEF vars, Call
<1> QED
  BY <1>n, <1>1, <1>2, <1>3, <1>4, <1>5, <1>6, <1>7, <1>8, <1>9 DEF Next, Main

(* The calls before the burst stay started. *)
LEMMA BurstStep ==
    ASSUME IInv, burst \in 0..calls, BurstShape, PipeNext \/ UNCHANGED pipeVars
    PROVE  burst' \in 0..calls' /\ BurstShape'
<1>c. /\ Recent \subseteq Calls /\ calls \in Nat /\ burst \in Nat /\ burst <= calls
      /\ (Call => calls + 1 \in Calls)
  BY RunQueueAssumption DEF IInv, TypeOK, Recent, Calls, Call
<1>n. Next \/ UNCHANGED vars
  BY DEF PipeNext, pipeVars
<1>1. CASE FreshCall
  <2>1. /\ calls' = calls + 1 /\ burst' = 1 /\ pc = "loop" /\ pc' = "wake"
        /\ state' = [state EXCEPT ![calls + 1] = "INIT"] /\ core_pipe = <<>>
    BY <1>1, <1>c DEF FreshCall, Call, PipeNext, pipeVars, vars, MainAt
  <2>2. Calls \ Recent' = Calls \ {calls + 1}
    BY <2>1, <1>c, RunQueueAssumption DEF Recent, Calls
  <2>3. \A i \in Calls : state[i] \notin {"INIT", "DONE"}
    BY <2>1 DEF IInv, NoLostWakeup, DoneWillBeCleared, InPipe, Has
  <2>4. \A i \in Calls \ {calls + 1} : state'[i] \in {"RUNNING", "free"}
    BY <2>1, <2>3 DEF IInv, TypeOK
  <2> QED
    BY <1>c, <2>1, <2>2, <2>4 DEF BurstShape
<1>2. CASE ~FreshCall
  <2>r. /\ Call => Recent' = Recent \cup {calls + 1} /\ burst' = burst + 1
        /\ ~Call => Recent' = Recent /\ burst' = burst /\ calls' = calls
    BY <1>2, RecentStep
  <2>b. burst' \in 0..calls'
    BY <1>c, <2>r DEF Call
  <2> USE RunQueueAssumption, SpecialPids, <1>c, <2>r
      DEF IInv, TypeOK, BurstShape, MainAt, queue, thread, sig
  <2>1. CASE Call
    BY <2>1 DEF Call
  <2>2. CASE ReadClear
    BY <2>2 DEF ReadClear, Call
  <2>3. CASE RunEntry
    <3>1. ~Call /\ \E i \in Calls : /\ state[i] = "INIT" /\ cur' = i
                                   /\ state' = [state EXCEPT ![i] = "RUNNING"]
      BY <2>3 DEF RunEntry, RunFast, RunExisting, RunFork, Run, IsNext, Ahead, Call
    <3> QED
      BY <3>1
  <2>4. CASE Finish
    BY <2>4 DEF Finish, CursorShape, Call
  <2>5. CASE Wake \/ ReadRun \/ SweepEnd \/ Probe \/ Store \/ ClearSelf
    BY <2>5 DEF Wake, ReadRun, SweepEnd, Probe, Store, ClearSelf, Call
  <2>6. CASE Handler
    <3>1. ~Call /\ state' = state /\ pc' = pc /\ cur' = cur
      BY <2>6 DEF Handler, Deliver, Reap, ReapFails, Report, Call
    <3> QED
      BY <3>1
  <2>7. CASE \E p \in Pids : LaunchDetached(p) \/ Exit(p) \/ Stop(p)
    <3>1. ~Call /\ state' = state /\ pc' = pc /\ cur' = cur
      BY <2>7 DEF LaunchDetached, Exit, Stop, Call
    <3> QED
      BY <3>1
  <2>8. CASE UNCHANGED vars
    <3>1. ~Call /\ state' = state /\ pc' = pc /\ cur' = cur
      BY <2>8 DEF vars, Call
    <3> QED
      BY <3>1
  <2> QED
    BY <2>b, <1>n, <2>1, <2>2, <2>3, <2>4, <2>5, <2>6, <2>7, <2>8 DEF Next, Main
<1> QED
  BY <1>1, <1>2

(* What is over of a burst is no more than the burst. *)
LEMMA OverIsFinite ==
    ASSUME calls \in Nat, burst \in 0..calls
    PROVE  IsFiniteSet(Over) /\ Cardinality(Over) \in Nat /\ Cardinality(Over) <= burst
<1> DEFINE a == calls - burst + 1
<1>1. a \in Int /\ calls \in Int /\ burst \in Nat /\ (a > calls <=> burst = 0)
      /\ calls - a + 1 = burst
  OBVIOUS
<1>2. Over \in SUBSET (a..calls)
  BY RunQueueAssumption DEF Over, Recent, Calls
<1> HIDE DEF a
<1>3. IsFiniteSet(a..calls) /\ Cardinality(a..calls) = burst
  <2>1. /\ IsFiniteSet(a..calls)
        /\ Cardinality(a..calls) = IF a > calls THEN 0 ELSE calls - a + 1
    BY <1>1, FS_Interval
  <2> QED
    BY <1>1, <2>1
<1> QED
  BY <1>2, <1>3, FS_Subset, FS_CardinalityType

(* Every step keeps what the pipe can hold. *)
LEMMA PipeStep == PipeInv /\ (PipeNext \/ UNCHANGED pipeVars) => PipeShape'
<1> SUFFICES ASSUME PipeInv, PipeNext \/ UNCHANGED pipeVars PROVE PipeShape'
  OBVIOUS
<1>0. /\ IInv /\ burst \in 0..calls /\ PipeShape /\ [Next]_vars
      /\ burst' \in 0..calls'
  BY BurstStep DEF PipeInv, PipeNext, pipeVars
<1>1. /\ TypeOK /\ TypeOK'
      /\ core_pipe \in Seq(Messages) /\ core_pipe' \in Seq(Messages)
      /\ calls \in Nat /\ calls' \in Nat /\ burst \in Nat /\ burst' \in Nat
  BY <1>0, TypeStep, RunQueueAssumption DEF IInv, TypeOK
<1>2. \A m : Count(m) \in Nat /\ Count(m)' \in Nat
  BY <1>1, AtIsFinite, CountIs
<1>o. /\ IsFiniteSet(Over) /\ Cardinality(Over) \in Nat
      /\ IsFiniteSet(Over') /\ Cardinality(Over') \in Nat
  <2>1. IsFiniteSet(Over) /\ Cardinality(Over) \in Nat
    BY <1>0, <1>1, OverIsFinite
  <2>2. IsFiniteSet(Over') /\ Cardinality(Over') \in Nat
    <3>1. Over' \in SUBSET (1..calls')
      BY <1>1 DEF Over, Recent, Calls, TypeOK
    <3>2. IsFiniteSet(1..calls')
      BY <1>1, FS_Interval
    <3> QED
      BY <3>1, <3>2, FS_Subset, FS_CardinalityType
  <2> QED
    BY <2>1, <2>2
<1>f. CASE FreshCall
  <2>1. /\ core_pipe' = <<>> /\ calls' = calls + 1 /\ burst' = 1
        /\ pc' = "wake" /\ hpc' = "none"
        /\ state' = [state EXCEPT ![calls + 1] = "INIT"]
    BY <1>0, <1>1, <1>f DEF FreshCall, Call, PipeNext, pipeVars, vars, MainAt, sig
  <2>2. \A m : Count(m)' = 0
    <3>1. \A m : At(core_pipe', m) = {}
      BY <2>1 DEF At
    <3> QED
      BY <3>1, CountIs, FS_EmptySet
  <2>3. ~Swept'
    <3>1. \A i \in Recent' : i = calls + 1 /\ i \in Calls
      BY <1>1, <2>1 DEF Recent, Calls
    <3> QED
      BY <1>1, <2>1, <3>1 DEF Swept, TypeOK
  <2>4. core_pipe' = <<>> /\ ~InPipe(ClearMsg(hpid))'
    BY <2>1 DEF InPipe, Has
  <2> QED
    BY <1>o, <2>1, <2>2, <2>3, <2>4 DEF PipeShape
<1>3. ASSUME ~FreshCall
      PROVE  /\ Swept' => Swept \/ ReadRun
             /\ Cardinality(Over) <= Cardinality(Over')
             /\ Call => burst' = burst + 1
             /\ ~Call => burst' = burst
  <2>1. Over \in SUBSET Over' /\ (Swept' => Swept \/ ReadRun)
    BY <1>0, <1>3, OverStep
  <2>2. (Call => burst' = burst + 1) /\ (~Call => burst' = burst)
    BY <1>0, <1>3, RecentStep
  <2> QED
    BY <1>o, <2>1, <2>2, FS_Subset
<1>4. /\ \A m : InPipe(m) <=> \E k \in 1..Len(core_pipe) : core_pipe[k] = m
      /\ Len(core_pipe) \in Nat
      /\ \A k \in 1..Len(core_pipe) : core_pipe[k] \in Messages
  BY <1>1 DEF InPipe, Has
<1>5. ASSUME NEW x \in Messages, core_pipe' = Append(core_pipe, x)
      PROVE  /\ \A m : Count(m)' = Count(m) + (IF x = m THEN 1 ELSE 0)
             /\ Len(core_pipe') = Len(core_pipe) + 1
             /\ \A k \in 1..Len(core_pipe) : core_pipe'[k] = core_pipe[k]
             /\ core_pipe'[Len(core_pipe) + 1] = x
  BY <1>1, <1>5, WriteCounts, CountIs
<1>6. ASSUME core_pipe # <<>>, core_pipe' = Tail(core_pipe)
      PROVE  /\ \A m : Count(m) = Count(m)' + (IF Head(core_pipe) = m THEN 1 ELSE 0)
             /\ Len(core_pipe') = Len(core_pipe) - 1
             /\ \A k \in 1..Len(core_pipe') : core_pipe'[k] = core_pipe[k + 1]
  BY <1>1, <1>6, ReadCounts, CountIs
<1>7. CASE Quiet /\ ~ReadRun
  <2>0. /\ burst' = burst /\ Cardinality(Over) <= Cardinality(Over')
        /\ Swept' => Swept \/ ReadRun
    <3>1. ~Call /\ ~FreshCall
      BY <1>1, <1>7 DEF Quiet, Call, FreshCall
    <3> QED
      BY <1>3, <3>1
  <2>1. \A m : Count(m)' = Count(m)
    BY <1>7, CountIs DEF Quiet
  <2>2. \A m : InPipe(m)' <=> InPipe(m)
    BY <1>7 DEF Quiet, InPipe
  <2>3. /\ core_pipe' = core_pipe /\ burst' = burst
        /\ pc' = "wake" <=> pc = "wake"
        /\ pc' = "clear" <=> pc = "clear"
        /\ hpc' = "report" => hpc = "report" /\ ClearMsg(hpid)' = ClearMsg(hpid)
        /\ Swept' => Swept
    BY <2>0, <1>7 DEF Quiet, ClearMsg
  <2>4. /\ Count(RunMsg)' + (IF pc' = "wake" THEN 1 ELSE 0) + (IF Swept' THEN 1 ELSE 0) <= burst'
        /\ Count(ClearMsg(FastPid))' + (IF pc' = "clear" THEN 1 ELSE 0) <= Cardinality(Over')
    BY <1>0, <1>1, <1>2, <1>o, <2>0, <2>1, <2>3 DEF PipeShape
  <2>5. hpc' = "report" => ~InPipe(ClearMsg(hpid))'
    BY <1>0, <2>2, <2>3 DEF PipeShape
  <2>6. \A j, k \in 1..Len(core_pipe') :
           core_pipe'[j] = core_pipe'[k] /\ core_pipe'[j] \notin {RunMsg, ClearMsg(FastPid)}
               => j = k
    BY <1>0, <2>3 DEF PipeShape
  <2> QED
    BY <2>4, <2>5, <2>6 DEF PipeShape
<1>8. CASE Call /\ ~FreshCall
  <2>0. /\ burst' = burst + 1 /\ Cardinality(Over) <= Cardinality(Over')
        /\ Swept' => Swept \/ ReadRun
    BY <1>3, <1>8
  <2>1. /\ \A m : Count(m)' = Count(m)
        /\ pc = "loop" /\ pc' = "wake" /\ burst' = burst + 1 /\ hpc' = "none"
        /\ core_pipe' = core_pipe
    BY <1>8, <2>0, CountIs DEF Call, MainAt, sig
  <2>2. Swept' => Swept
    BY <1>8, <2>0 DEF Call, ReadRun
  <2> QED
    BY <1>0, <1>1, <1>2, <1>o, <2>0, <2>1, <2>2 DEF PipeShape
<1>9. CASE Wake
  <2>0. /\ burst' = burst /\ Cardinality(Over) <= Cardinality(Over')
        /\ Swept' => Swept \/ ReadRun
    <3>1. ~Call /\ ~FreshCall
      BY <1>1, <1>9 DEF Call, FreshCall, Wake, MainAt, queue, thread
    <3> QED
      BY <1>3, <3>1
  <2>1. /\ \A m : Count(m)' = Count(m) + (IF RunMsg = m THEN 1 ELSE 0)
        /\ pc = "wake" /\ pc' = "loop" /\ burst' = burst /\ hpc' = "none"
        /\ core_pipe' = Append(core_pipe, RunMsg) /\ RunMsg \in Messages
    BY <2>0, <1>5, <1>9 DEF Wake, Write, MainAt, sig, queue, Messages
  <2>2. Swept' => Swept
    BY <2>0, <2>1 DEF ReadRun
  <2>3. \A j, k \in 1..Len(core_pipe') :
           core_pipe'[j] = core_pipe'[k] /\ core_pipe'[j] \notin {RunMsg, ClearMsg(FastPid)}
               => j = k
    BY <1>0, <1>4, <1>5, <2>1 DEF PipeShape
  <2> QED
    BY <1>0, <1>1, <1>2, <1>o, <2>0, <2>1, <2>2, <2>3, MessagesDiffer DEF PipeShape
<1>10. CASE ReadRun
  <2>0. /\ burst' = burst /\ Cardinality(Over) <= Cardinality(Over')
        /\ Swept' => Swept \/ ReadRun
    <3>1. ~Call /\ ~FreshCall
      BY <1>1, <1>10 DEF Call, FreshCall, ReadRun, MainAt, queue, thread
    <3> QED
      BY <1>3, <3>1
  <2>1. /\ \A m : Count(m) = Count(m)' + (IF RunMsg = m THEN 1 ELSE 0)
        /\ pc = "loop" /\ pc' = "sweep" /\ burst' = burst /\ hpc' = "none"
        /\ core_pipe # <<>> /\ core_pipe' = Tail(core_pipe)
    <3>1. Head(core_pipe) = RunMsg
      BY <1>1, <1>10, MessagesDiffer, ReadHas DEF ReadRun
    <3> QED
      BY <2>0, <1>6, <1>10, <3>1 DEF ReadRun, MainAt, sig, queue
  <2>2. \A j, k \in 1..Len(core_pipe') :
           core_pipe'[j] = core_pipe'[k] /\ core_pipe'[j] \notin {RunMsg, ClearMsg(FastPid)}
               => j = k
    BY <1>0, <2>0, <1>4, <1>6, <2>1 DEF PipeShape
  <2> QED
    BY <1>0, <1>1, <1>2, <1>o, <2>0, <2>1, <2>2, MessagesDiffer DEF PipeShape
<1>11. CASE ReadClear
  <2>0. /\ burst' = burst /\ Cardinality(Over) <= Cardinality(Over')
        /\ Swept' => Swept \/ ReadRun
    <3>1. ~Call /\ ~FreshCall
      BY <1>1, <1>11 DEF Call, FreshCall, ReadClear, MainAt, queue, thread
    <3> QED
      BY <1>3, <3>1
  <2>1. /\ \A m : Count(m)' <= Count(m)
        /\ pc = "loop" /\ pc' = "loop" /\ burst' = burst /\ hpc' = "none"
        /\ core_pipe # <<>> /\ core_pipe' = Tail(core_pipe)
    BY <2>0, <1>2, <1>6, <1>11 DEF ReadClear, MainAt, sig, thread
  <2>2. \A j, k \in 1..Len(core_pipe') :
           core_pipe'[j] = core_pipe'[k] /\ core_pipe'[j] \notin {RunMsg, ClearMsg(FastPid)}
               => j = k
    BY <1>0, <1>4, <1>6, <2>1 DEF PipeShape
  <2>3. Swept' => Swept
    BY <2>0, <2>1 DEF ReadRun
  <2> QED
    BY <1>0, <1>1, <1>2, <1>o, <2>0, <2>1, <2>2, <2>3 DEF PipeShape
<1>12. CASE Finish
  <2>0. /\ burst' = burst /\ Cardinality(Over) <= Cardinality(Over')
        /\ Swept' => Swept \/ ReadRun
    <3>1. ~Call /\ ~FreshCall
      BY <1>1, <1>12 DEF Call, FreshCall, Finish, MainAt, queue, thread
    <3> QED
      BY <1>3, <3>1
  <2>1. /\ \A m : Count(m)' = Count(m)
        /\ pc = "finish" /\ pc' = "clear" /\ burst' = burst /\ hpc' = "none"
        /\ core_pipe' = core_pipe
    BY <2>0, <1>12, CountIs DEF Finish, MainAt, sig
  <2>2. Cardinality(Over') = Cardinality(Over) + 1
    <3>1. cur \in Recent /\ state[cur] = "RUNNING" /\ Recent \subseteq Calls
      BY <1>0, <2>1 DEF PipeInv, BurstShape, IInv, CursorShape, Recent
    <3>2. Recent' = Recent
      <4>1. ~Call /\ ~FreshCall
        BY <1>1, <1>12 DEF Call, FreshCall, Finish, MainAt, queue, thread
      <4> QED
        BY <1>0, <4>1, RecentStep
    <3>3. cur \notin Over /\ Over' = Over \cup {cur}
      BY <1>1, <1>12, <3>1, <3>2 DEF Finish, Over, TypeOK
    <3> QED
      BY <1>o, <3>3, FS_AddElement
  <2>3. Swept' => Swept
    BY <2>0, <2>1 DEF ReadRun
  <2> QED
    BY <1>0, <1>1, <1>2, <1>o, <2>0, <2>1, <2>2, <2>3 DEF PipeShape
<1>13. CASE ClearSelf
  <2>0. /\ burst' = burst /\ Cardinality(Over) <= Cardinality(Over')
        /\ Swept' => Swept \/ ReadRun
    <3>1. ~Call /\ ~FreshCall
      BY <1>1, <1>13 DEF Call, FreshCall, ClearSelf, MainAt, queue, thread
    <3> QED
      BY <1>3, <3>1
  <2>1. /\ \A m : Count(m)' = Count(m) + (IF ClearMsg(FastPid) = m THEN 1 ELSE 0)
        /\ pc = "clear" /\ pc' = "sweep" /\ burst' = burst /\ hpc' = "none"
        /\ core_pipe' = Append(core_pipe, ClearMsg(FastPid))
        /\ ClearMsg(FastPid) \in Messages
    BY <2>0, <1>5, <1>13 DEF ClearSelf, Write, MainAt, sig, queue, Messages
  <2>2. Swept' => Swept
    BY <2>0, <2>1 DEF ReadRun
  <2>3. \A j, k \in 1..Len(core_pipe') :
           core_pipe'[j] = core_pipe'[k] /\ core_pipe'[j] \notin {RunMsg, ClearMsg(FastPid)}
               => j = k
    BY <1>0, <1>4, <1>5, <2>1 DEF PipeShape
  <2> QED
    BY <1>0, <1>1, <1>2, <1>o, <2>0, <2>1, <2>2, <2>3, MessagesDiffer DEF PipeShape
<1>14. CASE Reap
  <2>0. /\ burst' = burst /\ Cardinality(Over) <= Cardinality(Over')
        /\ Swept' => Swept \/ ReadRun
    <3>1. ~Call /\ ~FreshCall
      BY <1>1, <1>14 DEF Call, FreshCall, Reap, MainAt, queue, thread
    <3> QED
      BY <1>3, <3>1
  <2>1. /\ \A m : Count(m)' = Count(m) /\ InPipe(m)' = InPipe(m)
        /\ pc' = pc /\ burst' = burst /\ core_pipe' = core_pipe
        /\ hpid' = hpid /\ hpid \in Pids /\ proc[hpid] = "zombie"
    BY <2>0, <1>1, <1>14, CountIs DEF Reap, thread, queue, InPipe, TypeOK
  <2>2. Swept' => Swept
    BY <2>0, <2>1 DEF ReadRun
  <2>3. ~InPipe(ClearMsg(hpid))
    BY <1>0, <2>1 DEF IInv, SignalShape
  <2> QED
    BY <1>0, <1>1, <1>2, <1>o, <2>0, <2>1, <2>2, <2>3 DEF PipeShape
<1>15. CASE Report
  <2>0. /\ burst' = burst /\ Cardinality(Over) <= Cardinality(Over')
        /\ Swept' => Swept \/ ReadRun
    <3>1. ~Call /\ ~FreshCall
      BY <1>1, <1>15 DEF Call, FreshCall, Report, MainAt, queue, thread
    <3> QED
      BY <1>3, <3>1
  <2>1. /\ hpid \in Pids /\ hpc' = "none"
        /\ \A m : Count(m)' = Count(m) + (IF ClearMsg(hpid) = m THEN 1 ELSE 0)
        /\ pc' = pc /\ burst' = burst
        /\ core_pipe' = Append(core_pipe, ClearMsg(hpid))
        /\ ClearMsg(hpid) \in Messages
    BY <2>0, <1>1, <1>5, <1>15 DEF Report, Write, thread, queue, Messages, TypeOK
  <2>2. ClearMsg(hpid) # RunMsg /\ ClearMsg(hpid) # ClearMsg(FastPid)
    BY <2>1, MessagesDiffer, SpecialPids
  <2>3. Swept' => Swept
    BY <2>0, <2>1 DEF ReadRun
  <2>4. ~InPipe(ClearMsg(hpid))
    BY <1>0, <1>15 DEF Report, PipeShape
  <2>5. \A j, k \in 1..Len(core_pipe') :
           core_pipe'[j] = core_pipe'[k] /\ core_pipe'[j] \notin {RunMsg, ClearMsg(FastPid)}
               => j = k
    BY <1>0, <1>4, <1>5, <2>1, <2>4 DEF PipeShape
  <2> QED
    BY <1>0, <1>1, <1>2, <1>o, <2>0, <2>1, <2>2, <2>3, <2>5 DEF PipeShape
<1> QED
  BY <1>0, <1>f, <1>7, <1>8, <1>9, <1>10, <1>11, <1>12, <1>13, <1>14, <1>15, QuietSteps

(* The messages that are neither a RUN nor from an action that left no       *)
(* process name different children, none of them the one about to be        *)
(* reported.                                                               *)
LEMMA PipeLength ==
    ASSUME IInv, PipeShape, IsFiniteSet(Pids)
    PROVE  /\ Cardinality(Pids) \in Nat
           /\ Len(core_pipe) <= Count(RunMsg) + Count(ClearMsg(FastPid))
                  + Cardinality(Pids) - (IF hpc = "report" THEN 1 ELSE 0)
<1> DEFINE Runs   == At(core_pipe, RunMsg)
           Fasts  == At(core_pipe, ClearMsg(FastPid))
           Others == {k \in 1..Len(core_pipe) :
                         core_pipe[k] \notin {RunMsg, ClearMsg(FastPid)}}
           Rest   == IF hpc = "report" THEN Pids \ {hpid} ELSE Pids
           child  == [k \in Others |-> core_pipe[k].pid]
<1>1. /\ core_pipe \in Seq(Messages) /\ Len(core_pipe) \in Nat
      /\ \A k \in 1..Len(core_pipe) : core_pipe[k] \in Messages
  BY DEF IInv, TypeOK
<1>2. /\ IsFiniteSet(1..Len(core_pipe)) /\ Cardinality(1..Len(core_pipe)) = Len(core_pipe)
      /\ 1..Len(core_pipe) = (Runs \cup Fasts) \cup Others
  <2>1. IsFiniteSet(1..Len(core_pipe)) /\ Cardinality(1..Len(core_pipe)) = Len(core_pipe)
    <3>1. 1 \in Int /\ Len(core_pipe) \in Int /\ Len(core_pipe) >= 0
      BY <1>1
    <3> HIDE DEF Runs, Fasts, Others, Rest, child
    <3>2. /\ IsFiniteSet(1..Len(core_pipe))
          /\ Cardinality(1..Len(core_pipe)) =
                IF 1 > Len(core_pipe) THEN 0 ELSE Len(core_pipe) - 1 + 1
      BY <3>1, FS_Interval
    <3> QED
      BY <3>1, <3>2
  <2>2. 1..Len(core_pipe) = (Runs \cup Fasts) \cup Others
    BY DEF At
  <2> QED
    BY <2>1, <2>2
<1>3. /\ IsFiniteSet(Runs) /\ IsFiniteSet(Fasts)
      /\ Cardinality(Runs) = Count(RunMsg) /\ Cardinality(Fasts) = Count(ClearMsg(FastPid))
      /\ Cardinality(Runs) \in Nat /\ Cardinality(Fasts) \in Nat
  BY <1>1, AtIsFinite, CountIs
<1>4. /\ Cardinality(Pids) \in Nat /\ IsFiniteSet(Rest)
      /\ Cardinality(Rest) = Cardinality(Pids) - (IF hpc = "report" THEN 1 ELSE 0)
  <2>1. hpc = "report" => hpid \in Pids
    BY DEF IInv, TypeOK
  <2> QED
    BY <2>1, FS_RemoveElement, FS_CardinalityType
<1>5. child \in [Others -> Rest]
  <2>1. \A k \in Others : core_pipe[k].pid \in Pids /\ core_pipe[k] = ClearMsg(core_pipe[k].pid)
    BY <1>1 DEF Messages, RunMsg, ClearMsg
  <2>2. \A k \in Others : hpc = "report" => core_pipe[k].pid # hpid
    BY <2>1 DEF PipeShape, InPipe, Has
  <2> QED
    BY <2>1, <2>2
<1>6. \A j, k \in Others : child[j] = child[k] => j = k
  <2>1. \A k \in Others : core_pipe[k] = ClearMsg(core_pipe[k].pid)
    BY <1>1 DEF Messages, RunMsg, ClearMsg
  <2> QED
    BY <2>1 DEF PipeShape
<1> HIDE DEF child
<1>7. child \in Injection(Others, Rest)
  BY <1>5, <1>6, Fun_IsInj
<1>8. IsFiniteSet(Others) /\ Cardinality(Others) <= Cardinality(Rest)
  BY <1>4, <1>7, FS_Injection
<1> HIDE DEF Runs, Fasts, Others, Rest
<1>9. /\ IsFiniteSet(Runs \cup Fasts)
      /\ Cardinality(Runs \cup Fasts) \in Nat
      /\ Cardinality(Runs \cup Fasts) <= Cardinality(Runs) + Cardinality(Fasts)
  <2>1. /\ IsFiniteSet(Runs \cap Fasts) /\ IsFiniteSet(Runs \cup Fasts)
        /\ Cardinality(Runs \cup Fasts) =
              Cardinality(Runs) + Cardinality(Fasts) - Cardinality(Runs \cap Fasts)
    BY <1>3, FS_Union, FS_Intersection
  <2> QED
    BY <1>3, <2>1, FS_CardinalityType
<1>10. Cardinality(1..Len(core_pipe)) <= Cardinality(Runs \cup Fasts) + Cardinality(Others)
  <2>1. /\ IsFiniteSet((Runs \cup Fasts) \cap Others)
        /\ Cardinality((Runs \cup Fasts) \cup Others) =
              Cardinality(Runs \cup Fasts) + Cardinality(Others)
                - Cardinality((Runs \cup Fasts) \cap Others)
    BY <1>8, <1>9, FS_Union, FS_Intersection
  <2>2. Cardinality((Runs \cup Fasts) \cap Others) \in Nat
    BY <2>1, FS_CardinalityType
  <2>3. Cardinality(Others) \in Nat
    BY <1>8, FS_CardinalityType
  <2>4. Cardinality(1..Len(core_pipe)) = Cardinality((Runs \cup Fasts) \cup Others)
    BY <1>2
  <2> QED
    BY <1>9, <2>1, <2>2, <2>3, <2>4
<1>11. Cardinality(Others) \in Nat /\ Cardinality(Rest) \in Int
  BY <1>4, <1>8, FS_CardinalityType
<1> QED
  BY <1>1, <1>2, <1>3, <1>4, <1>8, <1>9, <1>10, <1>11

(* The daemon, the only reader of its pipe, waits for room in it only in a   *)
(* burst of calls that fills it, whatever went on before the burst and for  *)
(* every capacity of the pipe (ss_core.c:66-88, ss_sig_handler.c:46).       *)
THEOREM DaemonWaitsOnlyInABurst ==
    ASSUME IsFiniteSet(Pids)
    PROVE  PipeSpec => []BlockedOnlyByBurst
<1>1. PipeInit => PipeInv
  <2> SUFFICES ASSUME PipeInit PROVE PipeInv
    OBVIOUS
  <2>1. /\ \A m : At(core_pipe, m) = {}
        /\ Recent = {} /\ Over = {} /\ \A i \in Calls : state[i] = "free"
        /\ ~Swept /\ burst = 0 /\ calls = 0 /\ pc = "loop" /\ hpc = "none"
        /\ core_pipe = <<>>
    BY DEF PipeInit, Init, At, Over, Swept, Recent, Calls
  <2>2. \A m : Count(m) = 0
    BY <2>1, CountIs, FS_EmptySet
  <2>3. Cardinality(Over) = 0
    BY <2>1, FS_EmptySet
  <2>4. IInv
    BY InitialIInv DEF PipeInit
  <2> QED
    BY <2>1, <2>2, <2>3, <2>4 DEF PipeInv, PipeShape, BurstShape
<1>2. PipeInv /\ [PipeNext]_pipeVars => PipeInv'
  <2> SUFFICES ASSUME PipeInv, PipeNext \/ UNCHANGED pipeVars PROVE PipeInv'
    OBVIOUS
  <2>1. IInv /\ [Next]_vars
    BY DEF PipeInv, PipeNext, pipeVars
  <2>2. IInv'
    BY <2>1, InductiveStep
  <2>3. burst' \in 0..calls' /\ BurstShape'
    BY BurstStep DEF PipeInv
  <2>4. PipeShape'
    BY PipeStep
  <2> QED
    BY <2>2, <2>3, <2>4 DEF PipeInv
<1>3. PipeInv => BlockedOnlyByBurst
  <2> SUFFICES ASSUME PipeInv, pc \in {"wake", "clear"} \/ hpc = "report",
                      Len(core_pipe) = PipeCap
               PROVE  PipeCap < 2 * burst + Cardinality(Pids)
    BY DEF BlockedOnlyByBurst, Blocked
  <2>0. IInv /\ PipeShape
    BY DEF PipeInv
  <2>1. /\ Cardinality(Pids) \in Nat
        /\ Len(core_pipe) <= Count(RunMsg) + Count(ClearMsg(FastPid))
               + Cardinality(Pids) - (IF hpc = "report" THEN 1 ELSE 0)
    BY <2>0, PipeLength
  <2>2. /\ calls \in Nat /\ burst \in 0..calls /\ burst \in Nat /\ PipeCap \in Nat
        /\ Len(core_pipe) \in Nat /\ core_pipe \in Seq(Messages)
    BY <2>0, RunQueueAssumption DEF PipeInv, IInv, TypeOK
  <2>3. Count(RunMsg) \in Nat /\ Count(ClearMsg(FastPid)) \in Nat
    BY <2>2, AtIsFinite, CountIs
  <2>4. Cardinality(Over) \in Nat /\ Cardinality(Over) <= burst
    BY <2>2, OverIsFinite
  <2>5. /\ Count(RunMsg) + (IF pc = "wake" THEN 1 ELSE 0) <= burst
        /\ Count(ClearMsg(FastPid)) + (IF pc = "clear" THEN 1 ELSE 0) <= burst
    <3>1. (IF pc = "wake" THEN 1 ELSE 0) \in Nat /\ (IF pc = "clear" THEN 1 ELSE 0) \in Nat
          /\ (IF Swept THEN 1 ELSE 0) \in Nat
      OBVIOUS
    <3>2. /\ Count(RunMsg) + (IF pc = "wake" THEN 1 ELSE 0) + (IF Swept THEN 1 ELSE 0) <= burst
          /\ Count(ClearMsg(FastPid)) + (IF pc = "clear" THEN 1 ELSE 0) <= Cardinality(Over)
      BY <2>0 DEF PipeShape
    <3> QED
      BY <2>2, <2>3, <2>4, <3>1, <3>2
  <2>6. CASE pc = "wake"
    BY <2>1, <2>2, <2>3, <2>5, <2>6
  <2>7. CASE pc = "clear"
    BY <2>1, <2>2, <2>3, <2>5, <2>7
  <2>8. CASE pc \notin {"wake", "clear"} /\ hpc = "report"
    BY <2>1, <2>2, <2>3, <2>5, <2>8
  <2> QED
    BY <2>6, <2>7, <2>8
<1> QED
  BY <1>1, <1>2, <1>3, PTL DEF PipeSpec

=============================================================================
