--------------------------- MODULE ProcMgrProofs ---------------------------
(* Theorems about ProcMgr, for any set of processes, any limit above 1 and  *)
(* any values clients may set.                                             *)
EXTENDS ProcMgr, TLAPS

(* The values the actions write are values the kernel accepts. *)
LEMMA KnownValues ==
    /\ {OOMADJ_SU, OOMADJ_INIT, OOMADJ_FOREGRD_LOCKED, OOMADJ_FOREGRD_UNLOCKED,
        OOMADJ_BACKGRD_LOCKED, 0, OOMADJ_BACKGRD_UNLOCKED} \subseteq Adj
    /\ Adj \subseteq Int
    /\ \A v \in Adj : v <= LIMITED_PROCESS_OOMADJ
    /\ LIMITED_PROCESS_OOMADJ \in Adj
BY ProcMgrAssumption DEF Adj, OOMADJ_SU, OOMADJ_INIT, OOMADJ_FOREGRD_LOCKED,
   OOMADJ_FOREGRD_UNLOCKED, OOMADJ_BACKGRD_LOCKED, OOMADJ_BACKGRD_UNLOCKED

(* Ageing keeps the type and moves nobody out of the background. *)
LEMMA AgedKeeps ==
    ASSUME TypeOK, NEW ok \in BOOLEAN
    PROVE  /\ Aged(ok) \in [Procs -> Adj]
           /\ \A q \in alive : Background(q) => Aged(ok)[q] >= OOMADJ_BACKGRD_UNLOCKED
<1>1. Aged(ok) \in [Procs -> Adj]
  BY ProcMgrAssumption DEF Aged, TypeOK, Background, Adj, OOMADJ_SU, OOMADJ_BACKGRD_UNLOCKED
<1>2. ASSUME NEW q \in alive, Background(q)
      PROVE  Aged(ok)[q] >= OOMADJ_BACKGRD_UNLOCKED
  BY <1>2 DEF Aged, TypeOK, Background, Adj, OOMADJ_SU, OOMADJ_BACKGRD_UNLOCKED
<1> QED
  BY <1>1, <1>2

(* Ageing keeps the order of two processes, and does not make a tie. *)
LEMMA AgedKeepsOrder ==
    ASSUME TypeOK, NEW ok \in BOOLEAN, NEW p \in alive, NEW q \in alive,
           Background(p), Background(q), oom_adj[p] >= oom_adj[q]
    PROVE  /\ Aged(ok)[p] >= Aged(ok)[q]
           /\ \/ oom_adj[p] > oom_adj[q]
              \/ oom_adj[p] = LIMITED_PROCESS_OOMADJ
              => \/ Aged(ok)[p] > Aged(ok)[q]
                 \/ Aged(ok)[p] = LIMITED_PROCESS_OOMADJ
BY ProcMgrAssumption DEF Aged, TypeOK, Background, Adj, OOMADJ_SU, OOMADJ_BACKGRD_UNLOCKED

(* After a scan that could be made nobody in the background has the value  *)
(* that the next process to join is given.                                 *)
LEMMA AgedMakesRoom ==
    ASSUME TypeOK, NEW q \in alive, Background(q)
    PROVE  Aged(TRUE)[q] > OOMADJ_BACKGRD_UNLOCKED
BY ProcMgrAssumption DEF Aged, TypeOK, Background, SomeoneIsYoungest, Adj, OOMADJ_SU,
   OOMADJ_BACKGRD_UNLOCKED

(* Every variable keeps its type. *)
LEMMA TypeStep == TypeOK /\ [Next]_vars => TypeOK'
<1> SUFFICES ASSUME TypeOK, [Next]_vars PROVE TypeOK'
  OBVIOUS
<1> USE KnownValues DEF TypeOK
<1>1. ASSUME NEW p \in Procs, NEW adj \in {OOMADJ_INIT, OOMADJ_SU, 0}, Launch(p, adj)
      PROVE  TypeOK'
  BY <1>1 DEF Launch
<1>2. ASSUME NEW p \in Procs, NEW c \in Procs, Fork(p, c) PROVE TypeOK'
  BY <1>2 DEF Fork
<1>3. ASSUME NEW p \in Procs, Die(p) PROVE TypeOK'
  BY <1>3 DEF Die, OrderWithout
<1>4. ASSUME NEW p \in alive, NEW adj \in Adj, SetTo(p, adj) PROVE TypeOK'
  BY <1>4 DEF SetTo, OrderWithout
<1>5. ASSUME NEW p \in alive, JoinBackground(p) PROVE TypeOK'
  <2>1. PICK ok \in BOOLEAN :
           /\ oom_adj' = [Aged(ok) EXCEPT ![p] = OOMADJ_BACKGRD_UNLOCKED]
           /\ sigterm' = sigterm \cup Killed(ok)
           /\ older' = OrderJoined(p)
           /\ scan_failed' = (scan_failed \/ ~ok)
           /\ UNCHANGED alive
    BY <1>5, ProcMgrAssumption DEF JoinBackground
  <2>2. Aged(ok) \in [Procs -> Adj]
    BY AgedKeeps
  <2> QED
    BY <2>1, <2>2 DEF Killed, OrderJoined, OrderWithout
<1>6. CASE UNCHANGED vars
  BY <1>6 DEF vars
<1> QED
  BY <1>1, <1>2, <1>3, <1>4, <1>5, <1>6
     DEF Next, SetActive, SetInactive, SetForegrd, SetBackgrd, OomadjSet

(* oom_adj stays in the range the kernel accepts, whatever the five actions *)
(* and the ageing of ss_procmgr.c write.                                    *)
THEOREM TypeCorrect == Spec => []TypeOK
<1>1. Init => TypeOK
  BY KnownValues DEF Init, TypeOK
<1> QED
  BY <1>1, TypeStep, PTL DEF Spec

(* The order of the background, one step at a time. *)
Ordered(p, q, strict) ==
    /\ p \in alive /\ q \in alive /\ p # q
    /\ Background(p) /\ Background(q)
    /\ oom_adj[p] >= oom_adj[q]
    /\ strict => oom_adj[p] > oom_adj[q] \/ oom_adj[p] = LIMITED_PROCESS_OOMADJ

(* The invariant says of any two processes in the background that the older *)
(* one has the higher value.                                                *)
LEMMA InvariantAsOrder ==
    IInv <=> TypeOK /\ \A x \in older : Ordered(x[1], x[2], ~scan_failed)
BY DEF IInv, TypeOK, OlderIsBackground, LruOrder, NoTies, Ordered

(* Each of the actions, and every fork and exit, keeps the order. *)
LEMMA InductiveStep == IInv /\ [Next]_vars => IInv'
<1> SUFFICES ASSUME IInv, [Next]_vars PROVE IInv'
  OBVIOUS
<1>a. TypeOK /\ TypeOK'
  BY TypeStep DEF IInv
<1>b. \A x \in older : Ordered(x[1], x[2], ~scan_failed)
  BY InvariantAsOrder
<1> SUFFICES \A x \in older' : Ordered(x[1], x[2], ~scan_failed)'
  BY <1>a, InvariantAsOrder DEF IInv, OlderIsBackground, LruOrder, NoTies, Ordered, TypeOK
<1> USE <1>a, <1>b, KnownValues DEF TypeOK
<1>1. ASSUME NEW p \in Procs, NEW adj \in Adj, Launch(p, adj)
      PROVE  \A x \in older' : Ordered(x[1], x[2], ~scan_failed)'
  BY <1>1 DEF Launch, Ordered, Background
<1>2. ASSUME NEW p \in Procs, NEW c \in Procs, Fork(p, c)
      PROVE  \A x \in older' : Ordered(x[1], x[2], ~scan_failed)'
  BY <1>2 DEF Fork, Ordered, Background
<1>3. ASSUME NEW p \in Procs, Die(p)
      PROVE  \A x \in older' : Ordered(x[1], x[2], ~scan_failed)'
  BY <1>3 DEF Die, OrderWithout, Ordered, Background
<1>4. ASSUME NEW p \in alive, NEW adj \in Adj, SetTo(p, adj)
      PROVE  \A x \in older' : Ordered(x[1], x[2], ~scan_failed)'
  BY <1>4 DEF SetTo, OrderWithout, Ordered, Background
<1>5. ASSUME NEW p \in alive, JoinBackground(p)
      PROVE  \A x \in older' : Ordered(x[1], x[2], ~scan_failed)'
  <2>1. PICK ok \in BOOLEAN :
           /\ oom_adj' = [Aged(ok) EXCEPT ![p] = OOMADJ_BACKGRD_UNLOCKED]
           /\ older' = OrderJoined(p)
           /\ scan_failed' = (scan_failed \/ ~ok)
           /\ UNCHANGED alive
    BY <1>5, ProcMgrAssumption DEF JoinBackground
  <2>t. /\ Aged(ok) \in [Procs -> Adj]
        /\ \A q \in alive : Background(q) => Aged(ok)[q] >= OOMADJ_BACKGRD_UNLOCKED
    BY AgedKeeps
  <2>2. ASSUME NEW x \in OrderWithout(p) PROVE Ordered(x[1], x[2], ~scan_failed)'
    <3> DEFINE a == x[1]
               b == x[2]
    <3>1. Ordered(a, b, ~scan_failed) /\ a # p /\ b # p
      BY DEF OrderWithout
    <3>2. /\ a \in alive /\ b \in alive /\ Background(a) /\ Background(b)
          /\ oom_adj[a] >= oom_adj[b]
      BY <3>1 DEF Ordered
    <3>3. /\ Aged(ok)[a] >= Aged(ok)[b]
          /\ \/ oom_adj[a] > oom_adj[b]
             \/ oom_adj[a] = LIMITED_PROCESS_OOMADJ
             => \/ Aged(ok)[a] > Aged(ok)[b]
                \/ Aged(ok)[a] = LIMITED_PROCESS_OOMADJ
      BY <3>2, AgedKeepsOrder
    <3>4. oom_adj'[a] = Aged(ok)[a] /\ oom_adj'[b] = Aged(ok)[b]
      BY <2>1, <2>t, <3>1, <3>2
    <3>5. Aged(ok)[a] >= OOMADJ_BACKGRD_UNLOCKED /\ Aged(ok)[b] >= OOMADJ_BACKGRD_UNLOCKED
      BY <2>t, <3>2
    <3> QED
      BY <2>1, <3>1, <3>2, <3>3, <3>4, <3>5 DEF Ordered, Background
  <2>3. ASSUME NEW q \in alive \ {p}, Background(q)
        PROVE  Ordered(q, p, ~scan_failed)'
    <3>1. oom_adj'[p] = OOMADJ_BACKGRD_UNLOCKED /\ oom_adj'[q] = Aged(ok)[q]
      BY <2>1, AgedKeeps
    <3>2. Aged(ok)[q] >= OOMADJ_BACKGRD_UNLOCKED
      BY <2>3, <2>t
    <3>3. ok => Aged(ok)[q] > OOMADJ_BACKGRD_UNLOCKED
      BY <2>3, AgedMakesRoom
    <3>4. q \in alive' /\ p \in alive' /\ Background(q)' /\ Background(p)'
      BY <2>1, <3>1, <3>2 DEF Background, OOMADJ_BACKGRD_UNLOCKED
    <3>5. ~scan_failed' => ok
      BY <2>1
    <3> QED
      BY <3>1, <3>2, <3>3, <3>4, <3>5 DEF Ordered
  <2> QED
    BY <2>1, <2>2, <2>3 DEF OrderJoined
<1>6. CASE UNCHANGED vars
  BY <1>6 DEF vars, Ordered, Background
<1> QED
  BY <1>1, <1>2, <1>3, <1>4, <1>5, <1>6
     DEF Next, SetActive, SetInactive, SetForegrd, SetBackgrd, OomadjSet

(* The inductive invariant of the process manager. *)
THEOREM Invariance == Spec => []IInv
<1>1. Init => IInv
  BY KnownValues DEF Init, IInv, TypeOK, OlderIsBackground, LruOrder, NoTies
<1> QED
  BY <1>1, InductiveStep, PTL DEF Spec

(* Of two processes in the background the killer meets the older first. *)
THEOREM BackgroundIsLru == Spec => []LruOrder
BY Invariance, PTL DEF IInv

(* Without a failed scan two of them tie only at the limit. *)
THEOREM BackgroundHasNoTies == Spec => []NoTies
BY Invariance, PTL DEF IInv

(* A SIGTERM for a process means one for everything older than it. *)
THEOREM KillsInLruOrder == Spec => OldestKilledFirst
<1> DEFINE Fair == \A x \in older : x[2] \in sigterm' \ sigterm => x[1] \in sigterm'
<1>1. ASSUME IInv, NEW p \in Procs, JoinBackground(p) PROVE Fair
  <2>1. PICK ok \in BOOLEAN : sigterm' = sigterm \cup Killed(ok)
    BY <1>1, ProcMgrAssumption DEF JoinBackground
  <2>2. ASSUME NEW x \in older, x[2] \in Killed(ok) PROVE x[1] \in Killed(ok)
    <3>1. /\ x[1] \in alive /\ x[2] \in alive
          /\ oom_adj[x[1]] \in Int /\ oom_adj[x[2]] \in Int /\ LIMITED_PROCESS_OOMADJ \in Int
          /\ oom_adj[x[1]] >= oom_adj[x[2]] /\ oom_adj[x[2]] >= LIMITED_PROCESS_OOMADJ
      BY <1>1, <2>2, KnownValues DEF IInv, TypeOK, LruOrder, Killed
    <3> QED
      BY <2>2, <3>1 DEF Killed
  <2> QED
    BY <2>1, <2>2
<1>2. ASSUME IInv, [Next]_vars, \A p \in Procs : ~JoinBackground(p) PROVE Fair
  BY <1>2 DEF IInv, TypeOK, Next, Launch, Fork, Die, SetActive, SetInactive, SetForegrd,
     SetBackgrd, OomadjSet, SetTo, vars
<1>3. IInv /\ [Next]_vars => [Fair]_vars
  BY <1>1, <1>2
<1> QED
  BY <1>3, Invariance, PTL DEF Spec, OldestKilledFirst
=============================================================================
