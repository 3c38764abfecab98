------------------------------ MODULE ProcMgr ------------------------------
(***************************************************************************)
(* The process manager (ss_procmgr.c): the oom_adj of every process, as    *)
(* the actions foregrd, backgrd, active, inactive and oomadj_set write it  *)
(* into /proc/<pid>/oom_adj.  The kernel's low memory killer takes the     *)
(* process with the highest value first, so what matters is the order      *)
(* these values keep among the processes in the background.                *)
(*                                                                         *)
(* Each action runs to its end in the daemon's only thread; a scan of      *)
(* /proc is one step.                                                      *)
(***************************************************************************)
EXTENDS Integers

CONSTANTS Procs,                   \* the processes of the device
          LIMITED_PROCESS_OOMADJ,  \* 15, also the largest value the kernel takes
          SetValues,               \* values clients pass to oomadj_set
          ScanMayFail              \* whether opendir("/proc") may fail

OOMADJ_SU               == -17
OOMADJ_INIT             == -16
OOMADJ_FOREGRD_LOCKED   == -15
OOMADJ_FOREGRD_UNLOCKED == -10
OOMADJ_BACKGRD_LOCKED   == -5
OOMADJ_BACKGRD_UNLOCKED == 1

ASSUME ProcMgrAssumption ==
    /\ LIMITED_PROCESS_OOMADJ \in Nat
    /\ LIMITED_PROCESS_OOMADJ > OOMADJ_BACKGRD_UNLOCKED
    /\ SetValues \subseteq {v \in Int : v > -20}
    /\ ScanMayFail \in BOOLEAN

VARIABLES
    alive,        \* the processes that exist
    oom_adj,      \* /proc/<pid>/oom_adj of each of them
    sigterm,      \* the processes sent SIGTERM that have not exited
    older,        \* history: <<p, q>> when q joined the background after p
    scan_failed   \* history: a scan of /proc could not be made

vars == <<alive, oom_adj, sigterm, older, scan_failed>>

Adj == OOMADJ_SU..LIMITED_PROCESS_OOMADJ   \* what the kernel accepts

TypeOK ==
    /\ alive \subseteq Procs
    /\ oom_adj \in [Procs -> Adj]
    /\ sigterm \subseteq alive
    /\ older \subseteq alive \X alive
    /\ scan_failed \in BOOLEAN

Init ==
    /\ alive = {}
    /\ oom_adj = [p \in Procs |-> OOMADJ_INIT]
    /\ sigterm = {}
    /\ older = {}
    /\ scan_failed = FALSE

Background(p) == oom_adj[p] >= OOMADJ_BACKGRD_UNLOCKED

(* The order without p, and with p as the latest to join. *)
OrderWithout(p) == {x \in older : x[1] # p /\ x[2] # p}
OrderJoined(p)  == OrderWithout(p) \cup
                   {<<q, p>> : q \in {q \in alive \ {p} : Background(q)}}

----------------------------------------------------------------------------
(* Processes come from the application launcher with OOMADJ_INIT, from     *)
(* ss_launch.c:64 with 0, or from init with OOMADJ_SU.                     *)
Launch(p, adj) ==
    /\ p \notin alive
    /\ alive' = alive \cup {p}
    /\ oom_adj' = [oom_adj EXCEPT ![p] = adj]
    /\ UNCHANGED <<sigterm, older, scan_failed>>

(* A child inherits the value, and so its parent's place in the order. *)
Fork(p, c) ==
    /\ p \in alive
    /\ c \notin alive
    /\ alive' = alive \cup {c}
    /\ oom_adj' = [oom_adj EXCEPT ![c] = oom_adj[p]]
    /\ older' = older \cup {<<x[1], c>> : x \in {x \in older : x[2] = p}}
                      \cup {<<c, x[2]>> : x \in {x \in older : x[1] = p}}
    /\ UNCHANGED <<sigterm, scan_failed>>

Die(p) ==
    /\ p \in alive
    /\ alive' = alive \ {p}
    /\ oom_adj' = [oom_adj EXCEPT ![p] = OOMADJ_INIT]
    /\ sigterm' = sigterm \ {p}
    /\ older' = OrderWithout(p)
    /\ UNCHANGED scan_failed

----------------------------------------------------------------------------
(* set_app_oomadj, for a value that takes p out of the background. *)
SetTo(p, adj) ==
    /\ oom_adj' = [oom_adj EXCEPT ![p] = adj]
    /\ older' = OrderWithout(p)
    /\ UNCHANGED <<alive, sigterm, scan_failed>>

(* Mutants: one of several processes at the limit is killed; the youngest   *)
(* entry of the background is not aged.                                    *)
KilledOnlyOne(ok) ==
    LET limit == {p \in alive : oom_adj[p] >= LIMITED_PROCESS_OOMADJ}
    IN  IF ok /\ limit # {} THEN {CHOOSE p \in limit : TRUE} ELSE {}
AgedAboveOne(ok) ==
    [p \in Procs |->
        IF /\ ok
           /\ p \in alive
           /\ OOMADJ_BACKGRD_UNLOCKED < oom_adj[p]
           /\ oom_adj[p] < LIMITED_PROCESS_OOMADJ
        THEN oom_adj[p] + 1 ELSE oom_adj[p]]

(* check_and_set_old_backgrd: when some process has the value the caller   *)
(* is about to write, the background ages by one and what is at the limit  *)
(* gets SIGTERM.  When /proc cannot be opened (ok is FALSE) nothing ages.  *)
SomeoneIsYoungest == \E p \in alive : oom_adj[p] = OOMADJ_BACKGRD_UNLOCKED

Killed(ok) ==
    {p \in alive : /\ ok /\ SomeoneIsYoungest
                   /\ oom_adj[p] >= LIMITED_PROCESS_OOMADJ}

Aged(ok) ==
    [p \in Procs |->
        IF /\ ok /\ SomeoneIsYoungest
           /\ p \in alive
           /\ Background(p)
           /\ oom_adj[p] < LIMITED_PROCESS_OOMADJ
        THEN oom_adj[p] + 1 ELSE oom_adj[p]]

(* The callers ignore the result of check_and_set_old_backgrd. *)
JoinBackground(p) ==
    \E ok \in {TRUE, ~ScanMayFail} :
        /\ oom_adj' = [Aged(ok) EXCEPT ![p] = OOMADJ_BACKGRD_UNLOCKED]
        /\ sigterm' = sigterm \cup Killed(ok)
        /\ older' = OrderJoined(p)
        /\ scan_failed' = (scan_failed \/ ~ok)
        /\ UNCHANGED alive

SetActive(p) ==
    /\ p \in alive
    /\ \/ /\ oom_adj[p] = OOMADJ_FOREGRD_UNLOCKED
          /\ SetTo(p, OOMADJ_FOREGRD_LOCKED)
       \/ /\ oom_adj[p] = OOMADJ_INIT \/ Background(p)
          /\ SetTo(p, OOMADJ_BACKGRD_LOCKED)

SetInactive(p) ==
    /\ p \in alive
    /\ \/ /\ oom_adj[p] = OOMADJ_FOREGRD_LOCKED
          /\ SetTo(p, OOMADJ_FOREGRD_UNLOCKED)
       \/ /\ oom_adj[p] \in {OOMADJ_BACKGRD_LOCKED, OOMADJ_INIT}
          /\ JoinBackground(p)

SetForegrd(p) ==
    /\ p \in alive
    /\ \/ /\ oom_adj[p] = OOMADJ_BACKGRD_LOCKED
          /\ SetTo(p, OOMADJ_FOREGRD_LOCKED)
       \/ /\ oom_adj[p] = OOMADJ_INIT \/ Background(p)
          /\ SetTo(p, OOMADJ_FOREGRD_UNLOCKED)

(* Mutant: a process of the background is made the youngest once more. *)
SetBackgrdAgain(p) ==
    /\ p \in alive
    /\ \/ /\ oom_adj[p] = OOMADJ_FOREGRD_LOCKED
          /\ SetTo(p, OOMADJ_BACKGRD_LOCKED)
       \/ /\ oom_adj[p] \in {OOMADJ_FOREGRD_UNLOCKED, OOMADJ_INIT}
          /\ JoinBackground(p)
       \/ /\ Background(p)
          /\ oom_adj' = [oom_adj EXCEPT ![p] = OOMADJ_BACKGRD_UNLOCKED]
          /\ UNCHANGED <<alive, sigterm, older, scan_failed>>

SetBackgrd(p) ==
    /\ p \in alive
    /\ \/ /\ oom_adj[p] = OOMADJ_FOREGRD_LOCKED
          /\ SetTo(p, OOMADJ_BACKGRD_LOCKED)
       \/ /\ oom_adj[p] \in {OOMADJ_FOREGRD_UNLOCKED, OOMADJ_INIT}
          /\ JoinBackground(p)

(* set_oomadj_action writes what the client says; the kernel refuses a     *)
(* value out of range, which the action does not notice.                   *)
OomadjSet(p, v) ==
    /\ p \in alive
    /\ v \in Adj
    /\ SetTo(p, v)

Next ==
    \E p \in Procs :
        \/ \E adj \in {OOMADJ_INIT, OOMADJ_SU, 0} : Launch(p, adj)
        \/ \E c \in Procs : Fork(p, c)
        \/ Die(p)
        \/ SetActive(p) \/ SetInactive(p) \/ SetForegrd(p) \/ SetBackgrd(p)
        \/ \E v \in SetValues : OomadjSet(p, v)

Spec == Init /\ [][Next]_vars
----------------------------------------------------------------------------
(* The killer never takes the younger of two background processes first:   *)
(* whoever joined the background earlier has no smaller value, whatever     *)
(* other processes were aged, set by hand, forked or not aged because       *)
(* /proc could not be read (ss_procmgr.c:115-189).                          *)
LruOrder == \A x \in older : oom_adj[x[1]] >= oom_adj[x[2]]

(* As long as every scan could be made the order is strict: no two of them *)
(* tie, except at the limit.                                               *)
NoTies ==
    ~scan_failed =>
        \A x \in older : \/ oom_adj[x[1]] > oom_adj[x[2]]
                         \/ oom_adj[x[1]] = LIMITED_PROCESS_OOMADJ

(* The daemon's own SIGTERMs follow the same order: none goes to a process *)
(* while one that joined the background earlier is spared.                 *)
OldestKilledFirst ==
    [][\A x \in older :
          x[2] \in sigterm' \ sigterm => x[1] \in sigterm']_vars

(* Only processes of the background are ordered. *)
OlderIsBackground ==
    \A x \in older : Background(x[1]) /\ Background(x[2]) /\ x[1] # x[2]

(* The inductive invariant. *)
IInv == TypeOK /\ OlderIsBackground /\ LruOrder /\ NoTies
=============================================================================
