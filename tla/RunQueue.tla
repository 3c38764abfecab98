------------------------------ MODULE RunQueue ------------------------------
(***************************************************************************)
(* The engine of system_server: the queue of called actions (ss_queue.c),  *)
(* the pipe the daemon writes to itself (ss_core.c) and the SIGCHLD        *)
(* handler (ss_sig_handler.c), with the processes the actions launch.      *)
(*                                                                         *)
(* There is one thread.  It is in the ecore main loop or in the middle of  *)
(* one of its callbacks (pc); the signal handler (hpc) runs on top of it   *)
(* at any point and the thread waits until the handler returns.            *)
(*                                                                         *)
(* Entries are only ever prepended to run_queue, so an entry is known by   *)
(* the number of its call and the list holds them in descending order.     *)
(***************************************************************************)
EXTENDS Integers, Sequences, FiniteSets

CONSTANTS MaxCalls,  \* bound: the calls made in a behaviour
          Pids,      \* the process ids the kernel gives to children
          PipeCap,   \* messages core_pipe holds before a write blocks
          MayStop    \* whether a living child may raise SIGCHLD (SIGSTOP)

ASSUME RunQueueAssumption ==
    /\ MaxCalls \in Nat
    /\ Pids \subseteq Nat \ {0, 1}
    /\ PipeCap \in Nat \ {0}
    /\ MayStop \in BOOLEAN

Calls   == 1..MaxCalls
NoPid   == 0        \* forked_pid of a new entry; also: no signal pending
InitPid == 1        \* what ss_launch_if_noexist returns for a running program
FastPid == -1       \* forked_pid of an entry that left no process

VARIABLES
    calls,       \* how many calls were made so far
    state,       \* state of the entry of each call, "free" when there is none
    forked_pid,  \* forked_pid of the entry of each call
    core_pipe,   \* messages written and not yet read
    pc,          \* what the main thread does next
    cur,         \* cursor of ss_run_queue_run
    ret,         \* return value of predefine_action
    proc,        \* each child, as the kernel knows it
    sigchld,     \* the pending SIGCHLD; a second one is merged into it
    hpc,         \* what the signal handler does next
    hpid         \* info->si_pid of the signal being handled

queue  == <<calls, state, forked_pid>>
thread == <<pc, cur, ret>>
sig    == <<sigchld, hpc, hpid>>
vars   == <<calls, state, forked_pid, core_pipe, pc, cur, ret,
            proc, sigchld, hpc, hpid>>

RunMsg      == [type |-> "RUN", pid |-> NoPid]
ClearMsg(p) == [type |-> "CLEAR", pid |-> p]
Messages    == {RunMsg} \cup {ClearMsg(p) : p \in Pids \cup {FastPid}}

TypeOK ==
    /\ calls \in 0..MaxCalls
    /\ state \in [Calls -> {"free", "INIT", "RUNNING", "DONE"}]
    /\ forked_pid \in [Calls -> Pids \cup {NoPid, InitPid, FastPid}]
    /\ core_pipe \in Seq(Messages)
    /\ pc \in {"loop", "wake", "sweep", "probe", "store", "finish", "clear"}
    /\ cur \in 1..(MaxCalls + 1)
    /\ ret \in Pids \cup {NoPid, InitPid}
    /\ proc \in [Pids -> {"free", "alive", "zombie"}]
    /\ sigchld \in Pids \cup {NoPid}
    /\ hpc \in {"none", "reap", "report"}
    /\ hpid \in Pids \cup {NoPid}
    /\ hpc = "none" <=> hpid = NoPid

Init ==
    /\ calls = 0
    /\ state = [i \in Calls |-> "free"]
    /\ forked_pid = [i \in Calls |-> NoPid]
    /\ core_pipe = <<>>
    /\ pc = "loop"
    /\ cur = MaxCalls + 1
    /\ ret = NoPid
    /\ proc = [p \in Pids |-> "free"]
    /\ sigchld = NoPid
    /\ hpc = "none"
    /\ hpid = NoPid

Has(s, m) == \E k \in 1..Len(s) : s[k] = m
InPipe(m) == Has(core_pipe, m)

(* The kernel does not give out a pid the daemon is still talking about:  *)
(* pids are recycled only after all the others were used.                 *)
Unused(p) == /\ proc[p] = "free"
             /\ ~InPipe(ClearMsg(p))
             /\ sigchld # p
             /\ hpid # p

(* The main thread takes a step only when no handler runs on top of it.   *)
MainAt(label) == pc = label /\ hpc = "none"

Write(m) == /\ Len(core_pipe) < PipeCap
            /\ core_pipe' = Append(core_pipe, m)

----------------------------------------------------------------------------
(* A client (ss_sysnoti.c) or a callback of the daemon calls an action:   *)
(* ss_run_queue_add, then ss_core_action_run.                             *)
Call ==
    /\ MainAt("loop")
    /\ calls < MaxCalls
    /\ calls' = calls + 1
    /\ state' = [state EXCEPT ![calls + 1] = "INIT"]
    /\ forked_pid' = [forked_pid EXCEPT ![calls + 1] = NoPid]
    /\ pc' = "wake"
    /\ UNCHANGED <<core_pipe, cur, ret, proc, sig>>

(* Mutant: no RUN message while another message waits in the pipe. *)
WakeOnlyIfEmpty ==
    /\ MainAt("wake")
    /\ IF core_pipe = <<>> THEN Write(RunMsg) ELSE UNCHANGED core_pipe
    /\ pc' = "loop"
    /\ UNCHANGED <<queue, cur, ret, proc, sig>>

Wake ==
    /\ MainAt("wake")
    /\ Write(RunMsg)
    /\ pc' = "loop"
    /\ UNCHANGED <<queue, cur, ret, proc, sig>>

(* A child no entry waits for: memps, sys_device_noti, a relaunched        *)
(* permanent process, the crash worker.                                   *)
LaunchDetached(p) ==
    /\ MainAt("loop") \/ MainAt("sweep")
    /\ Unused(p)
    /\ proc' = [proc EXCEPT ![p] = "alive"]
    /\ UNCHANGED <<queue, core_pipe, thread, sig>>

(* core_pipe_cb: one message per wakeup. *)
ReadRun ==
    /\ MainAt("loop")
    /\ core_pipe # <<>>
    /\ Head(core_pipe).type = "RUN"
    /\ core_pipe' = Tail(core_pipe)
    /\ cur' = calls + 1
    /\ pc' = "sweep"
    /\ UNCHANGED <<queue, ret, proc, sig>>

(* ss_run_queue_del_bypid frees every entry with that pid. *)
ReadClear ==
    /\ MainAt("loop")
    /\ core_pipe # <<>>
    /\ Head(core_pipe).type = "CLEAR"
    /\ core_pipe' = Tail(core_pipe)
    /\ state' = [i \in Calls |->
                    IF forked_pid[i] = Head(core_pipe).pid THEN "free" ELSE state[i]]
    /\ UNCHANGED <<calls, forked_pid, thread, proc, sig>>

(* Mutants: the walk skips an entry; it runs entries that already run. *)
AheadSkipsOne  == {i \in Calls : i < cur - 1 /\ state[i] = "INIT"}
AheadOfAnyState == {i \in Calls : i < cur /\ state[i] # "free"}

(* The INIT entries the sweep has not passed, and the first it meets. *)
Ahead     == {i \in Calls : i < cur /\ state[i] = "INIT"}
IsNext(i) == i \in Ahead /\ \A j \in Ahead : j <= i

(* _ss_core_action_run up to the return of predefine_action with r. *)
Run(r, label) ==
    /\ MainAt("sweep")
    /\ \E i \in Calls : /\ IsNext(i)
                        /\ state' = [state EXCEPT ![i] = "RUNNING"]
                        /\ cur' = i
    /\ ret' = r
    /\ pc' = label
    /\ UNCHANGED <<calls, forked_pid, core_pipe, sig>>

RunFast     == Run(NoPid, "finish") /\ UNCHANGED proc
RunExisting == Run(InitPid, "probe") /\ UNCHANGED proc
RunFork(p)  == /\ Run(p, "probe")
               /\ Unused(p)
               /\ proc' = [proc EXCEPT ![p] = "alive"]

SweepEnd ==
    /\ MainAt("sweep")
    /\ Ahead = {}
    /\ pc' = "loop"
    /\ UNCHANGED <<queue, core_pipe, cur, ret, proc, sig>>

(* access("/proc/<ret>/status"): init and zombies have one. *)
HasStatus(p) == p = InitPid \/ (p \in Pids /\ proc[p] # "free")

Probe ==
    /\ MainAt("probe")
    /\ pc' = IF HasStatus(ret) THEN "store" ELSE "finish"
    /\ UNCHANGED <<queue, core_pipe, cur, ret, proc, sig>>

Store ==
    /\ MainAt("store")
    /\ forked_pid' = [forked_pid EXCEPT ![cur] = ret]
    /\ pc' = "sweep"
    /\ UNCHANGED <<calls, state, core_pipe, cur, ret, proc, sig>>

(* Mutant: fast_done does not write the CLEAR message. *)
FinishWithoutClear ==
    /\ MainAt("finish")
    /\ forked_pid' = [forked_pid EXCEPT ![cur] = FastPid]
    /\ state' = [state EXCEPT ![cur] = "DONE"]
    /\ pc' = "sweep"
    /\ UNCHANGED <<calls, core_pipe, cur, ret, proc, sig>>

Finish ==
    /\ MainAt("finish")
    /\ forked_pid' = [forked_pid EXCEPT ![cur] = FastPid]
    /\ state' = [state EXCEPT ![cur] = "DONE"]
    /\ pc' = "clear"
    /\ UNCHANGED <<calls, core_pipe, cur, ret, proc, sig>>

ClearSelf ==
    /\ MainAt("clear")
    /\ Write(ClearMsg(FastPid))
    /\ pc' = "sweep"
    /\ UNCHANGED <<queue, cur, ret, proc, sig>>

----------------------------------------------------------------------------
(* The children and the kernel. SIGCHLD is a standard signal: while one    *)
(* is pending, further ones are dropped.                                  *)
Raise(p) == sigchld' = IF sigchld = NoPid THEN p ELSE sigchld

Exit(p) ==
    /\ proc[p] = "alive"
    /\ proc' = [proc EXCEPT ![p] = "zombie"]
    /\ Raise(p)
    /\ UNCHANGED <<queue, core_pipe, thread, hpc, hpid>>

Stop(p) ==
    /\ MayStop
    /\ proc[p] = "alive"
    /\ Raise(p)
    /\ UNCHANGED <<queue, core_pipe, thread, proc, hpc, hpid>>

(* sig_child_handler; SIGCHLD is blocked while it runs. *)
Deliver ==
    /\ hpc = "none"
    /\ sigchld # NoPid
    /\ hpc' = "reap"
    /\ hpid' = sigchld
    /\ sigchld' = NoPid
    /\ UNCHANGED <<queue, core_pipe, thread, proc>>

(* Mutants: the reaped child is not reported; waitpid with WNOHANG. *)
ReapSilently ==
    /\ hpc = "reap"
    /\ proc[hpid] = "zombie"
    /\ proc' = [proc EXCEPT ![hpid] = "free"]
    /\ hpc' = "none"
    /\ UNCHANGED <<queue, core_pipe, thread, sigchld, hpid>>
ReapWithoutWaiting ==
    /\ hpc = "reap"
    /\ proc[hpid] # "free"
    /\ proc' = IF proc[hpid] = "zombie" THEN [proc EXCEPT ![hpid] = "free"] ELSE proc
    /\ hpc' = "report"
    /\ UNCHANGED <<queue, core_pipe, thread, sigchld, hpid>>

(* waitpid(info->si_pid, &status, 0) waits for a child that only stopped. *)
Reap ==
    /\ hpc = "reap"
    /\ proc[hpid] = "zombie"
    /\ proc' = [proc EXCEPT ![hpid] = "free"]
    /\ hpc' = "report"
    /\ UNCHANGED <<queue, core_pipe, thread, sigchld, hpid>>

ReapFails ==
    /\ hpc = "reap"
    /\ proc[hpid] = "free"
    /\ hpc' = "none"
    /\ hpid' = NoPid
    /\ UNCHANGED <<queue, core_pipe, thread, proc, sigchld>>

Report ==
    /\ hpc = "report"
    /\ Write(ClearMsg(hpid))
    /\ hpc' = "none"
    /\ hpid' = NoPid
    /\ UNCHANGED <<queue, thread, proc, sigchld>>

----------------------------------------------------------------------------
RunEntry == RunFast \/ RunExisting \/ \E p \in Pids : RunFork(p)

(* What the main thread does without anybody calling. *)
Main == \/ Wake \/ ReadRun \/ ReadClear \/ RunEntry \/ SweepEnd
        \/ Probe \/ Store \/ Finish \/ ClearSelf

Handler == Deliver \/ Reap \/ ReapFails \/ Report

Next == \/ Call
        \/ Main
        \/ Handler
        \/ \E p \in Pids : LaunchDetached(p) \/ Exit(p) \/ Stop(p)

Spec == Init /\ [][Next]_vars

(* The thread and the signal handler are scheduled; nobody has to call,    *)
(* and no child has to exit.                                              *)
FairSpec == Spec /\ WF_vars(Main) /\ WF_vars(Handler)
----------------------------------------------------------------------------
(* A called action is never forgotten: a RUN message is on its way, or is  *)
(* about to be written, or the sweep under way will still meet the entry.  *)
NoLostWakeup ==
    \A i \in Calls : state[i] = "INIT" =>
        \/ InPipe(RunMsg)
        \/ pc = "wake"
        \/ pc # "loop" /\ i < cur

(* An entry that is done has the CLEAR that frees it under way. *)
DoneWillBeCleared ==
    \A i \in Calls : state[i] = "DONE" => InPipe(ClearMsg(FastPid)) \/ pc = "clear"

(* The pid an entry is tied to, also before forked_pid is assigned. *)
PidOf(i) == IF i = cur /\ pc \in {"probe", "store"} THEN ret ELSE forked_pid[i]

(* Once the child an entry waits for was reaped, the CLEAR that frees the   *)
(* entry is under way, wherever the exit hit the main thread: also between *)
(* fork and access, and between access and the assignment of forked_pid    *)
(* (ss_core.c:45-53).  Between "probe" and a failing access the entry is   *)
(* instead on its way to fast_done.                                       *)
DeadChildWillBeCleared ==
    \A i \in Calls :
        state[i] = "RUNNING" /\ PidOf(i) \in Pids /\ proc[PidOf(i)] = "free" =>
            \/ InPipe(ClearMsg(PidOf(i)))
            \/ hpc = "report" /\ hpid = PidOf(i)

(* An entry is freed only when its action is over: never before it ran, and *)
(* never under a child that still exists (ss_run_queue_del_bypid).        *)
FreedOnlyWhenOver ==
    [][\A i \in Calls :
          state[i] # "free" /\ state'[i] = "free" =>
              \/ state[i] = "DONE"
              \/ /\ state[i] = "RUNNING"
                 /\ forked_pid[i] \in Pids
                 /\ proc[forked_pid[i]] = "free"]_vars

(* The handler waits for a child that was stopped and does not go on. *)
BlockedForever == <>[](hpc = "reap" /\ proc[hpid] = "alive")

(* Every accepted call is started, whatever the children do, unless one that *)
(* is stopped and never exits blocks the handler (ss_sig_handler.c:43).    *)
EveryCallStarts ==
    ~BlockedForever => \A i \in Calls : state[i] = "INIT" ~> state[i] # "INIT"

(* A call that left no process, or whose process was reaped, is freed, with  *)
(* the same exception.                                                    *)
EveryEndedCallIsFreed ==
    ~BlockedForever => \A i \in Calls :
        (\/ state[i] = "DONE"
         \/ state[i] = "RUNNING" /\ forked_pid[i] \in Pids /\ proc[forked_pid[i]] = "free")
            ~> state[i] = "free"

----------------------------------------------------------------------------
(* The inductive invariant behind the properties.                          *)
EntryShape ==
    \A i \in Calls :
        /\ i > calls => state[i] = "free"
        /\ state[i] = "INIT" => forked_pid[i] = NoPid
        /\ state[i] = "DONE" => forked_pid[i] = FastPid
        /\ state[i] = "RUNNING" => forked_pid[i] # FastPid

CursorShape ==
    /\ cur <= calls + 1 \/ pc \in {"loop", "wake"}
    /\ pc \in {"probe", "store", "finish"} =>
           cur \in Calls /\ state[cur] = "RUNNING" /\ forked_pid[cur] = NoPid
    /\ pc \in {"probe", "store"} => ret # NoPid

SignalShape ==
    /\ hpc = "report" => proc[hpid] = "free"
    /\ \A p \in Pids : InPipe(ClearMsg(p)) => proc[p] = "free"

(* No two entries wait for the same child. *)
OneEntryPerChild ==
    \A i, j \in Calls :
        state[i] = "RUNNING" /\ state[j] = "RUNNING"
          /\ PidOf(i) \in Pids /\ PidOf(i) = PidOf(j) => i = j

(* Everything at once: what every step of Next preserves. *)
IInv == /\ TypeOK
        /\ EntryShape
        /\ CursorShape
        /\ SignalShape
        /\ NoLostWakeup
        /\ DoneWillBeCleared
        /\ DeadChildWillBeCleared
        /\ OneEntryPerChild
----------------------------------------------------------------------------
(* The refinement mapping to what the callers are promised. *)
statusBar == [i \in Calls |->
                 IF i > calls THEN "idle"
                 ELSE IF state[i] = "free" THEN "retired"
                 ELSE IF state[i] = "INIT" THEN "queued" ELSE "started"]
busyBar   == {i \in Calls : /\ state[i] = "RUNNING"
                            /\ PidOf(i) \in Pids
                            /\ proc[PidOf(i)] # "free"}

Service == INSTANCE ActionService WITH Calls <- Calls, status <- statusBar, busy <- busyBar

(* What ss_queue.c and ss_core.c do is what ActionService promises. *)
ImplementsService == Service!Spec
=============================================================================
