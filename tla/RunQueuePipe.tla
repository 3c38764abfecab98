---------------------------- MODULE RunQueuePipe ----------------------------
(***************************************************************************)
(* How much waits in the pipe the daemon writes to itself.  RunQueue, with  *)
(* a history of the calls that came faster than the pipe was read.         *)
(***************************************************************************)
EXTENDS RunQueue

VARIABLE burst  \* the last so many calls: one that found core_pipe empty, and
                \* those after it that did not

pipeVars == <<vars, burst>>

PipeInit == Init /\ burst = 0

PipeNext ==
    /\ Next
    /\ burst' = IF calls' = calls THEN burst
                ELSE IF core_pipe = <<>> THEN 1 ELSE burst + 1

PipeSpec == PipeInit /\ [][PipeNext]_pipeVars
----------------------------------------------------------------------------
(* The thread or its handler waits for room in the pipe that only the       *)
(* thread reads (ss_core.c:77): it will not go on.                         *)
Blocked == /\ pc \in {"wake", "clear"} \/ hpc = "report"
           /\ Len(core_pipe) = PipeCap

(* core_pipe_cb reads one message each time it is called (ss_core.c:66-88), *)
(* a call of an action can write two, so calls that come faster than the   *)
(* pipe is read can fill it and the daemon then waits for itself.  It       *)
(* happens in no other way: only in a run of calls, none of which found the *)
(* pipe empty, that is long enough to fill it with two messages for each   *)
(* and one for each child; older calls have left nothing in the pipe.      *)
BlockedOnlyByBurst == Blocked => PipeCap < 2 * burst + Cardinality(Pids)

----------------------------------------------------------------------------
(* What is behind it, besides IInv of RunQueue.                            *)
(* How often a message waits in the pipe. *)
Count(m) == Cardinality({k \in 1..Len(core_pipe) : core_pipe[k] = m})

(* The calls of the burst; a RUN message of theirs has been read: the queue *)
(* is being run, or some entry of theirs was.                              *)
Recent == {i \in Calls : calls - burst < i /\ i <= calls}
Swept  == pc \notin {"loop", "wake"} \/ \E i \in Recent : state[i] # "INIT"
Over   == {i \in Recent : state[i] \in {"DONE", "free"}}

(* The calls before the burst were started, and the pipe holds nothing of   *)
(* those that are over.                                                    *)
BurstShape ==
    /\ \A i \in Calls \ Recent : state[i] \in {"RUNNING", "free"}
    /\ pc \in {"probe", "store", "finish"} => cur \in Recent

(* What the pipe can hold in a burst: of RUN messages one for each call,    *)
(* but for the first one once it was read; of the CLEAR messages of actions *)
(* that left no process one for each that is over; of the others one for   *)
(* each pid.                                                              *)
PipeShape ==
    /\ Count(RunMsg) + (IF pc = "wake" THEN 1 ELSE 0) + (IF Swept THEN 1 ELSE 0) <= burst
    /\ Count(ClearMsg(FastPid)) + (IF pc = "clear" THEN 1 ELSE 0) <= Cardinality(Over)
    /\ \A j, k \in 1..Len(core_pipe) :
          core_pipe[j] = core_pipe[k] /\ core_pipe[j] \notin {RunMsg, ClearMsg(FastPid)}
              => j = k
    /\ hpc = "report" => ~InPipe(ClearMsg(hpid))

PipeInv == IInv /\ burst \in 0..calls /\ BurstShape /\ PipeShape
=============================================================================
