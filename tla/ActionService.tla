--------------------------- MODULE ActionService ---------------------------
(***************************************************************************)
(* What system_server promises a caller of a predefined action             *)
(* (ss_action_entry_call, ss_action_entry_call_internal): an accepted call *)
(* is started exactly once, and its record is thrown away only after it    *)
(* was started and only when no process launched for it is left.  How the  *)
(* calls travel (a linked list, a pipe to oneself, a signal handler) is    *)
(* the business of RunQueue, which is checked against this module.         *)
(***************************************************************************)
EXTENDS Integers

CONSTANT Calls      \* the calls of predefined actions that may be made

VARIABLES status,   \* where each call stands
          busy      \* the started calls whose own process still exists

vars == <<status, busy>>

TypeOK == /\ status \in [Calls -> {"idle", "queued", "started", "retired"}]
          /\ busy \subseteq {i \in Calls : status[i] = "started"}

Init == /\ status = [i \in Calls |-> "idle"]
        /\ busy = {}

Accept(i) == /\ status[i] = "idle"
             /\ status' = [status EXCEPT ![i] = "queued"]
             /\ UNCHANGED busy

(* Starting a call may leave a process behind. *)
Start(i) == /\ status[i] = "queued"
            /\ status' = [status EXCEPT ![i] = "started"]
            /\ busy' \in {busy, busy \cup {i}}

ProcessGone(i) == /\ i \in busy
                  /\ busy' = busy \ {i}
                  /\ UNCHANGED status

(* Any number of calls that have nothing left to wait for go at once. *)
Retire == \E S \in SUBSET {i \in Calls \ busy : status[i] = "started"} :
            /\ S # {}
            /\ status' = [i \in Calls |-> IF i \in S THEN "retired" ELSE status[i]]
            /\ UNCHANGED busy

Next == \/ \E i \in Calls : Accept(i) \/ Start(i) \/ ProcessGone(i)
        \/ Retire

Spec == Init /\ [][Next]_vars
=============================================================================
