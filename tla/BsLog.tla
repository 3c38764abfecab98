------------------------------- MODULE BsLog -------------------------------
(****************************************************************************)
(* Crash reports (ss_bs.c).  A crash handler (external) appends a line to   *)
(* /opt/bs/curbs.log; the daemon, told that the log has changed, launches a *)
(* worker for every line and then empties the log.  Nothing keeps the       *)
(* handlers out meanwhile: a line may come at any time, also in two pieces. *)
(* One handler writes at a time.  The log is not deleted.                   *)
(****************************************************************************)
EXTENDS Naturals, Sequences

CONSTANT Lines  \* the crashes to report, each a line

Nothing == "nothing"  \* no line is half written
Rest == "rest"        \* what is left of a line whose first half is gone

VARIABLES
    log,       \* the complete lines in the log
    partial,   \* the line whose first half is at the end of the log
    pending,   \* the line a handler has written half of
    changed,   \* the daemon will be told that the log has changed
    monitored, \* ecore_file_monitor_add has been called
    phase,     \* what launch_crash_worker is at, or "idle"
    pos,       \* how many lines this run of it has read
    ok,        \* ret of it: not -1
    reported,  \* how often a worker was launched for a line, up to 2
    written,   \* history: lines a handler has begun to write
    raced,     \* history: lines of which a part came while it was closing
    early,     \* history: lines written before the log was monitored
    failed     \* history: a worker or the emptying has failed

vars == <<log, partial, pending, changed, monitored, phase, pos, ok, reported,
          written, raced, early, failed>>

logVars == <<log, partial, pending>>
historyVars == <<reported, written, raced, early, failed>>

InLog == {log[k] : k \in 1..Len(log)} \union {partial}

TypeOK ==
    /\ log \in Seq(Lines \union {Rest})
    /\ {partial, pending} \subseteq Lines \union {Nothing}
    /\ phase \in {"reading", "emptying", "idle"}
    /\ pos \in 0..Len(log)
    /\ {changed, monitored, ok, failed} \subseteq BOOLEAN
    /\ reported \in [Lines -> 0..2]
    /\ written \union raced \union early \subseteq Lines

(* ss_bs_init: the log was there, perhaps with a line, and is read first.    *)
Init ==
    /\ \E l \in Lines : log \in {<<>>, <<l>>}
    /\ partial = Nothing /\ pending = Nothing
    /\ changed = FALSE /\ monitored = FALSE
    /\ phase = "reading" /\ pos = 0 /\ ok = FALSE
    /\ reported = [l \in Lines |-> 0]
    /\ raced = {} /\ early = InLog \ {Nothing} /\ written = early /\ failed = FALSE
----------------------------------------------------------------------------
(* A handler has changed the log with a part of line l. *)
Touch(l) ==
    /\ changed' = monitored
    /\ written' = written \union {l}
    /\ early' = IF monitored THEN early ELSE early \union {l}
    /\ raced' = IF phase = "emptying" THEN raced \union {l} ELSE raced
    /\ UNCHANGED <<monitored, phase, pos, ok, reported, failed>>

BeginLine(l) ==
    /\ pending = Nothing /\ l \notin written
    /\ pending' = l /\ partial' = l /\ UNCHANGED log
    /\ Touch(l)

EndLine(l) ==
    /\ pending = l
    /\ pending' = Nothing /\ partial' = Nothing
    /\ log' = Append(log, IF partial = l THEN l ELSE Rest)
    /\ Touch(l)
----------------------------------------------------------------------------
(* __bs_file_cb *)
BsFileCb ==
    /\ phase = "idle" /\ changed
    /\ changed' = FALSE
    /\ phase' = "reading" /\ pos' = 0 /\ ok' = FALSE
    /\ UNCHANGED <<logVars, monitored, historyVars>>

(* Mutant: the log is emptied after a failure as well. *)
StopReadingAlways(ret) ==
    /\ phase' = "emptying"
    /\ ok' = ret

(* The log is emptied if the last worker was launched. *)
StopReading(ret) ==
    /\ phase' = IF ret THEN "emptying" ELSE "idle"
    /\ ok' = ret

(* Mutant: one worker is launched for each report of a change. *)
WorkerOnce ==
    /\ reported' = [l \in Lines |-> IF l = log[pos + 1] /\ reported[l] < 2
                                    THEN reported[l] + 1 ELSE reported[l]]
    /\ ok' = TRUE /\ pos' = pos + 1
    /\ phase' = "idle" /\ UNCHANGED failed

(* A worker is launched for the next line, and the line counts as read.      *)
Worker ==
    /\ reported' = [l \in Lines |-> IF l = log[pos + 1] /\ reported[l] < 2
                                    THEN reported[l] + 1 ELSE reported[l]]
    /\ ok' = TRUE /\ pos' = pos + 1
    /\ UNCHANGED <<phase, failed>>

(* A rest without a blank in it: no worker is launched, and ret says still    *)
(* what it said before.                                                      *)
PassRest ==
    /\ log[pos + 1] = Rest
    /\ IF ok THEN pos' = pos + 1 /\ UNCHANGED <<phase, ok>>
       ELSE StopReading(FALSE) /\ UNCHANGED pos

ReadLine ==
    /\ phase = "reading" /\ pos < Len(log)
    /\ \/ Worker
       \/ StopReading(FALSE) /\ failed' = TRUE /\ UNCHANGED <<pos, reported>>
       \/ PassRest /\ UNCHANGED <<reported, failed>>
    /\ UNCHANGED <<logVars, changed, monitored, written, raced, early>>

(* The end of the log, or a line without its end. *)
ReadEnd ==
    /\ phase = "reading" /\ pos = Len(log)
    /\ StopReading(ok)
    /\ raced' = IF partial # Nothing THEN raced \union {partial} ELSE raced
    /\ UNCHANGED <<logVars, changed, monitored, pos, reported, written, early, failed>>

Empty ==
    /\ phase = "emptying"
    /\ phase' = "idle"
    /\ \/ /\ log' = <<>> /\ partial' = Nothing /\ pos' = 0
          /\ changed' = monitored /\ UNCHANGED failed
       \/ failed' = TRUE /\ UNCHANGED <<log, partial, pos, changed>>
    /\ UNCHANGED <<pending, monitored, ok, reported, written, raced, early>>

(* The rest of ss_bs_init. *)
Watch ==
    /\ ~monitored /\ phase = "idle"
    /\ monitored' = TRUE
    /\ UNCHANGED <<logVars, changed, phase, pos, ok, historyVars>>

Daemon == BsFileCb \/ ReadLine \/ ReadEnd \/ Empty \/ Watch

Next == Daemon \/ \E l \in Lines : BeginLine(l) \/ EndLine(l)

Spec == Init /\ [][Next]_vars

FairSpec == Spec /\ WF_vars(Daemon)
----------------------------------------------------------------------------
(* A line disappears from the log only after a worker was launched for it, *)
(* or a part of it came while the log was being emptied or its end was not *)
(* there when it was read; and a second worker is launched for a line only *)
(* after something has failed (launch_crash_worker).                       *)
NothingLostQuietly ==
    /\ \A l \in written : reported[l] > 0 \/ l \in InLog \union raced
    /\ ~failed => \A l \in Lines : reported[l] < 2

(* The log begins with the rest of a line. *)
RestFirst == log # <<>> /\ log[1] = Rest

(* A line written while the log is monitored is read in the end, whatever else *)
(* is appended meanwhile, unless it is caught by the emptying or something     *)
(* fails; nobody comes back to a line after a failure, nor to one that was     *)
(* appended before the log was monitored.  The one other way for a line to     *)
(* stay unread is the rest of a line that the emptying has cut: when the log   *)
(* begins with it for ever, every run stops there (launch_crash_worker,        *)
(* __bs_file_cb, ss_bs_init).                                                  *)
EveryCrashIsRead ==
    \/ <>[]RestFirst
    \/ \A l \in Lines :
          (l \in InLog /\ pending # l) ~>
              reported[l] > 0 \/ l \in raced \union early \/ failed

(* One handler writes, and what is in the log was written, once. *)
Writing ==
    /\ partial \in {Nothing, pending}
    /\ pending # Nothing => pending \in written /\ reported[pending] = 0
    /\ \A l \in Lines \ written : reported[l] = 0
    /\ \A k \in 1..Len(log) : log[k] # Rest =>
          /\ log[k] \in written \ {pending}
          /\ \A i \in 1..Len(log) : log[i] = log[k] => i = k

(* What is about to be removed has been read, or was caught by the emptying. *)
Removable ==
    /\ phase = "reading" =>
          \A k \in 1..pos : log[k] # Rest => reported[log[k]] > 0
    /\ phase = "emptying" =>
          /\ partial \in raced \union {Nothing}
          /\ \A k \in 1..Len(log) :
                log[k] # Rest => reported[log[k]] > 0 \/ log[k] \in raced

(* As long as nothing fails a line behind the reader is not yet reported, and *)
(* none is while nobody reads.                                                *)
Unreported ==
    ~failed =>
        /\ \A k \in 1..Len(log) : log[k] # Rest /\ reported[log[k]] > 0 =>
              k <= pos /\ phase # "idle"
        /\ phase = "reading" /\ ~ok => \A k \in 1..pos : log[k] = Rest

(* The inductive invariant. *)
IInv == TypeOK /\ Writing /\ Removable /\ Unreported /\ NothingLostQuietly
=============================================================================
