-------------------------------- MODULE Pmon --------------------------------
(****************************************************************************)
(* Permanent processes (ss_pmon_handler.c).  /tmp/permanent/<pid> holds the *)
(* command line of a process that is to be launched again when it dies.     *)
(* The process monitor of the kernel (external) reports the death of a      *)
(* process it watches.  pmon_process launches the command, gives the new    *)
(* process a file of its own, has it watched, protects it from the          *)
(* out-of-memory killer and removes the old file, step after step.          *)
(****************************************************************************)
EXTENDS Naturals, Sequences

CONSTANTS
    Pids,      \* the process ids there are
    Programs,  \* the permanent programs
    MaxDeaths  \* bound: deaths not yet reported

None == "none"
Mixed == "mixed"  \* a command line with the end of another behind it

VARIABLES
    proc,      \* what runs under each pid, or None
    file,      \* what each file says, or None: there is no such file
    watched,   \* the processes whose death is reported
    deaths,    \* the reports on their way, oldest first
    adopting,  \* <<pid, new_pid>> while pmon_process is at it, or <<>>
    spoiled    \* history: programs something has gone wrong with

vars == <<proc, file, watched, deaths, adopting, spoiled>>

TypeOK ==
    /\ {proc, file} \subseteq [Pids -> Programs \union {None, Mixed}]
    /\ watched \subseteq {p \in Pids : proc[p] # None}
    /\ deaths \in Seq(Pids) /\ Len(deaths) <= MaxDeaths
    /\ adopting \in {<<>>} \union (Pids \X Pids)
    /\ spoiled \subseteq Programs

(* Every program runs, watched, with its file. *)
Init ==
    /\ proc \in [Pids -> Programs \union {None}]
    /\ \A g \in Programs : \E p \in Pids :
          proc[p] = g /\ \A q \in Pids : proc[q] = g => q = p
    /\ file = proc
    /\ watched = {p \in Pids : proc[p] # None}
    /\ deaths = <<>> /\ adopting = <<>> /\ spoiled = {}
----------------------------------------------------------------------------
Spoil(contents) == spoiled' = spoiled \union (contents \intersect Programs)

(* A process dies; nobody hears of one that is not watched yet. *)
Die(p) ==
    /\ proc[p] # None
    /\ p \in watched => Len(deaths) < MaxDeaths
    /\ proc' = [proc EXCEPT ![p] = None]
    /\ watched' = watched \ {p}
    /\ deaths' = IF p \in watched THEN Append(deaths, p) ELSE deaths
    /\ Spoil(IF p \in watched THEN {} ELSE {proc[p]})
    /\ UNCHANGED <<file, adopting>>

(* Nothing is done for a VIP process or while the system hibernates, if    *)
(* there is no file, or if the launch fails.                               *)
Ignore(pid) ==
    /\ Spoil({file[pid]})
    /\ UNCHANGED <<proc, file, adopting>>

(* The new process has the pid of another file or of another report.        *)
Reused(pid, new_pid) ==
    \/ file[new_pid] \notin {None, file[pid]}
    \/ \E k \in 2..Len(deaths) : deaths[k] = new_pid

(* Launch what the file says, and write the file of the new process.  If   *)
(* there is a file of this name it is written over, not truncated.         *)
Relaunch(pid, new_pid) ==
    /\ file[pid] # None /\ proc[new_pid] = None
    /\ proc' = [proc EXCEPT ![new_pid] = file[pid]]
    /\ \/ /\ \E text \in IF file[new_pid] \in {None, file[pid]} THEN {file[pid]}
                         ELSE {file[pid], Mixed} :
                file' = [file EXCEPT ![new_pid] = text]
          /\ Spoil(IF Reused(pid, new_pid) THEN {file[pid], file[new_pid]} ELSE {})
          /\ adopting' = <<pid, new_pid>>
       \/ Spoil({file[pid]}) /\ UNCHANGED <<file, adopting>>  \* cannot copy

(* pmon_cb and the first half of pmon_process *)
PmonCb ==
    /\ adopting = <<>> /\ deaths # <<>>
    /\ deaths' = Tail(deaths)
    /\ \/ Ignore(Head(deaths))
       \/ \E new_pid \in Pids : Relaunch(Head(deaths), new_pid)
    /\ UNCHANGED watched

(* Mutant: the file of the new process is removed. *)
AdoptRemovesNew(pid, new_pid) ==
    /\ watched' \in {watched, watched \union {new_pid}}
    /\ watched' # watched => proc[new_pid] # None
    /\ file' \in {file, [file EXCEPT ![new_pid] = None]}
    /\ Spoil(IF pid = new_pid \/ new_pid \notin watched' THEN {file[new_pid]} ELSE {})

(* The second half.  The monitor may refuse the new process; if this is    *)
(* gone, oom_adj cannot be opened and the old file stays.                  *)
Adopt(pid, new_pid) ==
    /\ watched' \in {watched, watched \union {new_pid}}
    /\ watched' # watched => proc[new_pid] # None
    /\ file' \in {file, [file EXCEPT ![pid] = None]}
    /\ file' # file => proc[new_pid] # None
    /\ Spoil(IF pid = new_pid \/ new_pid \notin watched' THEN {file[new_pid]} ELSE {})

AdoptNew ==
    /\ adopting # <<>>
    /\ Adopt(adopting[1], adopting[2])
    /\ adopting' = <<>>
    /\ UNCHANGED <<proc, deaths>>

Next == PmonCb \/ AdoptNew \/ \E p \in Pids : Die(p)

Spec == Init /\ [][Next]_vars
----------------------------------------------------------------------------
(* The process that stands for the program: it runs and is watched, or its *)
(* death is reported or just being served; and its file says what it is.   *)
StandsFor(p, g) ==
    /\ file[p] = g
    /\ \/ proc[p] = g /\ (p \in watched \/ (adopting # <<>> /\ p = adopting[2]))
       \/ \E k \in 1..Len(deaths) : deaths[k] = p

(* There is one of them for each permanent program at any time: it is never *)
(* forgotten, and never launched twice.  Except: when a step of the launch  *)
(* fails or is skipped, when the new process dies before it is watched, or  *)
(* when it gets the pid of a file that is still there: of the dead process  *)
(* itself, of one whose death is still to be served, or one a failed step   *)
(* has left (pmon_process).                                                 *)
PermanentStays ==
    \A g \in Programs \ spoiled : \E p \in Pids :
        StandsFor(p, g) /\ \A q \in Pids : StandsFor(q, g) => q = p

(* The process under p is being looked after, and its death reported. *)
Kept(p) == proc[p] # None /\ (p \in watched \/ (adopting # <<>> /\ p = adopting[2]))
Reported(p) == \E k \in 1..Len(deaths) : deaths[k] = p
Spoiled(text) == text \notin Programs \ spoiled

(* A program nothing has gone wrong with is what the file of its process   *)
(* says, and no death of this pid is reported; a death is reported once.   *)
FilesAreRight ==
    /\ \A p \in Pids : Kept(p) =>
          \/ Spoiled(file[p]) /\ Spoiled(proc[p])
          \/ file[p] = proc[p] /\ ~Reported(p)
    /\ \A i, k \in 1..Len(deaths) :
          deaths[i] = deaths[k] /\ i # k => Spoiled(file[deaths[i]])

(* The pid pmon_process has served stands for nothing any more. *)
ServedIsOver ==
    adopting # <<>> =>
        LET pid == adopting[1] IN
        pid = adopting[2] \/ Spoiled(file[pid]) \/ ~StandsFor(pid, file[pid])

(* The inductive invariant. *)
IInv == TypeOK /\ FilesAreRight /\ ServedIsOver /\ PermanentStays
=============================================================================
