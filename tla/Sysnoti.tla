------------------------------ MODULE Sysnoti ------------------------------
(****************************************************************************)
(* Clients ask for predefined actions over a socket (ss_sysnoti.c).  The    *)
(* only thread accepts a connection, reads the request field by field, puts *)
(* the action into the run queue (ss_action_entry_call) and answers with    *)
(* one number; while it reads it does nothing else.  No read tells the end  *)
(* of the stream from data: the fields a client has not sent before it      *)
(* closed are whatever the memory held.                                     *)
(****************************************************************************)
(* A request is sent in four pieces: pid and command, type and path, argc,  *)
(* arguments.  What becomes of an accepted call is ActionService.           *)
(****************************************************************************)
EXTENDS Naturals, Sequences

CONSTANT Clients  \* each makes one request

Nobody == "nobody"
Pieces == 4
Type == 2   \* the piece with the type in it
Argc == 3   \* the piece with the number of arguments

VARIABLES
    kind,     \* what each client asks: see Kinds
    conn,     \* its end of the connection: "new", "open", "closed"
    sent,     \* how many pieces it has sent
    backlog,  \* the clients not yet accepted, in their order
    serving,  \* the client sysnoti_cb is at, or Nobody
    got,      \* how many of its pieces have been read
    answer,   \* what each was told: "accepted", "refused", or "none"
    died,     \* the daemon has crashed
    status, busy  \* of ActionService

socketVars == <<kind, conn, sent, backlog, serving, got, answer, died>>
vars == <<socketVars, status, busy>>

(* An action it may call, another request, one with an empty type, or too    *)
(* many arguments.                                                          *)
Kinds == {"call", "other", "notype", "toomany"}

Service == INSTANCE ActionService WITH Calls <- Clients

TypeOK ==
    /\ kind \in [Clients -> Kinds]
    /\ conn \in [Clients -> {"new", "open", "closed"}]
    /\ sent \in [Clients -> 0..Pieces]
    /\ backlog \in Seq(Clients)
    /\ serving \in Clients \union {Nobody}
    /\ got \in 0..Pieces
    /\ answer \in [Clients -> {"none", "accepted", "refused"}]
    /\ died \in BOOLEAN
    /\ Service!TypeOK

Init ==
    /\ kind \in [Clients -> Kinds]
    /\ conn = [c \in Clients |-> "new"] /\ sent = [c \in Clients |-> 0]
    /\ backlog = <<>> /\ serving = Nobody /\ got = 0
    /\ answer = [c \in Clients |-> "none"] /\ died = FALSE
    /\ Service!Init
----------------------------------------------------------------------------
(* Clients: they may stop at any point, or close. *)
Connect(c) ==
    /\ conn[c] = "new"
    /\ conn' = [conn EXCEPT ![c] = "open"]
    /\ backlog' = Append(backlog, c)
    /\ UNCHANGED <<kind, sent, serving, got, answer, died, status, busy>>

Send(c) ==
    /\ conn[c] = "open" /\ sent[c] < Pieces
    /\ sent' = [sent EXCEPT ![c] = @ + 1]
    /\ UNCHANGED <<kind, conn, backlog, serving, got, answer, died, status, busy>>

Close(c) ==
    /\ conn[c] = "open"
    /\ conn' = [conn EXCEPT ![c] = "closed"]
    /\ UNCHANGED <<kind, sent, backlog, serving, got, answer, died, status, busy>>
----------------------------------------------------------------------------
(* sysnoti_cb up to accept *)
Accept ==
    /\ ~died /\ serving = Nobody /\ backlog # <<>>
    /\ serving' = Head(backlog) /\ backlog' = Tail(backlog) /\ got' = 0
    /\ UNCHANGED <<kind, conn, sent, answer, died, status, busy>>

(* recv_int and recv_str of read_message: they wait for the next piece. *)
Read ==
    /\ serving # Nobody /\ got < sent[serving]
    /\ got' = got + 1
    /\ UNCHANGED <<kind, conn, sent, backlog, serving, answer, died, status, busy>>

(* What a request may come to of which this many pieces were there.  A type  *)
(* or path out of nowhere is NULL or matches nothing; argc out of nowhere is *)
(* any number, and one above SYSMAN_MAXARG is noticed after the arguments    *)
(* were stored behind the end of the message.  An empty type is NULL, which  *)
(* ss_action_entry_call compares with the first action it knows.             *)
Outcomes(c, n) ==
    IF n < Argc THEN
        {"refused", "died"} \union (IF n >= Type /\ kind[c] \in {"call", "toomany"}
                                   THEN {"accepted"} ELSE {})
    ELSE CASE kind[c] = "call"    -> {"accepted"}
           [] kind[c] = "other"   -> {"refused"}
           [] kind[c] = "notype"  -> {"died"}
           [] kind[c] = "toomany" -> {"refused", "died"}

(* Mutant: what has not come yet is taken for the end of the stream. *)
RequestOverAtOnce == got = Pieces \/ got = sent[serving]

(* Mutant: the connection is read until the client closes it. *)
RequestOverWhenClosed == conn[serving] = "closed" /\ got = sent[serving]

RequestOver == got = Pieces \/ (conn[serving] = "closed" /\ got = sent[serving])

(* The rest of sysnoti_cb, with ss_action_entry_call. *)
Answer ==
    /\ serving # Nobody /\ RequestOver
    /\ \E outcome \in Outcomes(serving, got) :
          /\ died' = (outcome = "died")
          /\ answer' = IF outcome = "died" THEN answer
                       ELSE [answer EXCEPT ![serving] = outcome]
          /\ IF outcome = "accepted" THEN Service!Accept(serving)
             ELSE UNCHANGED <<status, busy>>
    /\ serving' = Nobody
    /\ UNCHANGED <<kind, conn, sent, backlog, got>>

(* The thread gets to the run queue between two requests only. *)
RunQueue ==
    /\ ~died /\ serving = Nobody
    /\ Service!Retire \/ \E c \in Clients : Service!Start(c)
    /\ UNCHANGED socketVars

Gone == (\E c \in Clients : Service!ProcessGone(c)) /\ UNCHANGED socketVars

Daemon == Accept \/ Read \/ Answer

Next ==
    \/ \E c \in Clients : Connect(c) \/ Send(c) \/ Close(c)
    \/ Daemon \/ RunQueue \/ Gone

Spec == Init /\ [][Next]_vars

FairSpec == Spec /\ WF_vars(Daemon) /\ WF_vars(RunQueue)
----------------------------------------------------------------------------
Cut(c) == conn[c] = "closed" /\ sent[c] < Pieces

Answered(c) == answer[c] # "none"

(* However the pieces, the ends of streams and the reads cross, a client     *)
(* that sends a whole request with a type is told what holds of it.  Only a  *)
(* request that was cut, one with an empty type or one with too many         *)
(* arguments can stop the daemon, and none of another type or without one is *)
(* taken for a call.  Nobody is answered before a client that was accepted   *)
(* before him (read_message, sysnoti_cb, ss_action_entry_call).              *)
OnlyBadRequestsGoWrong ==
    /\ \A c \in Clients :
          /\ ~Cut(c) /\ kind[c] = "call" => answer[c] # "refused"
          /\ ~Cut(c) /\ kind[c] # "call" => answer[c] # "accepted"
          /\ (answer[c] = "accepted") = (status[c] # "idle")
          /\ answer[c] = "accepted" => kind[c] \in {"call", "toomany"} /\ sent[c] >= Type
    /\ died => \E c \in Clients : Cut(c) \/ kind[c] \in {"notype", "toomany"}
    /\ serving # Nobody => ~Answered(serving)
    /\ \A k \in 1..Len(backlog) : ~Answered(backlog[k])

(* The daemon waits for this client. *)
Stalled(c) == serving = c /\ got < Pieces /\ got = sent[c] /\ conn[c] = "open"

(* Every client in line is answered and every accepted call is started,     *)
(* unless the daemon crashes or one client, being served, neither sends the *)
(* rest of its request nor closes: then everything waits for it (recv_int   *)
(* and recv_str, called from the only thread).                              *)
OnlyAStalledClientBlocks ==
    \/ <>[](\E c \in Clients : Stalled(c))
    \/ \A c \in Clients :
          /\ conn[c] # "new" ~> Answered(c) \/ died
          /\ status[c] = "queued" ~> status[c] # "queued" \/ died

(* A client waits in one place, unanswered, and has sent what was read. *)
InLine ==
    /\ \A k \in 1..Len(backlog) :
          /\ conn[backlog[k]] # "new" /\ ~Answered(backlog[k]) /\ backlog[k] # serving
          /\ \A i \in 1..Len(backlog) : backlog[i] = backlog[k] => i = k
    /\ serving # Nobody =>
          conn[serving] # "new" /\ ~Answered(serving) /\ got <= sent[serving]
    /\ \A c \in Clients : conn[c] = "new" => ~Answered(c)

(* The inductive invariant. *)
IInv == TypeOK /\ InLine /\ OnlyBadRequestsGoWrong
=============================================================================
