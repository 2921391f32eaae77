--------------------------- MODULE BridgeMessages ---------------------------
(***************************************************************************)
(* The messages of one session in the OpenWA bridge: the callbacks of      *)
(* SessionService that store and announce them, MessageService's sends,    *)
(* and the delivery of webhooks (OpenWA/src/modules: session, message,     *)
(* webhook, queue).                                                        *)
(*                                                                         *)
(* The engine reports messages, receipts, deletions and reactions in any   *)
(* order and more than once; every handler runs beside the others and      *)
(* meets them in the messages table only.  TypeORM's save(entity) writes   *)
(* all columns of the entity it was given, update() only those it names.   *)
(* One webhook listens to everything.                                      *)
(***************************************************************************)
EXTENDS Naturals, Sequences, SequencesExt

CONSTANTS
    In, Out,      \* messages from customers, messages sent through the API
    Sender,       \* who reacts to a message
    None,
    MaxAttempts,  \* retryCount of the webhook
    MaxEvents,    \* bound: events the engine reports
    MaxFaults     \* bound: database errors, slow saves, restarts

ASSUME BridgeAssumption ==
    In \cap Out = {} /\ MaxAttempts \in Nat \ {0} /\ MaxEvents \in Nat /\ MaxFaults \in Nat

VARIABLES
    row,       \* row[m]: the row of messages, None if there is none
    send,      \* send[m]: where the API call that sends m stands
    arriving,  \* arriving[m]: onMessage handlers behind the message:received hook
    inserted,  \* messages whose insert went through and whose handler is not back yet
    unseen,    \* what a running history import found missing
    acks,      \* receipts whose UPDATE, or second UPDATE, is to come
    acked,     \* acked[m]: receipts taken and not lost to a fault
    chain,     \* reactionChains: reactions to m, each with the row it has read
    stale,     \* messages whose row a reaction overwrote with older values
    queue,     \* is the webhook queue (Redis) enabled?
    job,       \* job[<<m, n>>]: the n-th message.received event of m
    tries,     \* attempts made for it
    opened,    \* messages announced although storing them failed
    events, faults

rowVars == <<row, send, acks, acked, chain, stale>>
liveVars == <<arriving, inserted, unseen, opened>>
jobVars == <<queue, job, tries>>
vars == <<rowVars, liveVars, jobVars, events, faults>>

Msg == In \cup Out
Job == In \X (1 .. MaxFaults + 1)
Status == {"PENDING", "SENT", "DELIVERED", "READ", "FAILED"}
Row == [named : BOOLEAN, status : Status, revoked : BOOLEAN, reactions : SUBSET Sender]
Over == {"done", "error", "lost", "cancelled"}

ASSUME NoneAssumption == None \notin Row

\* A row as it is first saved; named: its waMessageId is set.
New(named, s) == [named |-> named, status |-> s, revoked |-> FALSE, reactions |-> {}]

\* The row after an insert of m that leaves an existing one alone.
InsertOrIgnore(m) == IF row[m] = None THEN New(TRUE, "SENT") ELSE row[m]

\* UPDATE ... WHERE waMessageId finds the row.
Named(m) == row[m] # None /\ row[m].named

Init ==
    /\ row = [m \in Msg |-> None]
    /\ send = [m \in Out |-> "idle"]
    /\ arriving = [m \in In |-> 0]
    /\ inserted = {} /\ unseen = {} /\ opened = {} /\ acks = {} /\ stale = {}
    /\ acked = [m \in Out |-> {}]
    /\ chain = [m \in Msg |-> <<>>]
    /\ queue \in BOOLEAN
    /\ job = [j \in Job |-> "none"]
    /\ tries = [j \in Job |-> 0]
    /\ events = 0 /\ faults = 0

Event == events < MaxEvents /\ events' = events + 1 /\ UNCHANGED faults
Fault == faults < MaxFaults /\ faults' = faults + 1 /\ UNCHANGED events
NoFault == UNCHANGED <<events, faults>>

-----------------------------------------------------------------------------
(* Messages from customers *)

\* onMessage up to its hook; the engine may report one message again.
OnMessage(m) ==
    /\ Event
    /\ arriving' = [arriving EXCEPT ![m] = @ + 1]
    /\ UNCHANGED <<rowVars, inserted, unseen, opened, jobVars>>

\* webhookService.dispatch: the next event of m begins with the webhook lookup.
Dispatch(m) ==
    \E n \in 1 .. MaxFaults + 1 :
        /\ job[<<m, n>>] = "none" /\ \A k \in 1 .. n - 1 : job[<<m, k>>] # "none"
        /\ job' = [job EXCEPT ![<<m, n>>] = "lookup"]

\* Mutant of IsNew: the outcome of the insert is not looked at.
IsNewAlways(m) == TRUE

\* UNIQUE(sessionId, waMessageId): the insert is the test for a re-fired event.
IsNew(m) == row[m] = None

\* The hook is through: a plugin stops the message, or it is inserted, or it is
\* a duplicate, or the insert fails for another reason and it goes on unstored.
Insert(m) ==
    /\ arriving[m] > 0
    /\ arriving' = [arriving EXCEPT ![m] = @ - 1]
    /\ \/ NoFault /\ UNCHANGED <<row, inserted, opened, job>>
       \/ /\ NoFault /\ IsNew(m)
          /\ row' = [row EXCEPT ![m] = InsertOrIgnore(m)]
          /\ inserted' = inserted \cup {m}
          /\ UNCHANGED <<opened, job>>
       \/ /\ Fault /\ Dispatch(m)
          /\ opened' = opened \cup {m}
          /\ UNCHANGED <<row, inserted>>
    /\ UNCHANGED <<send, acks, acked, chain, stale, unseen, queue, tries>>

\* The handler of the insert resumes and announces the message.
Announce(m) ==
    /\ m \in inserted
    /\ inserted' = inserted \ {m}
    /\ Dispatch(m)
    /\ UNCHANGED <<rowVars, arriving, unseen, opened, queue, tries, events, faults>>

\* persistHistoryMessages: what is missing is read first ...
HistorySelect ==
    /\ unseen = {} /\ Event
    /\ unseen' = {m \in In : row[m] = None}
    /\ UNCHANGED <<rowVars, arriving, inserted, opened, jobVars>>

\* ... and inserted, a row that came meanwhile left alone; nothing is announced.
HistoryInsert ==
    /\ unseen # {}
    /\ row' = [m \in Msg |-> IF m \in unseen THEN InsertOrIgnore(m) ELSE row[m]]
    /\ unseen' = {}
    /\ UNCHANGED <<send, acks, acked, chain, stale, arriving, inserted, opened, jobVars, events, faults>>

-----------------------------------------------------------------------------
(* Messages sent through the API *)

SetSend(m, s) ==
    /\ send' = [send EXCEPT ![m] = s]
    /\ UNCHANGED <<acks, acked, chain, stale, liveVars, jobVars>>

\* The row is saved as PENDING, without an id, before the engine is called.
SendMessage(m) ==
    /\ send[m] = "idle" /\ Event
    /\ row' = [row EXCEPT ![m] = New(FALSE, "PENDING")]
    /\ SetSend(m, "engine")

\* WhatsApp has the message; the call is not back yet.
EngineSends(m) ==
    /\ send[m] = "engine" /\ NoFault
    /\ SetSend(m, "sent") /\ UNCHANGED row

EngineRefuses(m) ==
    /\ send[m] = "engine" /\ NoFault
    /\ row' = [row EXCEPT ![m].status = "FAILED"]
    /\ SetSend(m, "failed")

\* The second save brings the id and SENT.  If it fails, the same entity goes in
\* as FAILED.
SaveSent(m) ==
    /\ send[m] = "sent"
    /\ \/ NoFault /\ row' = [row EXCEPT ![m].named = TRUE, ![m].status = "SENT"] /\ SetSend(m, "done")
       \/ Fault /\ row' = [row EXCEPT ![m].named = TRUE, ![m].status = "FAILED"] /\ SetSend(m, "failed")

-----------------------------------------------------------------------------
(* Receipts, deletions, reactions *)

\* onMessageAck for a message WhatsApp has.
OnMessageAck(m, s) ==
    /\ send[m] \in {"sent", "done"} /\ Event
    /\ acks' = acks \cup {[msg |-> m, to |-> s, again |-> FALSE]}
    /\ acked' = [acked EXCEPT ![m] = @ \cup {s}]
    /\ UNCHANGED <<row, send, chain, stale, liveVars, jobVars>>

\* Mutant of TransitionFrom: a late receipt overwrites whatever is stored.
TransitionFromAny(s) == Status

\* ackStatusTransitionFrom
TransitionFrom(s) ==
    {"PENDING", "SENT"} \cup (IF s = "READ" THEN {"DELIVERED"} ELSE {})

\* Mutant of NoRow: the receipt is given up when the first UPDATE finds no row.
GiveUp(a) == acks' = acks \ {a}

\* No row was advanced: once more after ACK_RECONCILE_DELAY_MS, then no more.
NoRow(a) ==
    acks' = (acks \ {a}) \cup (IF a.again THEN {} ELSE {[a EXCEPT !.again = TRUE]})

\* The UPDATE of receipt a.  The second one comes after the send's own save
\* unless that takes longer than the delay, which counts as a fault.
AdvanceAck(a) ==
    LET m == a.msg
        slow == a.again /\ send[m] = "sent"
    IN  /\ IF slow THEN Fault ELSE NoFault
        /\ IF Named(m) /\ row[m].status \in TransitionFrom(a.to)
           THEN row' = [row EXCEPT ![m].status = a.to] /\ acks' = acks \ {a}
           ELSE NoRow(a) /\ UNCHANGED row
        /\ acked' = IF slow THEN [acked EXCEPT ![m] = @ \ {a.to}] ELSE acked
        /\ UNCHANGED <<send, chain, stale, liveVars, jobVars>>

\* onMessageRevoked: body and type of the stored message are replaced.
OnMessageRevoked(m) ==
    /\ Named(m) /\ Event
    /\ row' = [row EXCEPT ![m].revoked = TRUE]
    /\ UNCHANGED <<send, acks, acked, chain, stale, liveVars, jobVars>>

\* onMessageReaction: s reacts, or takes the reaction back.
OnMessageReaction(m, s, on) ==
    /\ Event
    /\ chain' = [chain EXCEPT ![m] = Append(@, [by |-> s, on |-> on, read |-> None])]
    /\ UNCHANGED <<row, send, acks, acked, stale, liveVars, jobVars>>

\* The chain: a reaction starts when the one before it has ended.
MyTurn(m, i) == i = 1

With(set, e) == IF e.on THEN set \cup {e.by} ELSE set \ {e.by}

\* applyReaction reads the row; it gives up if there is none.
ReactionReads(m, i) ==
    LET e == chain[m][i] IN
    /\ MyTurn(m, i) /\ e.read = None
    /\ IF Named(m)
       THEN chain' = [chain EXCEPT ![m][i].read = row[m]]
       ELSE chain' = [chain EXCEPT ![m] = RemoveAt(@, i)]
    /\ UNCHANGED <<row, send, acks, acked, stale, liveVars, jobVars, events, faults>>

\* ... and saves all of it.
ReactionSaves(m, i) ==
    LET e == chain[m][i] IN
    /\ e.read # None
    /\ row' = [row EXCEPT ![m] = [e.read EXCEPT !.reactions = With(@, e)]]
    /\ stale' = IF <<e.read.status, e.read.revoked>> # <<row[m].status, row[m].revoked>>
                THEN stale \cup {m} ELSE stale
    /\ chain' = [chain EXCEPT ![m] = RemoveAt(@, i)]
    /\ UNCHANGED <<send, acks, acked, liveVars, jobVars, events, faults>>

-----------------------------------------------------------------------------
(* Webhooks *)

\* The webhook is looked up and the event queued (or delivered directly), unless
\* a plugin cancels it; a failing lookup or queue loses it.
Queue(j) ==
    /\ job[j] = "lookup"
    /\ \/ \E s \in {"queued", "cancelled"} : job' = [job EXCEPT ![j] = s] /\ NoFault
       \/ job' = [job EXCEPT ![j] = "lost"] /\ Fault
    /\ UNCHANGED <<rowVars, liveVars, queue, tries>>

\* isFinalAttempt, also of deliverWebhook.
LastAttempt(j) == tries[j] + 1 >= MaxAttempts

\* One POST.  It counts as failed when the endpoint refuses or does not answer in
\* time, and when recording the delivery fails, which is after the endpoint has it.
Attempt(j) ==
    /\ job[j] = "queued"
    /\ tries' = [tries EXCEPT ![j] = @ + 1]
    /\ \E ok \in BOOLEAN :
          job' = [job EXCEPT ![j] = IF ok THEN "done" ELSE IF LastAttempt(j) THEN "error" ELSE "queued"]
    /\ UNCHANGED <<rowVars, liveVars, queue, events, faults>>

\* The bridge restarts: handlers and timers are gone, the queue's jobs are not.
Restart ==
    /\ Fault
    /\ arriving' = [m \in In |-> 0]
    /\ send' = [m \in Out |-> IF send[m] \in {"engine", "sent"} THEN "cut" ELSE send[m]]
    /\ acked' = [m \in Out |-> acked[m] \ {a.to : a \in {b \in acks : b.msg = m}}]
    /\ acks' = {} /\ unseen' = {} /\ inserted' = {}
    /\ chain' = [m \in Msg |-> <<>>]
    /\ job' = [j \in Job |->
                 IF job[j] = "lookup" \/ (job[j] = "queued" /\ ~queue) \/ (j[1] \in inserted /\ j[2] = 1)
                 THEN "lost" ELSE job[j]]
    /\ UNCHANGED <<row, stale, opened, queue, tries>>

-----------------------------------------------------------------------------
EngineReports ==
    \/ \E m \in In : OnMessage(m)
    \/ HistorySelect
    \/ \E m \in Out : SendMessage(m) \/ \E s \in {"DELIVERED", "READ", "FAILED"} : OnMessageAck(m, s)
    \/ \E m \in Msg : OnMessageRevoked(m) \/ \E s \in Sender, on \in BOOLEAN : OnMessageReaction(m, s, on)

HandlersGoOn ==
    \/ \E m \in In : Insert(m) \/ Announce(m)
    \/ HistoryInsert
    \/ \E m \in Out : EngineSends(m) \/ EngineRefuses(m) \/ SaveSent(m)
    \/ \E a \in acks : AdvanceAck(a)
    \/ \E m \in Msg : \E i \in DOMAIN chain[m] : ReactionReads(m, i) \/ ReactionSaves(m, i)

Deliver(j) == Queue(j) \/ Attempt(j)

Next == EngineReports \/ HandlersGoOn \/ (\E j \in Job : Deliver(j)) \/ Restart

Spec == Init /\ [][Next]_vars

-----------------------------------------------------------------------------
\* The variables have their types.
TypeOK ==
    /\ row \in [Msg -> Row \cup {None}]
    /\ send \in [Out -> {"idle", "engine", "sent", "done", "failed", "cut"}]
    /\ arriving \in [In -> 0 .. MaxEvents]
    /\ inserted \cup unseen \cup opened \subseteq In
    /\ acks \subseteq [msg : Out, to : Status, again : BOOLEAN]
    /\ acked \in [Out -> SUBSET Status]
    /\ \A m \in Msg : Len(chain[m]) <= MaxEvents
    /\ stale \subseteq Msg /\ queue \in BOOLEAN
    /\ job \in [Job -> Over \cup {"none", "lookup", "queued"}]
    /\ tries \in [Job -> 0 .. MaxAttempts]

\* onMessage, "persist + webhook + WS happen exactly once": an event reported
\* again, or racing the history import, is not announced a second time.  Only a
\* message that could not be stored may be.
AnnouncedOnce ==
    \A m \in In : \A n \in 2 .. MaxFaults + 1 : job[<<m, n>>] # "none" => m \in opened

\* onMessageAck, "delivery state only ADVANCES": however receipts and saves are
\* ordered, no step takes a stored status back and none brings a deleted message
\* back, the save of a reaction excepted.
OnlyAdvances ==
    [][\A m \in Msg : row[m] # None /\ m \notin stale' =>
          /\ row[m].status = row'[m].status \/ row[m].status \in {"PENDING", "SENT"}
             \/ <<row[m].status, row'[m].status>> = <<"DELIVERED", "READ">>
          /\ row'[m].status = "PENDING" => row[m].status = "PENDING"
          /\ row[m].revoked => row'[m].revoked]_vars

\* onMessageAck's second UPDATE "to close that race rather than leave it stuck at
\* SENT": a receipt that arrives before the send has stored the message's id is
\* not lost, and of several the furthest stands.
NoAckLost ==
    \A m \in Out \ stale :
        send[m] = "done" /\ row[m].status # "FAILED" /\ (\A a \in acks : a.msg # m) =>
            /\ "READ" \in acked[m] => row[m].status = "READ"
            /\ acked[m] = {"DELIVERED"} => row[m].status \in {"DELIVERED", "READ"}
=============================================================================
