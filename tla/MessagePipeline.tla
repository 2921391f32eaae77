-------------------------- MODULE MessagePipeline ---------------------------
(***************************************************************************)
(* The path of a customer message through back: WhatsApp webhook, message  *)
(* queue, relay worker, agent bridge, reply or hand-over                   *)
(* (back/src/modules/whatsapp/whatsapp.controller.ts, reply.service.ts,    *)
(*  queues/message.queue.ts, workers/relay.worker.ts, modules/ai/          *)
(*  agentBridgeCore.ts, agent.bridge.ts, orders.service.ts bulkHoldAgent). *)
(*                                                                         *)
(* The agent is used through its promise, TurnOnce.  Webhook requests and  *)
(* relay workers are concurrent, every await ends a step, back can die     *)
(* between any two steps, and a human can take the Conversation over or    *)
(* give it back at any time.                                               *)
(***************************************************************************)
EXTENDS Naturals

CONSTANTS
    Message,         \* WhatsApp messages of known customers
    Conversation,    \* conversations
    ConversationOf,  \* the Conversation a Message belongs to
    Handler,         \* webhook requests in progress at once
    Worker,          \* relay workers (concurrency 5 in relay.worker.ts)
    None,            \* no message, no result
    MaxAttempts,     \* MESSAGE_JOB_ATTEMPTS
    MaxStalls,       \* times BullMQ restarts a job whose worker died (its default is 1)
    MaxDeliveries,   \* bound: deliveries by the bridge
    MaxHolds,        \* bound: hold and release requests of the merchant
    MaxFaults        \* bound: process deaths and failing steps

ASSUME ConversationOfAssumption == ConversationOf \in [Message -> Conversation]
ASSUME NoneAssumption == None \notin Message \cup {"reply", "escalate", "greeting"}
ASSUME BoundAssumption ==
    /\ MaxAttempts \in Nat \ {0}
    /\ {MaxStalls, MaxDeliveries, MaxHolds, MaxFaults} \subseteq Nat

VARIABLES
    hpc, hmsg,    \* webhook request h: its place in handleWebhook, its message
    rows,         \* rows[m]: Message rows with m's WhatsApp id
    enqueued,     \* enqueued[m]: jobs added for m
    deliveries,   \* webhook calls so far
    job,          \* job[m]: the BullMQ job
    attempts,     \* attempts[m]: its failed attempts
    stalls,       \* stalls[m]: how often its worker died
    wpc, wmsg,    \* relay worker w: its place in runAgentBridge, its message
    wans,         \* wans[w]: the agent's response it holds
    asked,        \* asked[m]: ProcessMessage was called for m
    result,       \* result[m], answered[m]: the agent's side (TurnOnce)
    answered,
    replies,      \* replies[m]: OUT/AI rows made for m
    sent,         \* sent[m]: replies to m given to WhatsApp
    taken,        \* taken[c]: takenOverByHuman
    escalated,    \* escalated[c]: escalatedAt is set
    wasTaken,     \* conversations that have been in Takeover
    inFlight,     \* inFlight[c]: workers past the check when c was taken over
    hit,          \* messages whose request a fault cut short between row and job
    greeted,      \* messages the agent answered with its greeting
    holds, faults

hookVars == <<hpc, hmsg, rows, enqueued, deliveries, hit>>
jobVars == <<job, attempts, stalls>>
workVars == <<wpc, wmsg, wans>>
agentVars == <<asked, result, answered, greeted>>
outVars == <<replies, sent>>
takeVars == <<taken, escalated, wasTaken, inFlight>>
vars == <<hookVars, jobVars, workVars, agentVars, outVars, takeVars, holds, faults>>

Agent == INSTANCE TurnOnce WITH Result <- {"reply", "escalate"}, NoResult <- None

HookPC == {"idle", "check", "store", "media", "enqueue"}
JobState == {"none", "waiting", "active", "completed", "failed"}
WorkPC == {"idle", "agent", "turn", "deliver", "persist", "send", "escalate", "done"}
Response == {"reply", "escalate", "greeting"}

Init ==
    /\ hpc = [h \in Handler |-> "idle"]
    /\ hmsg = [h \in Handler |-> None]
    /\ rows = [m \in Message |-> 0]
    /\ enqueued = [m \in Message |-> 0]
    /\ deliveries = 0
    /\ job = [m \in Message |-> "none"]
    /\ attempts = [m \in Message |-> 0]
    /\ stalls = [m \in Message |-> 0]
    /\ wpc = [w \in Worker |-> "idle"]
    /\ wmsg = [w \in Worker |-> None]
    /\ wans = [w \in Worker |-> None]
    /\ asked = [m \in Message |-> FALSE]
    /\ Agent!Init
    /\ replies = [m \in Message |-> 0]
    /\ sent = [m \in Message |-> 0]
    /\ taken = [c \in Conversation |-> FALSE]
    /\ escalated = [c \in Conversation |-> FALSE]
    /\ wasTaken = {}
    /\ inFlight = [c \in Conversation |-> {}]
    /\ hit = {}
    /\ greeted = {}
    /\ holds = 0
    /\ faults = 0

Fault ==
    /\ faults < MaxFaults
    /\ faults' = faults + 1

-----------------------------------------------------------------------------
(* handleWebhook, event message.received.                                  *)

HookGoto(h, l) == hpc' = [hpc EXCEPT ![h] = l]

\* The request is answered (200 or 500 makes no difference to what is stored).
Respond(h) ==
    /\ HookGoto(h, "idle")
    /\ hmsg' = [hmsg EXCEPT ![h] = None]

\* The bridge delivers a message, for the first time or again.
Receive(h, m) ==
    /\ hpc[h] = "idle"
    /\ deliveries < MaxDeliveries
    /\ deliveries' = deliveries + 1
    /\ HookGoto(h, "check")
    /\ hmsg' = [hmsg EXCEPT ![h] = m]
    /\ UNCHANGED <<rows, enqueued, hit, jobVars, workVars, agentVars, outVars, takeVars, holds, faults>>

\* findUnique on whatsappMessageId: a known id is answered "duplicate".
CheckKnown(h) ==
    /\ hpc[h] = "check"
    /\ \/ /\ rows[hmsg[h]] > 0
          /\ Respond(h)
       \/ /\ rows[hmsg[h]] = 0
          /\ HookGoto(h, "store")
          /\ UNCHANGED hmsg
    /\ UNCHANGED <<rows, enqueued, deliveries, hit, jobVars, workVars, agentVars, outVars, takeVars, holds, faults>>

\* Mutant of AddMessage: no unique index on whatsappMessageId.
AddMessageUnchecked(h) ==
    /\ hpc[h] = "store"
    /\ rows' = [rows EXCEPT ![hmsg[h]] = @ + 1]
    /\ HookGoto(h, "media")
    /\ UNCHANGED <<hmsg, enqueued, deliveries, hit, jobVars, workVars, agentVars, outVars, takeVars, holds, faults>>

\* addMessage: the unique index lets one row in; the loser's request ends in an
\* error.
AddMessage(h) ==
    /\ hpc[h] = "store"
    /\ \/ /\ rows[hmsg[h]] = 0
          /\ rows' = [rows EXCEPT ![hmsg[h]] = @ + 1]
          /\ HookGoto(h, "media")
          /\ UNCHANGED hmsg
       \/ /\ rows[hmsg[h]] > 0
          /\ Respond(h)
          /\ UNCHANGED rows
    /\ UNCHANGED <<enqueued, deliveries, hit, jobVars, workVars, agentVars, outVars, takeVars, holds, faults>>

\* Mutant of DescribeMedia: a voice note without transcript is not passed on.
DescribeMediaOrDrop(h) ==
    /\ hpc[h] = "media"
    /\ \/ HookGoto(h, "enqueue") /\ UNCHANGED hmsg
       \/ Respond(h)
    /\ UNCHANGED <<rows, enqueued, deliveries, hit, jobVars, workVars, agentVars, outVars, takeVars, holds, faults>>

\* Transcription or caption, with its fallback text; nothing for plain text.
DescribeMedia(h) ==
    /\ hpc[h] = "media"
    /\ HookGoto(h, "enqueue")
    /\ UNCHANGED <<hmsg, rows, enqueued, deliveries, hit, jobVars, workVars, agentVars, outVars, takeVars, holds, faults>>

\* The job is added (it has no id of its own) and the bridge gets 200.
EnqueueMessageJob(h) ==
    /\ hpc[h] = "enqueue"
    /\ enqueued' = [enqueued EXCEPT ![hmsg[h]] = @ + 1]
    /\ job' = [job EXCEPT ![hmsg[h]] = "waiting"]
    /\ Respond(h)
    /\ UNCHANGED <<rows, deliveries, hit, attempts, stalls, workVars, agentVars, outVars, takeVars, holds, faults>>

\* Request h made the row of its message and has not added the job yet.
OwnsRow(h) == hpc[h] \in {"media", "enqueue"}

\* A step of the request throws.  In addMessage the row may be in although the
\* conversation update beside it failed; a failed enqueue is only logged.
HookFails(h) ==
    /\ hpc[h] # "idle"
    /\ Fault
    /\ \/ /\ hit' = IF OwnsRow(h) THEN hit \cup {hmsg[h]} ELSE hit
          /\ UNCHANGED rows
       \/ /\ hpc[h] = "store"
          /\ rows[hmsg[h]] = 0
          /\ rows' = [rows EXCEPT ![hmsg[h]] = @ + 1]
          /\ hit' = hit \cup {hmsg[h]}
    /\ Respond(h)
    /\ UNCHANGED <<enqueued, deliveries, jobVars, workVars, agentVars, outVars, takeVars, holds>>

-----------------------------------------------------------------------------
(* Takeover.                                                               *)

\* Replies of c that have passed their last look at takenOverByHuman.
PastCheck(c) ==
    {w \in Worker : wpc[w] \in {"persist", "send"} /\ ConversationOf[wmsg[w]] = c}

\* takenOverByHuman is set, whoever sets it.
TakeOver(c) ==
    /\ taken' = [taken EXCEPT ![c] = TRUE]
    /\ wasTaken' = wasTaken \cup {c}
    /\ inFlight' = [inFlight EXCEPT ![c] = IF taken[c] THEN @ ELSE PastCheck(c)]

\* bulkHoldAgent(hold = true): only takenOverByHuman is set.
HoldAgent(c) ==
    /\ holds < MaxHolds
    /\ holds' = holds + 1
    /\ TakeOver(c)
    /\ UNCHANGED <<escalated, hookVars, jobVars, workVars, agentVars, outVars, faults>>

\* bulkHoldAgent(hold = false): the agent gets the Conversation back.
ReleaseAgent(c) ==
    /\ taken[c]
    /\ holds < MaxHolds
    /\ holds' = holds + 1
    /\ taken' = [taken EXCEPT ![c] = FALSE]
    /\ UNCHANGED <<escalated, wasTaken, inFlight, hookVars, jobVars, workVars, agentVars, outVars, faults>>

-----------------------------------------------------------------------------
(* The agent, through its promise.                                         *)

\* The Turn of m ends, once.
AgentTurn(m) ==
    /\ asked[m]
    /\ Agent!Decide(m)
    /\ UNCHANGED <<asked, greeted, hookVars, jobVars, workVars, outVars, takeVars, holds, faults>>

\* A Turn of m hands the Conversation over itself, with the escalateConversation
\* tool.  Its result is not saved yet: the Turn can still be cut short.
AgentEscalates(m) ==
    LET c == ConversationOf[m] IN
    /\ asked[m]
    /\ result[m] = None
    /\ ~taken[c]
    /\ TakeOver(c)
    /\ escalated' = [escalated EXCEPT ![c] = TRUE]
    /\ UNCHANGED <<agentVars, hookVars, jobVars, workVars, outVars, holds, faults>>

-----------------------------------------------------------------------------
(* The relay worker and runAgentBridge.                                    *)

WorkGoto(w, l) == wpc' = [wpc EXCEPT ![w] = l]

\* A waiting job is taken, its message and Conversation are read.  A Conversation
\* a human owns ends the job there; otherwise ProcessMessage is called.
TakeJob(w, m) ==
    /\ wpc[w] = "idle"
    /\ job[m] = "waiting"
    /\ job' = [job EXCEPT ![m] = "active"]
    /\ wmsg' = [wmsg EXCEPT ![w] = m]
    /\ WorkGoto(w, IF taken[ConversationOf[m]] THEN "done" ELSE "agent")
    /\ UNCHANGED <<wans, attempts, stalls, agentVars, hookVars, outVars, takeVars, holds, faults>>

\* The agent found the row and asks its guard for the message's Turn.
AgentStarts(w) ==
    /\ wpc[w] = "agent"
    /\ asked' = [asked EXCEPT ![wmsg[w]] = TRUE]
    /\ WorkGoto(w, "turn")
    /\ UNCHANGED <<wmsg, wans, result, answered, greeted, hookVars, jobVars, outVars, takeVars, holds, faults>>

\* Mutant of AgentAnswers: an answer without text is not acted on.
AgentAnswersRepliesOnly(w) ==
    /\ wpc[w] = "turn"
    /\ Agent!Answer(wmsg[w])
    /\ wans' = [wans EXCEPT ![w] = result[wmsg[w]]]
    /\ WorkGoto(w, IF result[wmsg[w]] = "reply" THEN "deliver" ELSE "done")
    /\ UNCHANGED <<wmsg, asked, greeted, hookVars, jobVars, outVars, takeVars, holds, faults>>

\* ProcessMessage returns the result of the message's Turn.
AgentAnswers(w) ==
    /\ wpc[w] = "turn"
    /\ Agent!Answer(wmsg[w])
    /\ wans' = [wans EXCEPT ![w] = result[wmsg[w]]]
    /\ WorkGoto(w, IF result[wmsg[w]] = "reply" THEN "deliver" ELSE "escalate")
    /\ UNCHANGED <<wmsg, asked, greeted, hookVars, jobVars, outVars, takeVars, holds, faults>>

\* The agent could not read the row, and answers with its greeting.
AgentGreets(w) ==
    /\ wpc[w] = "agent"
    /\ Fault
    /\ wans' = [wans EXCEPT ![w] = "greeting"]
    /\ greeted' = greeted \cup {wmsg[w]}
    /\ WorkGoto(w, "deliver")
    /\ UNCHANGED <<wmsg, asked, result, answered, hookVars, jobVars, outVars, takeVars, holds>>

\* Mutant of CheckTakeover: the check before the agent call is taken for enough.
TrustFirstCheck(w) ==
    /\ wpc[w] = "deliver"
    /\ WorkGoto(w, "persist")
    /\ UNCHANGED <<wmsg, wans, agentVars, hookVars, jobVars, outVars, takeVars, holds, faults>>

\* deliverAssistantReply reads the Conversation again.
CheckTakeover(w) ==
    /\ wpc[w] = "deliver"
    /\ WorkGoto(w, IF taken[ConversationOf[wmsg[w]]] THEN "done" ELSE "persist")
    /\ UNCHANGED <<wmsg, wans, agentVars, hookVars, jobVars, outVars, takeVars, holds, faults>>

\* The OUT/AI row is made.
PersistReply(w) ==
    /\ wpc[w] = "persist"
    /\ replies' = [replies EXCEPT ![wmsg[w]] = @ + 1]
    /\ WorkGoto(w, "send")
    /\ UNCHANGED <<wmsg, wans, sent, agentVars, hookVars, jobVars, takeVars, holds, faults>>

\* sendMessagesSequentially, when the session is connected and there is a target.
SendReply(w) ==
    /\ wpc[w] = "send"
    /\ sent' = [sent EXCEPT ![wmsg[w]] = @ + 1]
    /\ WorkGoto(w, "done")
    /\ UNCHANGED <<wmsg, wans, replies, agentVars, hookVars, jobVars, takeVars, holds, faults>>

\* Not connected, no target, or an error: logged and swallowed.
SkipSend(w) ==
    /\ wpc[w] = "send"
    /\ WorkGoto(w, "done")
    /\ UNCHANGED <<wmsg, wans, agentVars, hookVars, jobVars, outVars, takeVars, holds, faults>>

\* escalateConversation of the bridge (its notification is best effort).
Escalate(w) ==
    /\ wpc[w] = "escalate"
    /\ TakeOver(ConversationOf[wmsg[w]])
    /\ escalated' = [escalated EXCEPT ![ConversationOf[wmsg[w]]] = TRUE]
    /\ WorkGoto(w, "done")
    /\ UNCHANGED <<wmsg, wans, agentVars, hookVars, jobVars, outVars, holds, faults>>

FreeWorker(w) ==
    /\ WorkGoto(w, "idle")
    /\ wmsg' = [wmsg EXCEPT ![w] = None]
    /\ wans' = [wans EXCEPT ![w] = None]

\* runAgentBridge returned: the job is completed.
CompleteJob(w) ==
    /\ wpc[w] = "done"
    /\ job' = [job EXCEPT ![wmsg[w]] = "completed"]
    /\ FreeWorker(w)
    /\ UNCHANGED <<attempts, stalls, agentVars, hookVars, outVars, takeVars, holds, faults>>

\* What BullMQ makes of a job whose attempt threw.
Retried(m) == IF attempts[m] + 1 < MaxAttempts THEN "waiting" ELSE "failed"

\* Mutant of FailJob: a failed send is rethrown, and the job runs again.
FailJobOnSend(w) ==
    /\ wpc[w] \in {"agent", "turn", "deliver", "persist", "escalate", "send"}
    /\ Fault
    /\ job' = [job EXCEPT ![wmsg[w]] = Retried(wmsg[w])]
    /\ attempts' = [attempts EXCEPT ![wmsg[w]] = @ + 1]
    /\ FreeWorker(w)
    /\ UNCHANGED <<stalls, agentVars, hookVars, outVars, takeVars, holds>>

\* The agent call fails (busy, down, cut off), or a database step throws.
FailJob(w) ==
    /\ wpc[w] \in {"agent", "turn", "deliver", "persist", "escalate"}
    /\ Fault
    /\ job' = [job EXCEPT ![wmsg[w]] = Retried(wmsg[w])]
    /\ attempts' = [attempts EXCEPT ![wmsg[w]] = @ + 1]
    /\ FreeWorker(w)
    /\ UNCHANGED <<stalls, agentVars, hookVars, outVars, takeVars, holds>>

-----------------------------------------------------------------------------
\* What BullMQ makes of the job of a dead worker.
Restarted(m) ==
    IF job[m] # "active" THEN job[m]
    ELSE IF stalls[m] < MaxStalls THEN "waiting" ELSE "failed"

\* back dies.  Requests and workers are gone; rows, jobs and the agent remain.
Crash ==
    /\ Fault
    /\ hit' = hit \cup {m \in Message : \E h \in Handler : OwnsRow(h) /\ hmsg[h] = m}
    /\ hpc' = [h \in Handler |-> "idle"]
    /\ hmsg' = [h \in Handler |-> None]
    /\ wpc' = [w \in Worker |-> "idle"]
    /\ wmsg' = [w \in Worker |-> None]
    /\ wans' = [w \in Worker |-> None]
    /\ job' = [m \in Message |-> Restarted(m)]
    /\ stalls' = [m \in Message |-> IF job[m] = "active" THEN stalls[m] + 1 ELSE stalls[m]]
    /\ UNCHANGED <<rows, enqueued, deliveries, attempts, agentVars, outVars, takeVars, holds>>

HookStep(h) == CheckKnown(h) \/ AddMessage(h) \/ DescribeMedia(h) \/ EnqueueMessageJob(h)

WorkStep(w) ==
    \/ \E m \in Message : TakeJob(w, m)
    \/ AgentStarts(w) \/ AgentAnswers(w) \/ CheckTakeover(w) \/ PersistReply(w) \/ SendReply(w) \/ SkipSend(w)
    \/ Escalate(w) \/ CompleteJob(w)

Next ==
    \/ \E h \in Handler : HookStep(h) \/ HookFails(h) \/ \E m \in Message : Receive(h, m)
    \/ \E w \in Worker : WorkStep(w) \/ AgentGreets(w) \/ FailJob(w)
    \/ \E m \in Message : AgentTurn(m) \/ AgentEscalates(m)
    \/ \E c \in Conversation : HoldAgent(c) \/ ReleaseAgent(c)
    \/ Crash

Spec == Init /\ [][Next]_vars

\* back's event loop runs requests and workers that can go on, and the agent ends
\* the Turns it was asked for.  The bridge, the merchant and faults are not fair.
FairSpec ==
    /\ Spec
    /\ \A h \in Handler : WF_vars(HookStep(h))
    /\ \A w \in Worker : WF_vars(WorkStep(w))
    /\ \A m \in Message : WF_vars(AgentTurn(m))

-----------------------------------------------------------------------------
\* A request and a worker have a message exactly while they are busy.
TypeOK ==
    /\ hpc \in [Handler -> HookPC]
    /\ hmsg \in [Handler -> Message \cup {None}]
    /\ \A h \in Handler : hpc[h] = "idle" <=> hmsg[h] = None
    /\ {rows, enqueued, attempts, stalls, replies, sent} \subseteq [Message -> Nat]
    /\ job \in [Message -> JobState]
    /\ wpc \in [Worker -> WorkPC]
    /\ wmsg \in [Worker -> Message \cup {None}]
    /\ \A w \in Worker : wpc[w] = "idle" <=> wmsg[w] = None
    /\ wans \in [Worker -> Response \cup {None}]
    /\ asked \in [Message -> BOOLEAN]
    /\ result \in [Message -> {"reply", "escalate", None}]
    /\ answered \in [Message -> SUBSET {"reply", "escalate"}]
    /\ taken \in [Conversation -> BOOLEAN]
    /\ escalated \in [Conversation -> BOOLEAN]
    /\ wasTaken \subseteq Conversation
    /\ inFlight \in [Conversation -> SUBSET Worker]
    /\ {hit, greeted} \subseteq SUBSET Message
    /\ {deliveries, holds, faults} \subseteq Nat

\* whatsapp.controller.ts: "A redelivered webhook must not produce a second row
\* (and a second agent run)", also when both deliveries run at the same time.
OneRowOneJob == \A m \in Message : rows[m] <= 1 /\ enqueued[m] <= rows[m]

\* A stored message has its job, unless its request is still running or a fault
\* cut the request short: the only way a message is left without a Turn.
StoredIsQueued ==
    \A m \in Message :
        rows[m] > 0 /\ enqueued[m] = 0 => m \in hit \/ \E h \in Handler : OwnsRow(h) /\ hmsg[h] = m

\* The reply path checks Takeover again after the agent answered: a reply sent
\* while a human owns the Conversation had passed that check before the human
\* took over.
OnlyInFlightReplies ==
    [][\A w \in Worker :
          wpc[w] = "send" /\ sent' # sent /\ sent'[wmsg[w]] # sent[wmsg[w]]
              /\ taken[ConversationOf[wmsg[w]]]
          => w \in inFlight[ConversationOf[wmsg[w]]]]_vars

\* A customer message is answered once; it is answered again only when the worker
\* died after the reply and BullMQ ran the job again.
OneReplyPerRun == \A m \in Message : replies[m] <= 1 + stalls[m] /\ sent[m] <= replies[m]

\* A Turn that decided to hand over really reaches a human, however the calls
\* between agent and back fail, unless its job was given up or a repeated call
\* was answered with the greeting.
HandOverIsCarriedOut ==
    \A m \in Message :
        result[m] = "escalate" ~>
            (ConversationOf[m] \in wasTaken \/ job[m] = "failed" \/ m \in greeted)
=============================================================================
