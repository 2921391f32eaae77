----------------------- MODULE MessagePipelineProofs ------------------------
(***************************************************************************)
(* The message path of back for any number of messages, Conversations,     *)
(* webhook requests, workers, redeliveries, crashes and failing steps: one *)
(* row and one job per message, no stored message without its job, one     *)
(* reply per run of the job, no reply that starts after a Takeover.        *)
(***************************************************************************)
EXTENDS MessagePipeline, TLAPS

USE ConversationOfAssumption, NoneAssumption, BoundAssumption

-----------------------------------------------------------------------------
(* Types.                                                                  *)

\* Every step of the message path keeps the types of its variables.
LEMMA TypeStep == TypeOK /\ [Next]_vars => TypeOK'
<1> SUFFICES ASSUME TypeOK, [Next]_vars PROVE TypeOK'
  OBVIOUS
<1> USE DEF TypeOK, HookPC, JobState, WorkPC, Response,
            hookVars, jobVars, workVars, agentVars, outVars, takeVars
<1>1. ASSUME NEW h \in Handler, NEW m \in Message, Receive(h, m) PROVE TypeOK'
  BY <1>1 DEF Receive, HookGoto
<1>2. ASSUME NEW h \in Handler, CheckKnown(h) PROVE TypeOK'
  BY <1>2 DEF CheckKnown, HookGoto, Respond
<1>3. ASSUME NEW h \in Handler, AddMessage(h) PROVE TypeOK'
  BY <1>3 DEF AddMessage, HookGoto, Respond
<1>4. ASSUME NEW h \in Handler, DescribeMedia(h) PROVE TypeOK'
  BY <1>4 DEF DescribeMedia, HookGoto
<1>5. ASSUME NEW h \in Handler, EnqueueMessageJob(h) PROVE TypeOK'
  BY <1>5 DEF EnqueueMessageJob, HookGoto, Respond
<1>6. ASSUME NEW h \in Handler, HookFails(h) PROVE TypeOK'
  BY <1>6 DEF HookFails, HookGoto, Respond, Fault, OwnsRow
<1>7. ASSUME NEW c \in Conversation, HoldAgent(c) PROVE TypeOK'
  BY <1>7 DEF HoldAgent, TakeOver, PastCheck
<1>8. ASSUME NEW c \in Conversation, ReleaseAgent(c) PROVE TypeOK'
  BY <1>8 DEF ReleaseAgent
<1>9. ASSUME NEW m \in Message, AgentTurn(m) PROVE TypeOK'
  BY <1>9 DEF AgentTurn, Agent!Decide
<1>10. ASSUME NEW m \in Message, AgentEscalates(m) PROVE TypeOK'
  BY <1>10 DEF AgentEscalates, TakeOver, PastCheck
<1>11. ASSUME NEW w \in Worker, NEW m \in Message, TakeJob(w, m) PROVE TypeOK'
  BY <1>11 DEF TakeJob, WorkGoto
<1>12. ASSUME NEW w \in Worker, AgentStarts(w) PROVE TypeOK'
  BY <1>12 DEF AgentStarts, WorkGoto
<1>13. ASSUME NEW w \in Worker, AgentAnswers(w) PROVE TypeOK'
  BY <1>13 DEF AgentAnswers, WorkGoto, Agent!Answer
<1>14. ASSUME NEW w \in Worker, AgentGreets(w) PROVE TypeOK'
  BY <1>14 DEF AgentGreets, WorkGoto, Fault
<1>15. ASSUME NEW w \in Worker, CheckTakeover(w) PROVE TypeOK'
  BY <1>15 DEF CheckTakeover, WorkGoto
<1>16. ASSUME NEW w \in Worker, PersistReply(w) PROVE TypeOK'
  BY <1>16 DEF PersistReply, WorkGoto
<1>17. ASSUME NEW w \in Worker, SendReply(w) PROVE TypeOK'
  BY <1>17 DEF SendReply, WorkGoto
<1>18. ASSUME NEW w \in Worker, SkipSend(w) PROVE TypeOK'
  BY <1>18 DEF SkipSend, WorkGoto
<1>19. ASSUME NEW w \in Worker, Escalate(w) PROVE TypeOK'
  BY <1>19 DEF Escalate, WorkGoto, TakeOver, PastCheck
<1>20. ASSUME NEW w \in Worker, CompleteJob(w) PROVE TypeOK'
  BY <1>20 DEF CompleteJob, FreeWorker, WorkGoto
<1>21. ASSUME NEW w \in Worker, FailJob(w) PROVE TypeOK'
  BY <1>21 DEF FailJob, FreeWorker, WorkGoto, Fault, Retried
<1>22. ASSUME Crash PROVE TypeOK'
  BY <1>22 DEF Crash, Fault, Restarted, OwnsRow
<1>23. CASE UNCHANGED vars
  BY <1>23 DEF vars
<1> QED
  BY <1>1, <1>2, <1>3, <1>4, <1>5, <1>6, <1>7, <1>8, <1>9, <1>10, <1>11, <1>12, <1>13, <1>14,
     <1>15, <1>16, <1>17, <1>18, <1>19, <1>20, <1>21, <1>22, <1>23 DEF Next, HookStep, WorkStep

\* Every variable of the message path keeps its type.
THEOREM TypeCorrect == Spec => []TypeOK
<1>1. Init => TypeOK
  BY DEF Init, TypeOK, Agent!Init, HookPC, JobState, WorkPC
<1> QED
  BY <1>1, TypeStep, PTL DEF Spec
-----------------------------------------------------------------------------
(* The inductive invariant.                                                *)

\* The request that made a message's row is the only one that will add its job,
\* and it has not done so yet.
OwnerInv ==
    /\ \A h \in Handler : OwnsRow(h) => rows[hmsg[h]] = 1 /\ enqueued[hmsg[h]] = 0
    /\ \A h, g \in Handler : OwnsRow(h) /\ OwnsRow(g) /\ hmsg[h] = hmsg[g] => h = g

\* A busy worker has the only active run of its message's job.
ActiveInv ==
    /\ \A m \in Message : enqueued[m] = 0 => job[m] = "none"
    /\ \A w \in Worker : wpc[w] # "idle" => job[wmsg[w]] = "active"
    /\ \A w, v \in Worker : wpc[w] # "idle" /\ wmsg[w] = wmsg[v] => w = v

\* A job that can still make a reply has made one only in runs whose worker died.
ReplyInv ==
    /\ \A m \in Message : job[m] \in {"none", "waiting"} => replies[m] <= stalls[m]
    /\ \A w \in Worker : wpc[w] \in {"agent", "turn", "deliver", "persist", "escalate"} =>
           replies[wmsg[w]] <= stalls[wmsg[w]]
    /\ \A w \in Worker : wpc[w] = "send" => sent[wmsg[w]] < replies[wmsg[w]]

\* A reply under way in a Conversation a human owns was under way when he took it.
FlightInv ==
    \A w \in Worker :
        wpc[w] \in {"persist", "send"} /\ taken[ConversationOf[wmsg[w]]]
            => w \in inFlight[ConversationOf[wmsg[w]]]

IInv ==
    /\ TypeOK
    /\ OwnerInv /\ OneRowOneJob /\ StoredIsQueued
    /\ ActiveInv
    /\ ReplyInv /\ OneReplyPerRun
    /\ FlightInv
-----------------------------------------------------------------------------
\* Only AddMessage makes a row, for one request at a time: the others find it.
LEMMA HookInvStep == IInv /\ [Next]_vars => (OwnerInv /\ OneRowOneJob /\ StoredIsQueued)'
<1> DEFINE HookInv == OwnerInv /\ OneRowOneJob /\ StoredIsQueued
<1> SUFFICES ASSUME IInv, [Next]_vars PROVE HookInv'
  OBVIOUS
<1> USE DEF IInv, TypeOK, OwnerInv, OneRowOneJob, StoredIsQueued, OwnsRow, HookPC, HookGoto, Respond
<1>1. ASSUME NEW h \in Handler, NEW m \in Message, Receive(h, m) PROVE HookInv'
  BY <1>1 DEF Receive
<1>2. ASSUME NEW h \in Handler, CheckKnown(h) PROVE HookInv'
  <2>1. UNCHANGED <<rows, enqueued, hit>> /\ ~OwnsRow(h) /\ ~OwnsRow(h)'
    BY <1>2 DEF CheckKnown
  <2>2. \A g \in Handler \ {h} : hpc'[g] = hpc[g] /\ hmsg'[g] = hmsg[g]
    BY <1>2 DEF CheckKnown
  <2> QED
    BY <2>1, <2>2
<1>3. ASSUME NEW h \in Handler, AddMessage(h) PROVE HookInv'
  <2>1. UNCHANGED <<enqueued, hit>> /\ ~OwnsRow(h) /\ hmsg[h] \in Message
    BY <1>3 DEF AddMessage
  <2>2. \A g \in Handler \ {h} : hpc'[g] = hpc[g] /\ hmsg'[g] = hmsg[g]
    BY <1>3 DEF AddMessage
  <2>3. CASE rows[hmsg[h]] = 0
    <3>1. hpc'[h] = "media" /\ hmsg'[h] = hmsg[h] /\ rows' = [rows EXCEPT ![hmsg[h]] = 1]
      BY <1>3, <2>3 DEF AddMessage
    <3>2. rows'[hmsg[h]] = 1 /\ \A m \in Message \ {hmsg[h]} : rows'[m] = rows[m]
      BY <2>1, <3>1
    <3>3. enqueued[hmsg[h]] = 0 /\ \A g \in Handler : OwnsRow(g) => hmsg[g] # hmsg[h]
      BY <2>1, <2>3
    <3>4. OwnerInv'
      BY <2>1, <2>2, <3>1, <3>2, <3>3
    <3>5. OneRowOneJob'
      BY <2>1, <2>2, <3>1, <3>2, <3>3
    <3>6. StoredIsQueued'
      BY <2>1, <2>2, <3>1, <3>2
    <3> QED
      BY <3>4, <3>5, <3>6
  <2>4. CASE rows[hmsg[h]] > 0
    <3>1. UNCHANGED rows /\ ~OwnsRow(h)'
      BY <1>3, <2>4 DEF AddMessage
    <3> QED
      BY <2>1, <2>2, <3>1
  <2> QED
    BY <2>1, <2>3, <2>4
<1>4. ASSUME NEW h \in Handler, DescribeMedia(h) PROVE HookInv'
  BY <1>4 DEF DescribeMedia
<1>5. ASSUME NEW h \in Handler, EnqueueMessageJob(h) PROVE HookInv'
  BY <1>5 DEF EnqueueMessageJob
<1>6. ASSUME NEW h \in Handler, HookFails(h) PROVE HookInv'
  BY <1>6 DEF HookFails
<1>7. ASSUME Crash PROVE HookInv'
  BY <1>7 DEF Crash
<1>8. ASSUME UNCHANGED hookVars PROVE HookInv'
  BY <1>8 DEF hookVars
<1> QED
  BY <1>1, <1>2, <1>3, <1>4, <1>5, <1>6, <1>7, <1>8
     DEF Next, HookStep, WorkStep, vars, HoldAgent, ReleaseAgent, AgentTurn, AgentEscalates, TakeJob,
         AgentStarts, AgentAnswers, AgentGreets, CheckTakeover, PersistReply, SendReply, SkipSend,
         Escalate, CompleteJob, FailJob

\* A job is added once, and only TakeJob gives it to a worker.
LEMMA ActiveInvStep == IInv /\ [Next]_vars => ActiveInv'
<1> SUFFICES ASSUME IInv, [Next]_vars PROVE ActiveInv'
  OBVIOUS
<1> USE DEF IInv, TypeOK, ActiveInv, WorkPC, WorkGoto, FreeWorker
<1>1. ASSUME NEW h \in Handler, EnqueueMessageJob(h) PROVE ActiveInv'
  BY <1>1 DEF EnqueueMessageJob, OwnerInv, OwnsRow, HookPC, workVars
<1>2. ASSUME NEW w \in Worker, NEW m \in Message, TakeJob(w, m) PROVE ActiveInv'
  BY <1>2 DEF TakeJob, hookVars
<1>3. ASSUME NEW w \in Worker, \/ AgentStarts(w) \/ AgentAnswers(w) \/ AgentGreets(w) \/ CheckTakeover(w)
                               \/ PersistReply(w) \/ SendReply(w) \/ SkipSend(w) \/ Escalate(w)
      PROVE ActiveInv'
  <2>1. UNCHANGED <<enqueued, job, wmsg>> /\ wpc[w] # "idle" /\ \A v \in Worker \ {w} : wpc'[v] = wpc[v]
    BY <1>3 DEF AgentStarts, AgentAnswers, AgentGreets, CheckTakeover, PersistReply, SendReply,
       SkipSend,
                Escalate, hookVars, jobVars
  <2> QED
    BY <2>1
<1>4. ASSUME NEW w \in Worker, CompleteJob(w) PROVE ActiveInv'
  BY <1>4 DEF CompleteJob, hookVars
<1>5. ASSUME NEW w \in Worker, FailJob(w) PROVE ActiveInv'
  BY <1>5 DEF FailJob, hookVars
<1>6. ASSUME Crash PROVE ActiveInv'
  BY <1>6 DEF Crash, Restarted
<1>7. ASSUME UNCHANGED <<enqueued, job, wpc, wmsg>> PROVE ActiveInv'
  BY <1>7
<1> QED
  BY <1>1, <1>2, <1>3, <1>4, <1>5, <1>6, <1>7
     DEF Next, HookStep, WorkStep, vars, hookVars, jobVars, workVars, Receive, CheckKnown, AddMessage,
         DescribeMedia, HookFails, HoldAgent, ReleaseAgent, AgentTurn, AgentEscalates

\* A run makes one reply, sends it at most once, and is not repeated after that
\* unless its worker dies.
LEMMA ReplyInvStep == IInv /\ [Next]_vars => (ReplyInv /\ OneReplyPerRun)'
<1> SUFFICES ASSUME IInv, [Next]_vars PROVE (ReplyInv /\ OneReplyPerRun)'
  OBVIOUS
<1> USE DEF IInv, TypeOK, ActiveInv, ReplyInv, OneReplyPerRun, WorkPC, JobState, WorkGoto, FreeWorker
<1>1. ASSUME NEW h \in Handler, EnqueueMessageJob(h) PROVE (ReplyInv /\ OneReplyPerRun)'
  BY <1>1 DEF EnqueueMessageJob, OwnerInv, OwnsRow, HookPC, workVars, outVars
<1>2. ASSUME NEW w \in Worker, NEW m \in Message, TakeJob(w, m) PROVE (ReplyInv /\ OneReplyPerRun)'
  BY <1>2 DEF TakeJob, outVars
<1>3. ASSUME NEW w \in Worker, \/ AgentStarts(w) \/ AgentAnswers(w) \/ AgentGreets(w) \/ CheckTakeover(w)
                               \/ SkipSend(w) \/ Escalate(w)
      PROVE (ReplyInv /\ OneReplyPerRun)'
  <2>1. /\ UNCHANGED <<job, stalls, wmsg, replies, sent>> /\ \A v \in Worker \ {w} : wpc'[v] = wpc[v]
        /\ wpc'[w] = "done" \/ (wpc[w] \in {"agent", "turn", "deliver", "escalate"} /\ wpc'[w] # "send")
    BY <1>3 DEF AgentStarts, AgentAnswers, AgentGreets, CheckTakeover, SkipSend, Escalate,
       jobVars, outVars
  <2> QED
    BY <2>1
<1>4. ASSUME NEW w \in Worker, PersistReply(w) PROVE (ReplyInv /\ OneReplyPerRun)'
  BY <1>4 DEF PersistReply, jobVars
<1>5. ASSUME NEW w \in Worker, SendReply(w) PROVE (ReplyInv /\ OneReplyPerRun)'
  BY <1>5 DEF SendReply, jobVars
<1>6. ASSUME NEW w \in Worker, CompleteJob(w) PROVE (ReplyInv /\ OneReplyPerRun)'
  BY <1>6 DEF CompleteJob, outVars
<1>7. ASSUME NEW w \in Worker, FailJob(w) PROVE (ReplyInv /\ OneReplyPerRun)'
  BY <1>7 DEF FailJob, outVars
<1>8. ASSUME Crash PROVE (ReplyInv /\ OneReplyPerRun)'
  BY <1>8 DEF Crash, Restarted, outVars
<1>9. ASSUME UNCHANGED <<job, stalls, wpc, wmsg, replies, sent>> PROVE (ReplyInv /\ OneReplyPerRun)'
  BY <1>9
<1> QED
  BY <1>1, <1>2, <1>3, <1>4, <1>5, <1>6, <1>7, <1>8, <1>9
     DEF Next, HookStep, WorkStep, vars, hookVars, jobVars, workVars, outVars, Receive, CheckKnown,
         AddMessage, DescribeMedia, HookFails, HoldAgent, ReleaseAgent, AgentTurn, AgentEscalates

\* The check of deliverAssistantReply and the Takeover are both single steps:
\* whoever passed the check before the Takeover is counted in by it.
LEMMA FlightInvStep == IInv /\ [Next]_vars => FlightInv'
<1> SUFFICES ASSUME IInv, [Next]_vars PROVE FlightInv'
  OBVIOUS
<1> USE DEF IInv, TypeOK, FlightInv, WorkPC, WorkGoto, FreeWorker
<1>1. ASSUME NEW c \in Conversation, TakeOver(c), UNCHANGED wmsg,
             \A w \in Worker : wpc'[w] = wpc[w] \/ wpc'[w] = "done"
      PROVE FlightInv'
  BY <1>1 DEF TakeOver, PastCheck
<1>2. ASSUME NEW c \in Conversation, HoldAgent(c) PROVE FlightInv'
  BY <1>1, <1>2 DEF HoldAgent, workVars
<1>3. ASSUME NEW c \in Conversation, ReleaseAgent(c) PROVE FlightInv'
  BY <1>3 DEF ReleaseAgent, workVars
<1>4. ASSUME NEW m \in Message, AgentEscalates(m) PROVE FlightInv'
  BY <1>1, <1>4 DEF AgentEscalates, workVars
<1>5. ASSUME NEW w \in Worker, Escalate(w) PROVE FlightInv'
  BY <1>1, <1>5 DEF Escalate
<1>6. ASSUME NEW w \in Worker, CheckTakeover(w) PROVE FlightInv'
  BY <1>6 DEF CheckTakeover, takeVars
<1>7. ASSUME NEW w \in Worker, PersistReply(w) PROVE FlightInv'
  BY <1>7 DEF PersistReply, takeVars
<1>8. ASSUME NEW w \in Worker,
             \/ \E m \in Message : TakeJob(w, m)
             \/ AgentStarts(w) \/ AgentAnswers(w) \/ AgentGreets(w) \/ SendReply(w) \/ SkipSend(w)
             \/ CompleteJob(w) \/ FailJob(w)
      PROVE FlightInv'
  <2>1. /\ UNCHANGED <<taken, inFlight>> /\ wpc'[w] \notin {"persist", "send"}
        /\ \A v \in Worker \ {w} : wpc'[v] = wpc[v] /\ wmsg'[v] = wmsg[v]
    BY <1>8 DEF TakeJob, AgentStarts, AgentAnswers, AgentGreets, SendReply, SkipSend, CompleteJob,
                FailJob, takeVars
  <2> QED
    BY <2>1
<1>9. ASSUME Crash PROVE FlightInv'
  BY <1>9 DEF Crash
<1>10. ASSUME UNCHANGED <<wpc, wmsg, taken, inFlight>> PROVE FlightInv'
  BY <1>10
<1> QED
  BY <1>2, <1>3, <1>4, <1>5, <1>6, <1>7, <1>8, <1>9, <1>10
     DEF Next, HookStep, WorkStep, vars, workVars, takeVars, Receive, CheckKnown, AddMessage,
         DescribeMedia, EnqueueMessageJob, HookFails, AgentTurn

\* The inductive invariant holds in every reachable state.
THEOREM Inductive == Spec => []IInv
<1>1. Init => IInv
  <2> SUFFICES ASSUME Init PROVE IInv
    OBVIOUS
  <2>1. TypeOK
    BY DEF Init, TypeOK, Agent!Init, HookPC, JobState, WorkPC
  <2>2. OwnerInv /\ OneRowOneJob /\ StoredIsQueued
    BY DEF Init, OwnerInv, OneRowOneJob, StoredIsQueued, OwnsRow
  <2>3. ActiveInv /\ ReplyInv /\ OneReplyPerRun /\ FlightInv
    BY DEF Init, ActiveInv, ReplyInv, OneReplyPerRun, FlightInv
  <2> QED
    BY <2>1, <2>2, <2>3 DEF IInv
<1>2. IInv /\ [Next]_vars => IInv'
  BY TypeStep, HookInvStep, ActiveInvStep, ReplyInvStep, FlightInvStep DEF IInv
<1> QED
  BY <1>1, <1>2, PTL DEF Spec

\* whatsapp.controller.ts: "A redelivered webhook must not produce a second row
\* (and a second agent run)".
THEOREM RowAndJobOnce == Spec => []OneRowOneJob
<1>1. IInv => OneRowOneJob
  BY DEF IInv
<1> QED
  BY <1>1, Inductive, PTL

\* A stored message is left without its job only by a fault between the two.
THEOREM NoMessageForgotten == Spec => []StoredIsQueued
<1>1. IInv => StoredIsQueued
  BY DEF IInv
<1> QED
  BY <1>1, Inductive, PTL

\* A message is answered once per run of its job, and a job is run again after its
\* reply only when the worker died.
THEOREM RepliesAreBounded == Spec => []OneReplyPerRun
<1>1. IInv => OneReplyPerRun
  BY DEF IInv
<1> QED
  BY <1>1, Inductive, PTL

\* A reply sent while a human owns the Conversation was past deliverAssistantReply's
\* check when the human took over.
THEOREM TakeoverIsRespected == Spec => OnlyInFlightReplies
<1>1. IInv /\ [Next]_vars =>
          [\A w \in Worker :
              wpc[w] = "send" /\ sent' # sent /\ sent'[wmsg[w]] # sent[wmsg[w]]
                  /\ taken[ConversationOf[wmsg[w]]]
              => w \in inFlight[ConversationOf[wmsg[w]]]]_vars
  BY DEF IInv, FlightInv
<1> QED
  BY <1>1, Inductive, PTL DEF Spec, OnlyInFlightReplies
=============================================================================
