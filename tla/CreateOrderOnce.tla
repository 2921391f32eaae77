-------------------------- MODULE CreateOrderOnce ---------------------------
(***************************************************************************)
(* The createOrder tool of back: createOrderOnce, the transaction it runs  *)
(* and the order-confirmation queue behind it                              *)
(* (back/src/modules/ai/tools/createOrderOnce.ts, registry.ts,             *)
(*  queues/order.queue.ts, workers/order.worker.ts,                        *)
(*  orders/orderConfirmation.service.ts).                                  *)
(*                                                                         *)
(* A key is the id of the customer message whose Turn makes the call.  The *)
(* same key arrives again when a Turn is run again, and twice at once when *)
(* two Turns of one message overlap.  Each await of the code ends a step,  *)
(* so calls interleave, and back can die between any two steps.            *)
(***************************************************************************)
EXTENDS Naturals

CONSTANTS
    Key,          \* idempotency keys (customer message ids)
    Call,         \* ExecuteTool(createOrder) handlers running at once
    OrderId,      \* bound: order rows that can be made
    None,         \* no key, no order
    MaxAttempts,  \* attempts of a confirmation job (3 in order.queue.ts)
    MaxStalls,    \* times BullMQ restarts a job whose worker died (its default is 1)
    MaxCalls,     \* bound: calls
    MaxFaults     \* bound: process deaths and failing database or Redis steps

ASSUME NoneAssumption == None \notin Key \cup OrderId
ASSUME BoundAssumption ==
    /\ MaxAttempts \in Nat \ {0}
    /\ MaxStalls \in Nat
    /\ MaxCalls \in Nat
    /\ MaxFaults \in Nat

VARIABLES
    pc,        \* pc[c]: where call c stands in createOrderOnce
    key,       \* key[c]: its idempotency key
    found,     \* found[c]: the order it is about to queue
    keyOf,     \* keyOf[o]: the key in platformOrderId of row o, None: no such row
    status,    \* status[o]: the order's status
    current,   \* currentOrderId of the conversation
    job,       \* job[o]: the confirmation job with id o
    attempts,  \* attempts[o]: attempts of that job that failed
    stalls,    \* stalls[o]: how often its worker died
    sent,      \* sent[o]: how often the confirmation texts went out
    told,      \* told[k]: orders returned to the agent for key k
    leftPending, \* orders that have not been PENDING all the time
    calls,     \* calls so far
    faults     \* faults so far

callVars == <<pc, key, found>>
rowVars == <<keyOf, status, current, leftPending>>
jobVars == <<job, attempts, stalls, sent>>
vars == <<callVars, rowVars, jobVars, told, calls, faults>>

\* createOrderOnce only tells PENDING from the other statuses.
Status == {"PENDING", "other"}
JobState == {"none", "waiting", "active", "sent", "completed", "failed"}
PC == {"idle", "find", "check", "insert", "refind", "enqueue"}

Init ==
    /\ pc = [c \in Call |-> "idle"]
    /\ key = [c \in Call |-> None]
    /\ found = [c \in Call |-> None]
    /\ keyOf = [o \in OrderId |-> None]
    /\ status = [o \in OrderId |-> "PENDING"]
    /\ job = [o \in OrderId |-> "none"]
    /\ attempts = [o \in OrderId |-> 0]
    /\ stalls = [o \in OrderId |-> 0]
    /\ sent = [o \in OrderId |-> 0]
    /\ told = [k \in Key |-> {}]
    /\ current = None
    /\ leftPending = {}
    /\ calls = 0
    /\ faults = 0

-----------------------------------------------------------------------------
(* The tool call, one action per await.                                    *)

\* The rows whose platformOrderId was made from k.
RowsOf(k) == {o \in OrderId : keyOf[o] = k}

Goto(c, l) == pc' = [pc EXCEPT ![c] = l]

\* The handler returns: nothing of the call stays with it.
Leave(c) ==
    /\ Goto(c, "idle")
    /\ key' = [key EXCEPT ![c] = None]
    /\ found' = [found EXCEPT ![c] = None]

Fault ==
    /\ faults < MaxFaults
    /\ faults' = faults + 1

Start(c, k) ==
    /\ pc[c] = "idle"
    /\ calls < MaxCalls
    /\ calls' = calls + 1
    /\ Goto(c, "find")
    /\ key' = [key EXCEPT ![c] = k]
    /\ UNCHANGED <<found, rowVars, jobVars, told, faults>>

\* Mutant of FinishWith: only the call that made the order queues its job.
FinishWithoutQueue(c, o) ==
    /\ told' = [told EXCEPT ![key[c]] = @ \cup {o}]
    /\ Leave(c)

\* finish(order): the order is returned, and queued first if the status read
\* with the row says it still waits.
FinishWith(c, o) ==
    \/ /\ status[o] = "PENDING"
       /\ found' = [found EXCEPT ![c] = o]
       /\ Goto(c, "enqueue")
       /\ UNCHANGED <<key, told>>
    \/ /\ status[o] # "PENDING"
       /\ told' = [told EXCEPT ![key[c]] = @ \cup {o}]
       /\ Leave(c)

\* findExisting gives no row: on to create.
FindNothing(c) ==
    /\ pc[c] = "find"
    /\ RowsOf(key[c]) = {}
    /\ Goto(c, "check")
    /\ UNCHANGED <<key, found, rowVars, jobVars, told, calls, faults>>

\* Mutant of FindExisting: the filter has the customer but not the key.
FindAnyOrder(c) ==
    /\ pc[c] = "find"
    /\ \E o \in OrderId : keyOf[o] # None /\ FinishWith(c, o)
    /\ UNCHANGED <<rowVars, jobVars, calls, faults>>

\* Mutant of FindExisting: the conversation is linked again on every call.
FindAndRelink(c) ==
    /\ pc[c] = "find"
    /\ \E o \in RowsOf(key[c]) : FinishWith(c, o) /\ current' = o
    /\ UNCHANGED <<keyOf, status, leftPending, jobVars, calls, faults>>

\* findExisting gives the row of an earlier call.
FindExisting(c) ==
    /\ pc[c] = "find"
    /\ \E o \in RowsOf(key[c]) : FinishWith(c, o)
    /\ UNCHANGED <<rowVars, jobVars, calls, faults>>

\* Commune, product and stock are in order.
Check(c) ==
    /\ pc[c] = "check"
    /\ Goto(c, "insert")
    /\ UNCHANGED <<key, found, rowVars, jobVars, told, calls, faults>>

\* One of them is not (or the read throws): the agent gets an error, no order.
Refuse(c) ==
    /\ pc[c] = "check"
    /\ Leave(c)
    /\ UNCHANGED <<rowVars, jobVars, told, calls, faults>>

\* Mutant of Insert: no unique index on (merchantId, platformOrderId).
InsertUnchecked(c) ==
    /\ pc[c] = "insert"
    /\ \E o \in OrderId :
          /\ keyOf[o] = None
          /\ keyOf' = [keyOf EXCEPT ![o] = key[c]]
          /\ found' = [found EXCEPT ![c] = o]
          /\ current' = o
    /\ Goto(c, "enqueue")
    /\ UNCHANGED <<key, status, leftPending, jobVars, told, calls, faults>>

\* The transaction commits: the unique index has no row of this key.  The new
\* row is PENDING and becomes the conversation's current order.
Insert(c) ==
    /\ pc[c] = "insert"
    /\ RowsOf(key[c]) = {}
    /\ \E o \in OrderId :
          /\ keyOf[o] = None
          /\ keyOf' = [keyOf EXCEPT ![o] = key[c]]
          /\ found' = [found EXCEPT ![c] = o]
          /\ current' = o
    /\ Goto(c, "enqueue")
    /\ UNCHANGED <<key, status, leftPending, jobVars, told, calls, faults>>

\* P2002: a parallel call with the key committed first.
Duplicate(c) ==
    /\ pc[c] = "insert"
    /\ RowsOf(key[c]) # {}
    /\ Goto(c, "refind")
    /\ UNCHANGED <<key, found, rowVars, jobVars, told, calls, faults>>

\* findExisting again gives the winner's row.
FindWinner(c) ==
    /\ pc[c] = "refind"
    /\ \E o \in RowsOf(key[c]) : FinishWith(c, o)
    /\ UNCHANGED <<rowVars, jobVars, calls, faults>>

\* Mutant of Enqueue: the job has no id of its own, so every add queues again.
EnqueueAgain(c) ==
    /\ pc[c] = "enqueue"
    /\ job' = [job EXCEPT ![found[c]] = "waiting"]
    /\ told' = [told EXCEPT ![key[c]] = @ \cup {found[c]}]
    /\ Leave(c)
    /\ UNCHANGED <<rowVars, attempts, stalls, sent, calls, faults>>

\* enqueueOrderJob: a job id that exists already is ignored.
Enqueue(c) ==
    /\ pc[c] = "enqueue"
    /\ job' = [job EXCEPT ![found[c]] = IF @ = "none" THEN "waiting" ELSE @]
    /\ told' = [told EXCEPT ![key[c]] = @ \cup {found[c]}]
    /\ Leave(c)
    /\ UNCHANGED <<rowVars, attempts, stalls, sent, calls, faults>>

\* A database or Redis step throws: the agent gets an error.  What was written
\* stays written.
CallFails(c) ==
    /\ pc[c] \in {"find", "insert", "refind", "enqueue"}
    /\ Fault
    /\ Leave(c)
    /\ UNCHANGED <<rowVars, jobVars, told, calls>>

-----------------------------------------------------------------------------
(* confirmOrder, cancelOrder and the merchant's bulk update.               *)
SetStatus(o, s) ==
    /\ keyOf[o] # None
    /\ status[o] # s
    /\ status' = [status EXCEPT ![o] = s]
    /\ leftPending' = leftPending \cup {o}
    /\ UNCHANGED <<callVars, keyOf, current, jobVars, told, calls, faults>>

-----------------------------------------------------------------------------
(* The order-confirmation worker.                                          *)
TakeJob(o) ==
    /\ job[o] = "waiting"
    /\ job' = [job EXCEPT ![o] = "active"]
    /\ UNCHANGED <<callVars, rowVars, attempts, stalls, sent, told, calls, faults>>

\* sendOrderConfirmation reaches the send.  It reads the order, not its status.
SendConfirmation(o) ==
    /\ job[o] = "active"
    /\ job' = [job EXCEPT ![o] = "sent"]
    /\ sent' = [sent EXCEPT ![o] = @ + 1]
    /\ UNCHANGED <<callVars, rowVars, attempts, stalls, told, calls, faults>>

\* Mutant of SkipSend: the job waits for WhatsApp to be connected again.
SkipSendForNow(o) ==
    /\ job[o] = "active"
    /\ job' = [job EXCEPT ![o] = "waiting"]
    /\ UNCHANGED <<callVars, rowVars, attempts, stalls, sent, told, calls, faults>>

\* WhatsApp is not connected, the customer has no phone, or the send throws.
SkipSend(o) ==
    /\ job[o] = "active"
    /\ job' = [job EXCEPT ![o] = "sent"]
    /\ UNCHANGED <<callVars, rowVars, attempts, stalls, sent, told, calls, faults>>

\* Everything after the rows is logged and swallowed, so the job completes.
CompleteJob(o) ==
    /\ job[o] = "sent"
    /\ job' = [job EXCEPT ![o] = "completed"]
    /\ UNCHANGED <<callVars, rowVars, attempts, stalls, sent, told, calls, faults>>

\* A read or a row write before the send throws: retry, or give up.
FailJob(o) ==
    /\ job[o] = "active"
    /\ Fault
    /\ attempts' = [attempts EXCEPT ![o] = @ + 1]
    /\ job' = [job EXCEPT ![o] = IF attempts[o] + 1 < MaxAttempts THEN "waiting" ELSE "failed"]
    /\ UNCHANGED <<callVars, rowVars, stalls, sent, told, calls>>

\* What BullMQ makes of the job of a dead worker: it runs again, MaxStalls times.
Restarted(o) ==
    IF job[o] \notin {"active", "sent"} THEN job[o]
    ELSE IF stalls[o] < MaxStalls THEN "waiting" ELSE "failed"

\* back dies: calls and workers stop where they are; rows and jobs remain.
Crash ==
    /\ Fault
    /\ pc' = [c \in Call |-> "idle"]
    /\ key' = [c \in Call |-> None]
    /\ found' = [c \in Call |-> None]
    /\ job' = [o \in OrderId |-> Restarted(o)]
    /\ stalls' = [o \in OrderId |-> IF job[o] \in {"active", "sent"} THEN stalls[o] + 1 ELSE stalls[o]]
    /\ UNCHANGED <<rowVars, attempts, sent, told, calls>>

-----------------------------------------------------------------------------
CallStep(c) ==
    \/ FindNothing(c) \/ FindExisting(c) \/ Check(c) \/ Refuse(c) \/ Insert(c) \/ Duplicate(c)
    \/ FindWinner(c) \/ Enqueue(c)

WorkerStep(o) == TakeJob(o) \/ SendConfirmation(o) \/ SkipSend(o) \/ CompleteJob(o)

Next ==
    \/ \E c \in Call : CallStep(c) \/ CallFails(c) \/ \E k \in Key : Start(c, k)
    \/ \E o \in OrderId : WorkerStep(o) \/ FailJob(o) \/ \E s \in Status : SetStatus(o, s)
    \/ Crash

Spec == Init /\ [][Next]_vars

\* back's event loop runs handlers and workers that can go on.
FairSpec ==
    /\ Spec
    /\ \A c \in Call : WF_vars(CallStep(c))
    /\ \A o \in OrderId : WF_vars(WorkerStep(o))
-----------------------------------------------------------------------------
\* A call has a key exactly while it runs, and an order exactly while it is about
\* to queue it.
TypeOK ==
    /\ pc \in [Call -> PC]
    /\ key \in [Call -> Key \cup {None}]
    /\ \A c \in Call : pc[c] = "idle" <=> key[c] = None
    /\ found \in [Call -> OrderId \cup {None}]
    /\ \A c \in Call : pc[c] = "enqueue" <=> found[c] # None
    /\ keyOf \in [OrderId -> Key \cup {None}]
    /\ status \in [OrderId -> Status]
    /\ current \in OrderId \cup {None}
    /\ leftPending \subseteq OrderId
    /\ job \in [OrderId -> JobState]
    /\ attempts \in [OrderId -> Nat]
    /\ stalls \in [OrderId -> Nat]
    /\ sent \in [OrderId -> Nat]
    /\ told \in [Key -> SUBSET OrderId]
    /\ calls \in Nat
    /\ faults \in Nat

\* ADR 0001: "One customer message makes at most one order", however many calls
\* carry its key, in parallel, after a crash or after an error.
OneOrderPerKey ==
    \A o, p \in OrderId : keyOf[o] # None /\ keyOf[o] = keyOf[p] => o = p

\* createOrderOnce.ts: "a repeat gives back the first order".  All successful
\* calls with one key return one order, the row that carries the key.
RepeatsReturnTheOrder ==
    \A k \in Key : \A o \in told[k] : keyOf[o] = k /\ RowsOf(k) = {o}

\* createOrderOnce.ts: a first call that died between the row and the queue is
\* made good by the repeat.  An order the agent was told about has its
\* confirmation job, unless it stopped waiting.
ToldOrdersAreQueued ==
    \A k \in Key : \A o \in told[k] : job[o] # "none" \/ o \in leftPending

\* order.queue.ts: the job id makes repeats harmless.  The confirmation goes
\* out again only when the worker died after sending it.
ConfirmedOncePerWorker ==
    \A o \in OrderId : sent[o] <= 1 + stalls[o]

\* A repeat of an old key does not point the conversation back at the old order:
\* the current order only ever moves to a row that was not there before.
CurrentMovesToNewOrders ==
    [][current' # current => keyOf[current'] = None]_vars

\* Every order the agent told the customer about is followed up: its
\* confirmation job ends (done, or given up after MaxAttempts failures or
\* MaxStalls dead workers), or the order stopped waiting.
ToldOrdersAreFollowedUp ==
    \A k \in Key, o \in OrderId :
        o \in told[k] ~> (job[o] \in {"completed", "failed"} \/ o \in leftPending)
=============================================================================
