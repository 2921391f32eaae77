-------------------------- MODULE OrderIntakeProofs -------------------------
(***************************************************************************)
(* The two ways an order comes into back.                                  *)
(*                                                                         *)
(* By the createOrder tool (CreateOrderOnce): one order per key, and one   *)
(* order returned per key, for any number of keys, parallel calls,         *)
(* repeats, crashes and failing steps.                                     *)
(*                                                                         *)
(* From the shop (StoreOrders): the customer is told of an order once, and *)
(* the transcript has one entry per message, for any number of orders,     *)
(* overlapping requests, redeliveries, repeated webhooks and faults.       *)
(***************************************************************************)
EXTENDS CreateOrderOnce, StoreOrders, FiniteSetTheorems, SequenceTheorems, TLAPS

USE NoneAssumption, BoundAssumption

\* The order a call is about to queue carries the call's key.
FoundHasKey == \A c \in Call : found[c] # None => keyOf[found[c]] = key[c]

\* An order that does not wait any more is remembered as such.
SettledIsRemembered == \A o \in OrderId : status[o] # "PENDING" => o \in leftPending

IInv ==
    /\ TypeOK
    /\ OneOrderPerKey
    /\ FoundHasKey
    /\ RepeatsReturnTheOrder
    /\ SettledIsRemembered
    /\ ToldOrdersAreQueued

\* Every step keeps the types of the variables.
LEMMA TypeStep == TypeOK /\ [Next]_vars => TypeOK'
<1> SUFFICES ASSUME TypeOK, [Next]_vars PROVE TypeOK'
  OBVIOUS
<1> USE DEF TypeOK, PC, JobState, Status, callVars, rowVars, jobVars
<1>1. ASSUME NEW c \in Call, NEW k \in Key, Start(c, k) PROVE TypeOK'
  BY <1>1 DEF Start, Goto
<1>2. ASSUME NEW c \in Call, FindNothing(c) PROVE TypeOK'
  BY <1>2 DEF FindNothing, Goto, RowsOf
<1>3. ASSUME NEW c \in Call, FindExisting(c) PROVE TypeOK'
  BY <1>3 DEF FindExisting, FinishWith, Leave, Goto, RowsOf
<1>4. ASSUME NEW c \in Call, Check(c) PROVE TypeOK'
  BY <1>4 DEF Check, Goto
<1>5. ASSUME NEW c \in Call, Refuse(c) PROVE TypeOK'
  BY <1>5 DEF Refuse, Leave, Goto
<1>6. ASSUME NEW c \in Call, Insert(c) PROVE TypeOK'
  BY <1>6 DEF Insert, Goto, RowsOf
<1>7. ASSUME NEW c \in Call, Duplicate(c) PROVE TypeOK'
  BY <1>7 DEF Duplicate, Goto, RowsOf
<1>8. ASSUME NEW c \in Call, FindWinner(c) PROVE TypeOK'
  BY <1>8 DEF FindWinner, FinishWith, Leave, Goto, RowsOf
<1>9. ASSUME NEW c \in Call, Enqueue(c) PROVE TypeOK'
  BY <1>9 DEF Enqueue, Leave, Goto
<1>10. ASSUME NEW c \in Call, CallFails(c) PROVE TypeOK'
  BY <1>10 DEF CallFails, Leave, Goto, Fault
<1>11. ASSUME NEW o \in OrderId, NEW s \in Status, SetStatus(o, s) PROVE TypeOK'
  BY <1>11 DEF SetStatus
<1>12. ASSUME NEW o \in OrderId, TakeJob(o) PROVE TypeOK'
  BY <1>12 DEF TakeJob
<1>13. ASSUME NEW o \in OrderId, SendConfirmation(o) PROVE TypeOK'
  BY <1>13 DEF SendConfirmation
<1>14. ASSUME NEW o \in OrderId, SkipSend(o) PROVE TypeOK'
  BY <1>14 DEF SkipSend
<1>15. ASSUME NEW o \in OrderId, CompleteJob(o) PROVE TypeOK'
  BY <1>15 DEF CompleteJob
<1>16. ASSUME NEW o \in OrderId, FailJob(o) PROVE TypeOK'
  BY <1>16 DEF FailJob, Fault
<1>17. ASSUME Crash PROVE TypeOK'
  BY <1>17 DEF Crash, Restarted, Fault
<1>18. CASE UNCHANGED vars
  BY <1>18 DEF vars
<1> QED
  BY <1>1, <1>2, <1>3, <1>4, <1>5, <1>6, <1>7, <1>8, <1>9, <1>10, <1>11, <1>12, <1>13, <1>14,
     <1>15, <1>16, <1>17, <1>18 DEF Next, CallStep, WorkerStep

\* Every variable of the order path keeps its type.
THEOREM TypeCorrect == Spec => []TypeOK
<1>1. Init => TypeOK
  BY DEF Init, TypeOK, PC, JobState, Status
<1> QED
  BY <1>1, TypeStep, PTL DEF Spec

\* Only Insert writes a key, into a fresh row and only when no row has it.
LEMMA KeyStep == IInv /\ [Next]_vars => (OneOrderPerKey /\ FoundHasKey)'
<1> SUFFICES ASSUME IInv, [Next]_vars PROVE (OneOrderPerKey /\ FoundHasKey)'
  OBVIOUS
<1> USE DEF IInv, TypeOK, OneOrderPerKey, FoundHasKey, PC, callVars, rowVars, jobVars
<1>1. ASSUME NEW c \in Call, NEW k \in Key, Start(c, k) PROVE (OneOrderPerKey /\ FoundHasKey)'
  BY <1>1 DEF Start, Goto
<1>2. ASSUME NEW c \in Call, FindNothing(c) PROVE (OneOrderPerKey /\ FoundHasKey)'
  BY <1>2 DEF FindNothing, Goto, RowsOf
<1>3. ASSUME NEW c \in Call, FindExisting(c) PROVE (OneOrderPerKey /\ FoundHasKey)'
  BY <1>3 DEF FindExisting, FinishWith, Leave, Goto, RowsOf
<1>4. ASSUME NEW c \in Call, Check(c) PROVE (OneOrderPerKey /\ FoundHasKey)'
  BY <1>4 DEF Check, Goto
<1>5. ASSUME NEW c \in Call, Refuse(c) PROVE (OneOrderPerKey /\ FoundHasKey)'
  BY <1>5 DEF Refuse, Leave, Goto
<1>6. ASSUME NEW c \in Call, Insert(c) PROVE (OneOrderPerKey /\ FoundHasKey)'
  BY <1>6 DEF Insert, Goto, RowsOf
<1>7. ASSUME NEW c \in Call, Duplicate(c) PROVE (OneOrderPerKey /\ FoundHasKey)'
  BY <1>7 DEF Duplicate, Goto, RowsOf
<1>8. ASSUME NEW c \in Call, FindWinner(c) PROVE (OneOrderPerKey /\ FoundHasKey)'
  BY <1>8 DEF FindWinner, FinishWith, Leave, Goto, RowsOf
<1>9. ASSUME NEW c \in Call, Enqueue(c) PROVE (OneOrderPerKey /\ FoundHasKey)'
  BY <1>9 DEF Enqueue, Leave, Goto
<1>10. ASSUME NEW c \in Call, CallFails(c) PROVE (OneOrderPerKey /\ FoundHasKey)'
  BY <1>10 DEF CallFails, Leave, Goto, Fault
<1>11. ASSUME NEW o \in OrderId, NEW s \in Status, SetStatus(o, s)
      PROVE (OneOrderPerKey /\ FoundHasKey)'
  BY <1>11 DEF SetStatus
<1>12. ASSUME NEW o \in OrderId, TakeJob(o) PROVE (OneOrderPerKey /\ FoundHasKey)'
  BY <1>12 DEF TakeJob
<1>13. ASSUME NEW o \in OrderId, SendConfirmation(o) PROVE (OneOrderPerKey /\ FoundHasKey)'
  BY <1>13 DEF SendConfirmation
<1>14. ASSUME NEW o \in OrderId, SkipSend(o) PROVE (OneOrderPerKey /\ FoundHasKey)'
  BY <1>14 DEF SkipSend
<1>15. ASSUME NEW o \in OrderId, CompleteJob(o) PROVE (OneOrderPerKey /\ FoundHasKey)'
  BY <1>15 DEF CompleteJob
<1>16. ASSUME NEW o \in OrderId, FailJob(o) PROVE (OneOrderPerKey /\ FoundHasKey)'
  BY <1>16 DEF FailJob, Fault
<1>17. ASSUME Crash PROVE (OneOrderPerKey /\ FoundHasKey)'
  BY <1>17 DEF Crash, Restarted, Fault
<1>18. CASE UNCHANGED vars
  BY <1>18 DEF vars
<1> QED
  BY <1>1, <1>2, <1>3, <1>4, <1>5, <1>6, <1>7, <1>8, <1>9, <1>10, <1>11, <1>12, <1>13, <1>14,
     <1>15, <1>16, <1>17, <1>18 DEF Next, CallStep, WorkerStep

\* What a call returns is the row of its key, and rows never change their key.
LEMMA ToldStep == IInv /\ [Next]_vars => RepeatsReturnTheOrder'
<1> SUFFICES ASSUME IInv, [Next]_vars PROVE RepeatsReturnTheOrder'
  OBVIOUS
<1> USE DEF IInv, TypeOK, OneOrderPerKey, FoundHasKey, RepeatsReturnTheOrder, RowsOf, PC, callVars,
   rowVars, jobVars
<1>1. ASSUME NEW c \in Call, NEW k \in Key, Start(c, k) PROVE RepeatsReturnTheOrder'
  BY <1>1 DEF Start, Goto
<1>2. ASSUME NEW c \in Call, FindNothing(c) PROVE RepeatsReturnTheOrder'
  BY <1>2 DEF FindNothing, Goto, RowsOf
<1>3. ASSUME NEW c \in Call, FindExisting(c) PROVE RepeatsReturnTheOrder'
  BY <1>3 DEF FindExisting, FinishWith, Leave, Goto, RowsOf
<1>4. ASSUME NEW c \in Call, Check(c) PROVE RepeatsReturnTheOrder'
  BY <1>4 DEF Check, Goto
<1>5. ASSUME NEW c \in Call, Refuse(c) PROVE RepeatsReturnTheOrder'
  BY <1>5 DEF Refuse, Leave, Goto
<1>6. ASSUME NEW c \in Call, Insert(c) PROVE RepeatsReturnTheOrder'
  BY <1>6 DEF Insert, Goto, RowsOf
<1>7. ASSUME NEW c \in Call, Duplicate(c) PROVE RepeatsReturnTheOrder'
  BY <1>7 DEF Duplicate, Goto, RowsOf
<1>8. ASSUME NEW c \in Call, FindWinner(c) PROVE RepeatsReturnTheOrder'
  BY <1>8 DEF FindWinner, FinishWith, Leave, Goto, RowsOf
<1>9. ASSUME NEW c \in Call, Enqueue(c) PROVE RepeatsReturnTheOrder'
  BY <1>9 DEF Enqueue, Leave, Goto
<1>10. ASSUME NEW c \in Call, CallFails(c) PROVE RepeatsReturnTheOrder'
  BY <1>10 DEF CallFails, Leave, Goto, Fault
<1>11. ASSUME NEW o \in OrderId, NEW s \in Status, SetStatus(o, s) PROVE RepeatsReturnTheOrder'
  BY <1>11 DEF SetStatus
<1>12. ASSUME NEW o \in OrderId, TakeJob(o) PROVE RepeatsReturnTheOrder'
  BY <1>12 DEF TakeJob
<1>13. ASSUME NEW o \in OrderId, SendConfirmation(o) PROVE RepeatsReturnTheOrder'
  BY <1>13 DEF SendConfirmation
<1>14. ASSUME NEW o \in OrderId, SkipSend(o) PROVE RepeatsReturnTheOrder'
  BY <1>14 DEF SkipSend
<1>15. ASSUME NEW o \in OrderId, CompleteJob(o) PROVE RepeatsReturnTheOrder'
  BY <1>15 DEF CompleteJob
<1>16. ASSUME NEW o \in OrderId, FailJob(o) PROVE RepeatsReturnTheOrder'
  BY <1>16 DEF FailJob, Fault
<1>17. ASSUME Crash PROVE RepeatsReturnTheOrder'
  BY <1>17 DEF Crash, Restarted, Fault
<1>18. CASE UNCHANGED vars
  BY <1>18 DEF vars
<1> QED
  BY <1>1, <1>2, <1>3, <1>4, <1>5, <1>6, <1>7, <1>8, <1>9, <1>10, <1>11, <1>12, <1>13, <1>14,
     <1>15, <1>16, <1>17, <1>18 DEF Next, CallStep, WorkerStep

\* A job is never forgotten, and an order is told about after its job is queued
\* or after it stopped waiting.
LEMMA QueueStep == IInv /\ [Next]_vars => (SettledIsRemembered /\ ToldOrdersAreQueued)'
<1> SUFFICES ASSUME IInv, [Next]_vars PROVE (SettledIsRemembered /\ ToldOrdersAreQueued)'
  OBVIOUS
<1> USE DEF IInv, TypeOK, SettledIsRemembered, ToldOrdersAreQueued, PC, JobState, Status, callVars,
   rowVars, jobVars
<1>1. ASSUME NEW c \in Call, NEW k \in Key, Start(c, k)
      PROVE (SettledIsRemembered /\ ToldOrdersAreQueued)'
  BY <1>1 DEF Start, Goto
<1>2. ASSUME NEW c \in Call, FindNothing(c) PROVE (SettledIsRemembered /\ ToldOrdersAreQueued)'
  BY <1>2 DEF FindNothing, Goto, RowsOf
<1>3. ASSUME NEW c \in Call, FindExisting(c) PROVE (SettledIsRemembered /\ ToldOrdersAreQueued)'
  BY <1>3 DEF FindExisting, FinishWith, Leave, Goto, RowsOf
<1>4. ASSUME NEW c \in Call, Check(c) PROVE (SettledIsRemembered /\ ToldOrdersAreQueued)'
  BY <1>4 DEF Check, Goto
<1>5. ASSUME NEW c \in Call, Refuse(c) PROVE (SettledIsRemembered /\ ToldOrdersAreQueued)'
  BY <1>5 DEF Refuse, Leave, Goto
<1>6. ASSUME NEW c \in Call, Insert(c) PROVE (SettledIsRemembered /\ ToldOrdersAreQueued)'
  BY <1>6 DEF Insert, Goto, RowsOf
<1>7. ASSUME NEW c \in Call, Duplicate(c) PROVE (SettledIsRemembered /\ ToldOrdersAreQueued)'
  BY <1>7 DEF Duplicate, Goto, RowsOf
<1>8. ASSUME NEW c \in Call, FindWinner(c) PROVE (SettledIsRemembered /\ ToldOrdersAreQueued)'
  BY <1>8 DEF FindWinner, FinishWith, Leave, Goto, RowsOf
<1>9. ASSUME NEW c \in Call, Enqueue(c) PROVE (SettledIsRemembered /\ ToldOrdersAreQueued)'
  BY <1>9 DEF Enqueue, Leave, Goto
<1>10. ASSUME NEW c \in Call, CallFails(c) PROVE (SettledIsRemembered /\ ToldOrdersAreQueued)'
  BY <1>10 DEF CallFails, Leave, Goto, Fault
<1>11. ASSUME NEW o \in OrderId, NEW s \in Status, SetStatus(o, s)
      PROVE (SettledIsRemembered /\ ToldOrdersAreQueued)'
  BY <1>11 DEF SetStatus
<1>12. ASSUME NEW o \in OrderId, TakeJob(o) PROVE (SettledIsRemembered /\ ToldOrdersAreQueued)'
  BY <1>12 DEF TakeJob
<1>13. ASSUME NEW o \in OrderId, SendConfirmation(o) PROVE (SettledIsRemembered /\ ToldOrdersAreQueued)'
  BY <1>13 DEF SendConfirmation
<1>14. ASSUME NEW o \in OrderId, SkipSend(o) PROVE (SettledIsRemembered /\ ToldOrdersAreQueued)'
  BY <1>14 DEF SkipSend
<1>15. ASSUME NEW o \in OrderId, CompleteJob(o) PROVE (SettledIsRemembered /\ ToldOrdersAreQueued)'
  BY <1>15 DEF CompleteJob
<1>16. ASSUME NEW o \in OrderId, FailJob(o) PROVE (SettledIsRemembered /\ ToldOrdersAreQueued)'
  BY <1>16 DEF FailJob, Fault
<1>17. ASSUME Crash PROVE (SettledIsRemembered /\ ToldOrdersAreQueued)'
  BY <1>17 DEF Crash, Restarted, Fault
<1>18. CASE UNCHANGED vars
  BY <1>18 DEF vars
<1> QED
  BY <1>1, <1>2, <1>3, <1>4, <1>5, <1>6, <1>7, <1>8, <1>9, <1>10, <1>11, <1>12, <1>13, <1>14,
     <1>15, <1>16, <1>17, <1>18 DEF Next, CallStep, WorkerStep

\* The inductive invariant holds in every reachable state.
THEOREM Inductive == Spec => []IInv
<1>1. Init => IInv
  BY DEF Init, IInv, TypeOK, OneOrderPerKey, FoundHasKey, RepeatsReturnTheOrder,
     SettledIsRemembered,
         ToldOrdersAreQueued, PC, JobState, Status
<1>2. IInv /\ [Next]_vars => IInv'
  BY TypeStep, KeyStep, ToldStep, QueueStep DEF IInv
<1> QED
  BY <1>1, <1>2, PTL DEF Spec

\* ADR 0001: one customer message makes at most one order.
THEOREM AtMostOneOrder == Spec => []OneOrderPerKey
<1>1. IInv => OneOrderPerKey
  BY DEF IInv
<1> QED
  BY <1>1, Inductive, PTL

\* Every successful call with a key returns the one order of that key.
THEOREM SameOrder == Spec => []RepeatsReturnTheOrder
<1>1. IInv => RepeatsReturnTheOrder
  BY DEF IInv
<1> QED
  BY <1>1, Inductive, PTL

\* An order the agent was told about has its confirmation job or was settled,
\* also when the call that made it died before it could queue the job.
THEOREM NoForgottenOrder == Spec => []ToldOrdersAreQueued
<1>1. IInv => ToldOrdersAreQueued
  BY DEF IInv
<1> QED
  BY <1>1, Inductive, PTL

\* Only Insert moves the conversation's current order, to a row it has just made:
\* a late repeat of an old key never points it back.
THEOREM RepeatsKeepTheCurrentOrder == Spec => CurrentMovesToNewOrders
<1>1. [Next]_vars => [current' # current => keyOf[current'] = None]_vars
  <2> SUFFICES ASSUME Next, current' # current PROVE keyOf[current'] = None
    BY DEF vars, rowVars
  <2>1. CASE \E c \in Call : Insert(c)
    BY <2>1 DEF Insert
  <2>2. CASE ~ \E c \in Call : Insert(c)
    BY <2>2 DEF Next, CallStep, WorkerStep, rowVars, Start, FindNothing, FindExisting, Check,
       Refuse, Duplicate,
                FindWinner, Enqueue, CallFails, SetStatus, TakeJob, SendConfirmation, SkipSend, CompleteJob,
                FailJob, Crash
  <2> QED
    BY <2>1, <2>2
<1> QED
  BY <1>1, PTL DEF Spec, CurrentMovesToNewOrders

\* The account of sends: a job that has not sent in its present run has sent at
\* most once for each worker that died with it.
SendsAreAccountedFor ==
    \A o \in OrderId :
        /\ sent[o] <= 1 + stalls[o]
        /\ job[o] \in {"none", "waiting", "active"} => sent[o] <= stalls[o]

\* A job leaves "sent" for the queue only when its worker died.
LEMMA SentStep == TypeOK /\ SendsAreAccountedFor /\ [Next]_vars => SendsAreAccountedFor'
<1> SUFFICES ASSUME TypeOK, SendsAreAccountedFor, [Next]_vars PROVE SendsAreAccountedFor'
  OBVIOUS
<1> USE DEF TypeOK, SendsAreAccountedFor, PC, JobState, Status, callVars, rowVars, jobVars
<1>1. ASSUME NEW c \in Call, NEW k \in Key, Start(c, k) PROVE SendsAreAccountedFor'
  BY <1>1 DEF Start, Goto
<1>2. ASSUME NEW c \in Call, FindNothing(c) PROVE SendsAreAccountedFor'
  BY <1>2 DEF FindNothing, Goto, RowsOf
<1>3. ASSUME NEW c \in Call, FindExisting(c) PROVE SendsAreAccountedFor'
  BY <1>3 DEF FindExisting, FinishWith, Leave, Goto, RowsOf
<1>4. ASSUME NEW c \in Call, Check(c) PROVE SendsAreAccountedFor'
  BY <1>4 DEF Check, Goto
<1>5. ASSUME NEW c \in Call, Refuse(c) PROVE SendsAreAccountedFor'
  BY <1>5 DEF Refuse, Leave, Goto
<1>6. ASSUME NEW c \in Call, Insert(c) PROVE SendsAreAccountedFor'
  BY <1>6 DEF Insert, Goto, RowsOf
<1>7. ASSUME NEW c \in Call, Duplicate(c) PROVE SendsAreAccountedFor'
  BY <1>7 DEF Duplicate, Goto, RowsOf
<1>8. ASSUME NEW c \in Call, FindWinner(c) PROVE SendsAreAccountedFor'
  BY <1>8 DEF FindWinner, FinishWith, Leave, Goto, RowsOf
<1>9. ASSUME NEW c \in Call, Enqueue(c) PROVE SendsAreAccountedFor'
  BY <1>9 DEF Enqueue, Leave, Goto
<1>10. ASSUME NEW c \in Call, CallFails(c) PROVE SendsAreAccountedFor'
  BY <1>10 DEF CallFails, Leave, Goto, Fault
<1>11. ASSUME NEW o \in OrderId, NEW s \in Status, SetStatus(o, s) PROVE SendsAreAccountedFor'
  BY <1>11 DEF SetStatus
<1>12. ASSUME NEW o \in OrderId, TakeJob(o) PROVE SendsAreAccountedFor'
  BY <1>12 DEF TakeJob
<1>13. ASSUME NEW o \in OrderId, SendConfirmation(o) PROVE SendsAreAccountedFor'
  BY <1>13 DEF SendConfirmation
<1>14. ASSUME NEW o \in OrderId, SkipSend(o) PROVE SendsAreAccountedFor'
  BY <1>14 DEF SkipSend
<1>15. ASSUME NEW o \in OrderId, CompleteJob(o) PROVE SendsAreAccountedFor'
  BY <1>15 DEF CompleteJob
<1>16. ASSUME NEW o \in OrderId, FailJob(o) PROVE SendsAreAccountedFor'
  BY <1>16 DEF FailJob, Fault
<1>17. ASSUME Crash PROVE SendsAreAccountedFor'
  BY <1>17 DEF Crash, Restarted, Fault
<1>18. CASE UNCHANGED vars
  BY <1>18 DEF vars
<1> QED
  BY <1>1, <1>2, <1>3, <1>4, <1>5, <1>6, <1>7, <1>8, <1>9, <1>10, <1>11, <1>12, <1>13, <1>14,
     <1>15, <1>16, <1>17, <1>18 DEF Next, CallStep, WorkerStep

\* order.queue.ts: the job id makes repeated calls harmless, so the confirmation
\* goes out again only after the death of a worker that had sent it.
THEOREM ConfirmedOnce == Spec => []ConfirmedOncePerWorker
<1>1. Init => SendsAreAccountedFor
  BY DEF Init, SendsAreAccountedFor
<1>2. SendsAreAccountedFor => ConfirmedOncePerWorker
  BY DEF SendsAreAccountedFor, ConfirmedOncePerWorker
<1> QED
  BY <1>1, <1>2, SentStep, TypeCorrect, PTL DEF Spec

-----------------------------------------------------------------------------
(* Orders of the shop.                                                     *)

USE OrdersAssumption, NothingAssumption

\* A webhook that made the row of its order and has not yet told the customer.
Telling(q, o) == q.kind = "hook" /\ q.ord = o /\ q.pc \in {"notify", "link", "open", "send"}

\* The messages that tell the customer of a new order.
News(o) == {i \in DOMAIN sends : sends[i] = <<o, "NEW">>}

\* An order is told by the one request that made its row, and not before.
ToldInv ==
    \A o \in Order :
        /\ News(o) # {} => row[o] # Nothing
        /\ \A i, j \in News(o) : i = j
        /\ \A r \in Req : Telling(req[r], o) => row[o] # Nothing /\ News(o) = {}
        /\ \A r, q \in Req : Telling(req[r], o) /\ Telling(req[q], o) => r = q

\* What a request was given and what it has found out so far.
RequestOK(q) ==
    /\ q.kind \in {"hook", "sync"} => q.ord \in Order /\ q.val \in Payment
    /\ q.kind \in {"carrier", "ship"} => q.ord \in Order
    /\ q.kind = "carrier" => q.val \in Event
    /\ q.kind = "carrier" /\ q.pc \in {"notify", "link", "open", "send"} => q.val # "CANCELLED"

\* The sends whose webhook may add a second entry.
Exempt == late \cup early

\* The entry of send i, if there is one, carries an id: it is not a reply that
\* still waits for its id.
Named(i) == \A j \in DOMAIN rows : rows[j].of = i => rows[j].id # 0

\* A row stands for a send or for none yet, it has the id that send answered, and
\* only a reply of ours has no id.
RowOK(m) ==
    /\ m.of \in DOMAIN sends \cup {0}
    /\ m.of = 0 => m.id = 0
    /\ m.of \notin Exempt => m.id \in {0, AnswerId(m.of)}
    /\ m.of # 0 => m.text = sends[m.of]
    /\ m.of # 0 /\ m.id = 0 => m.sender = "AI"

\* A reply whose row is written and that is not through yet.
Replying(q) == q.kind = "reply" /\ q.pc \in {"send", "name"}

\* What a request about to write a row relies on: nobody else has an entry without
\* id for its send, and the row of a reply is still as it was written.
Prepared(q) ==
    /\ q.kind \in {"hook", "carrier"} /\ q.pc = "store" => q.msg \in DOMAIN sends /\ Named(q.msg)
    /\ q.kind = "echo" => q.msg \in DOMAIN sends
    /\ q.kind = "echo" /\ q.pc = "store" => q.msg \in Exempt \/ (q.msg \notin alien /\ Named(q.msg))
    /\ Replying(q) => q.msg \in DOMAIN rows
    /\ q.kind = "reply" /\ q.pc = "send" =>
          rows[q.msg] = [id |-> 0, of |-> 0, text |-> Reply, sender |-> "AI"]

EntryInv ==
    /\ \A j \in DOMAIN rows : RowOK(rows[j])
    /\ \A r \in Req : Prepared(req[r])
    /\ \A r, q \in Req : Replying(req[r]) /\ Replying(req[q]) /\ req[r].msg = req[q].msg => r = q
    /\ OneEntryPerSend

RequestsOK == \A r \in Req : RequestOK(req[r])

ShopIInv == ShopTypeOK /\ RequestsOK /\ ToldInv /\ EntryInv

-----------------------------------------------------------------------------
(* Types. *)

PCs == {"idle", "find", "update", "create", "notify", "link", "open", "send", "store", "name", "recent"}

\* A request that goes on stays a request, and so does one that is over.
LEMMA RequestMoves ==
    ASSUME req \in [Req -> Request], NEW r \in Req, NEW l \in PCs
    PROVE  /\ [req EXCEPT ![r].pc = l] \in [Req -> Request]
           /\ [req EXCEPT ![r] = Idle] \in [Req -> Request]
           /\ \A i \in Nat : [req EXCEPT ![r].pc = l, ![r].msg = i] \in [Req -> Request]
<1>1. Idle \in Request
  BY DEF Idle, Request
<1>2. [req[r] EXCEPT !.pc = l] \in Request
  BY DEF Request, PCs
<1>3. ASSUME NEW i \in Nat PROVE [[req[r] EXCEPT !.pc = l] EXCEPT !.msg = i] \in Request
  BY DEF Request, PCs
<1> QED
  BY <1>1, <1>2, <1>3

\* A request that is taken on is a request.
LEMMA RequestStarts ==
    ASSUME req \in [Req -> Request], NEW r \in Req, NEW k \in Kind, NEW o \in Order \cup {Nothing},
           NEW v \in ShopStatus \cup {Nothing}, NEW i \in Nat, Serve(r, k, o, v, i)
    PROVE  req' \in [Req -> Request]
  BY DEF Serve, Request

\* The types of the variables a step of a request may change beside its own state.
OrderTypes ==
    /\ row \in [Order -> ShopStatus \cup {Nothing}]
    /\ track \in [Order -> BOOLEAN]
    /\ parcels \in [Order -> Nat]
    /\ conv \in Order \cup {"absent", Nothing}
    /\ session \in {"connected", "ready", "disconnected"}

ChatTypes ==
    /\ sends \in Seq(Text)
    /\ (echoes \cup alien \cup late \cup early) \subseteq DOMAIN sends
    /\ rows \in Seq(Entry)

\* The ids the sends so far answered stay what they are.
AnswersKept == \A i \in DOMAIN sends : i \in alien' <=> i \in alien

\* A text is added to the messages of the account.
LEMMA SendTypes ==
    ASSUME ChatTypes, NEW t \in Text, sends' = Append(sends, t),
           echoes' = echoes \cup {NextId}, alien' \in {alien, alien \cup {NextId}},
           late' = late, early' = early
    PROVE  /\ sends' \in Seq(Text)
           /\ (echoes' \cup alien' \cup late' \cup early') \subseteq DOMAIN sends'
           /\ AnswersKept
           /\ NextId \in Nat /\ NextId # 0
           /\ DOMAIN sends' = DOMAIN sends \cup {NextId} /\ NextId \notin DOMAIN sends
           /\ sends'[NextId] = t
           /\ \A i \in DOMAIN sends : sends'[i] = sends[i]
<1>1. Len(sends) \in Nat /\ DOMAIN sends = 1..Len(sends)
  BY DEF ChatTypes
<1>2. sends' \in Seq(Text) /\ Len(sends') = Len(sends) + 1
  BY <1>1 DEF ChatTypes
<1>3. DOMAIN sends' = 1..(Len(sends) + 1)
  BY <1>2
<1>4. DOMAIN sends' = DOMAIN sends \cup {NextId} /\ NextId \notin DOMAIN sends
  BY <1>1, <1>3 DEF NextId
<1>5. sends'[NextId] = t /\ \A i \in DOMAIN sends : sends'[i] = sends[i]
  BY <1>1 DEF NextId, ChatTypes
<1> QED
  BY <1>1, <1>2, <1>4, <1>5 DEF NextId, ChatTypes, AnswersKept

\* An entry is added to the transcript.
LEMMA EntryTypes ==
    ASSUME ChatTypes, NEW m \in Entry, rows' = Append(rows, m)
    PROVE  /\ rows' \in Seq(Entry)
           /\ DOMAIN rows' = DOMAIN rows \cup {Len(rows) + 1} /\ Len(rows) + 1 \notin DOMAIN rows
           /\ Len(rows) + 1 \in Nat
           /\ rows'[Len(rows) + 1] = m
           /\ \A j \in DOMAIN rows : rows'[j] = rows[j]
<1>1. Len(rows) \in Nat /\ DOMAIN rows = 1..Len(rows)
  BY DEF ChatTypes
<1>2. rows' \in Seq(Entry) /\ Len(rows') = Len(rows) + 1
  BY <1>1 DEF ChatTypes
<1>3. DOMAIN rows' = 1..(Len(rows) + 1)
  BY <1>2
<1>4. rows'[Len(rows) + 1] = m /\ \A j \in DOMAIN rows : rows'[j] = rows[j]
  BY <1>1 DEF ChatTypes
<1> QED
  BY <1>1, <1>2, <1>3, <1>4

-----------------------------------------------------------------------------
(* What the small steps of a request do to it. *)

\* The other requests stay as they are.
Others(r) == \A q \in Req \ {r} : req'[q] = req[q]

\* A request that goes on keeps what it was given.
LEMMA MoveFacts ==
    ASSUME req \in [Req -> Request], NEW r \in Req, NEW l \in PCs, MoveTo(r, l)
    PROVE  /\ req' \in [Req -> Request]
           /\ Others(r)
           /\ req'[r].kind = req[r].kind /\ req'[r].ord = req[r].ord /\ req'[r].val = req[r].val
           /\ req'[r].msg = req[r].msg /\ req'[r].pc = l
<1>1. req' \in [Req -> Request]
  BY RequestMoves DEF MoveTo
<1>2. req'[r] = [req[r] EXCEPT !.pc = l]
  BY DEF MoveTo
<1>3. req[r] \in Request
  OBVIOUS
<1>4. Others(r)
  BY DEF MoveTo, Others
<1> QED
  BY <1>1, <1>2, <1>3, <1>4 DEF Request

\* A request that is over leaves nothing behind.
LEMMA FinishFacts ==
    ASSUME req \in [Req -> Request], NEW r \in Req, Finish(r)
    PROVE  /\ req' \in [Req -> Request]
           /\ Others(r)
           /\ req'[r] = Idle /\ Idle.kind = Nothing /\ Idle.pc = "idle"
<1>1. "idle" \in PCs
  BY DEF PCs
<1>2. req' \in [Req -> Request]
  BY <1>1, RequestMoves DEF Finish
<1> QED
  BY <1>2 DEF Finish, Others, Idle

\* A request starts with what it is given.
LEMMA ServeFacts ==
    ASSUME req \in [Req -> Request], NEW r \in Req, NEW k \in Kind, NEW o \in Order \cup {Nothing},
           NEW v \in ShopStatus \cup {Nothing}, NEW i \in Nat, Serve(r, k, o, v, i)
    PROVE  /\ req' \in [Req -> Request]
           /\ Others(r)
           /\ req'[r].kind = k /\ req'[r].ord = o /\ req'[r].val = v /\ req'[r].msg = i
           /\ req'[r].pc = "find"
<1>1. req' \in [Req -> Request]
  BY RequestStarts
<1> QED
  BY <1>1 DEF Serve, Others

\* What a webhook, a sync, a shipment or a reply is given when it arrives.
LEMMA ArrivesServes ==
    ASSUME NEW r \in Req, NEW o \in Order, Arrives(r, o)
    PROVE  \E k \in Kind \ {"echo"}, p \in Order \cup {Nothing}, v \in ShopStatus \cup {Nothing} :
              /\ Serve(r, k, p, v, 0)
              /\ k \in {"hook", "sync"} => p \in Order /\ v \in Payment
              /\ k = "carrier" => p \in Order /\ v \in Event
              /\ k = "ship" => p \in Order
<1>1. Payment \subseteq ShopStatus /\ Event \subseteq ShopStatus
  BY DEF ShopStatus
<1>2. CASE \E k \in {"hook", "sync"}, x \in Payment : Serve(r, k, o, x, 0)
  BY <1>1, <1>2 DEF Kind
<1>3. CASE \E e \in Event : Serve(r, "carrier", o, e, 0)
  BY <1>1, <1>3 DEF Kind
<1>4. CASE Serve(r, "ship", o, Nothing, 0)
  BY <1>4 DEF Kind
<1>5. CASE Serve(r, "reply", Nothing, Nothing, 0)
  BY <1>5 DEF Kind
<1> QED
  BY <1>2, <1>3, <1>4, <1>5 DEF Arrives

\* The invariant on orders is kept by steps that make no row vanish, send no news
\* and start no telling.
LEMMA ToldQuiet ==
    ASSUME ShopIInv,
           \A o \in Order : row[o] # Nothing => row'[o] # Nothing,
           \A o \in Order : News(o)' = News(o),
           \A q \in Req, o \in Order : Telling(req[q], o)' => Telling(req[q], o)
    PROVE  ToldInv'
<1> USE DEF ShopIInv
<1> SUFFICES ASSUME NEW o \in Order
             PROVE  /\ News(o)' # {} => row'[o] # Nothing
                    /\ \A i, j \in News(o)' : i = j
                    /\ \A r \in Req : Telling(req[r], o)' => row'[o] # Nothing /\ News(o)' = {}
                    /\ \A r, q \in Req : Telling(req[r], o)' /\ Telling(req[q], o)' => r = q
  BY DEF ToldInv
<1>1. /\ News(o) # {} => row[o] # Nothing
      /\ \A i, j \in News(o) : i = j
      /\ \A r \in Req : Telling(req[r], o) => row[o] # Nothing /\ News(o) = {}
      /\ \A r, q \in Req : Telling(req[r], o) /\ Telling(req[q], o) => r = q
  BY DEF ToldInv
<1> QED
  BY <1>1

\* A step that sends nothing adds no news.
LEMMA NoNews ==
    ASSUME sends' = sends, NEW o \in Order
    PROVE  News(o)' = News(o)
  BY DEF News

\* A message that is not the news of an order adds none.
LEMMA OtherNews ==
    ASSUME ShopTypeOK, NEW t \in Text, \A o \in Order : t # <<o, "NEW">>, sends' = Append(sends, t),
           echoes' = echoes \cup {NextId}, alien' \in {alien, alien \cup {NextId}},
           late' = late, early' = early, NEW o \in Order
    PROVE  News(o)' = News(o)
<1>1. ChatTypes
  BY DEF ShopTypeOK, ChatTypes
<1> QED
  BY <1>1, SendTypes DEF News

\* The invariant on the transcript is kept by steps that write no row and whose
\* requests are prepared for what they do next.
LEMMA EntryQuiet ==
    ASSUME ShopIInv, rows' = rows, Exempt \subseteq Exempt', AnswersKept,
           DOMAIN sends \subseteq DOMAIN sends', \A i \in DOMAIN sends : sends'[i] = sends[i],
           \A q \in Req : req'[q] = req[q] \/ Prepared(req[q])',
           \A q \in Req : Replying(req[q])' => Replying(req[q]) /\ req'[q].msg = req[q].msg
    PROVE  EntryInv'
<1> USE DEF ShopIInv
<1>1. ASSUME NEW j \in DOMAIN rows PROVE RowOK(rows[j])'
  BY DEF EntryInv, RowOK, AnswersKept, AnswerId
<1>2. ASSUME NEW q \in Req PROVE Prepared(req[q])'
  <2>1. CASE req'[q] = req[q]
    <3>1. Prepared(req[q])
      BY DEF EntryInv
    <3> QED
      BY <2>1, <3>1 DEF Prepared, Named, Replying, AnswersKept
  <2> QED
    BY <2>1
<1>3. OneEntryPerSend'
  BY DEF EntryInv, OneEntryPerSend, Exempt
<1>4. ASSUME NEW r \in Req, NEW q \in Req, Replying(req[r])', Replying(req[q])', req'[r].msg = req'[q].msg
      PROVE  r = q
  BY <1>4 DEF EntryInv
<1> QED
  BY <1>1, <1>2, <1>3, <1>4 DEF EntryInv

\* The message of a notification is a text, and its request takes the id it is given.
LEMMA NoticeFacts ==
    ASSUME ShopTypeOK, NEW r \in Req, RequestOK(req[r]), SendNotice(r)
    PROVE  /\ TextOf(req[r]) \in Text
           /\ req[r].kind = "carrier" => \A o \in Order : TextOf(req[r]) # <<o, "NEW">>
           /\ req[r].kind = "hook" => TextOf(req[r]) = <<req[r].ord, "NEW">>
           /\ NextId \in Nat
           /\ req' \in [Req -> Request]
           /\ Others(r)
           /\ req'[r].kind = req[r].kind /\ req'[r].ord = req[r].ord /\ req'[r].val = req[r].val
           /\ req'[r].msg = NextId /\ req'[r].pc = "store"
<1>1. NextId \in Nat
  BY DEF ShopTypeOK, NextId
<1>2. req' = [req EXCEPT ![r].pc = "store", ![r].msg = NextId]
  BY DEF SendNotice
<1>3. req \in [Req -> Request] /\ req[r] \in Request
  BY DEF ShopTypeOK
<1>4. req'[r] = [[req[r] EXCEPT !.pc = "store"] EXCEPT !.msg = NextId]
  BY <1>2, <1>3
<1>5. /\ req'[r].kind = req[r].kind /\ req'[r].ord = req[r].ord /\ req'[r].val = req[r].val
      /\ req'[r].msg = NextId /\ req'[r].pc = "store"
  BY <1>4, <1>3 DEF Request
<1>6. req' \in [Req -> Request] /\ Others(r)
  BY <1>1, <1>2, <1>3, RequestMoves DEF PCs, Others
<1>7. CASE req[r].kind = "hook"
  BY <1>7, <1>1, <1>5, <1>6 DEF TextOf, Text, RequestOK
<1>8. CASE req[r].kind = "carrier"
  <2>1. req[r].ord \in Order /\ req[r].val \in {"SHIPPED", "DELIVERED"}
    BY <1>8 DEF RequestOK, SendNotice, At
  <2>2. TextOf(req[r]) = <<req[r].ord, req[r].val>>
    BY <1>8 DEF TextOf
  <2> QED
    BY <2>1, <2>2, <1>8, <1>1, <1>5, <1>6 DEF Text
<1> QED
  BY <1>7, <1>8 DEF SendNotice, At

\* One row of the transcript is written over.
LEMMA RowFacts ==
    ASSUME ChatTypes, NEW k \in DOMAIN rows, NEW m \in Entry, rows' = [rows EXCEPT ![k] = m]
    PROVE  /\ rows' \in Seq(Entry)
           /\ DOMAIN rows' = DOMAIN rows
           /\ rows'[k] = m
           /\ \A j \in DOMAIN rows \ {k} : rows'[j] = rows[j]
<1>1. rows \in Seq(Entry) /\ DOMAIN rows = 1..Len(rows)
  BY DEF ChatTypes
<1> QED
  BY <1>1, ExceptSeq

-----------------------------------------------------------------------------
(* Every step keeps the types. *)

\* Arrivals, steps of requests, faults and the session keep the types of all variables.
LEMMA ShopTypeStep ==
    ShopIInv /\ [ShopNext]_shopVars => ShopTypeOK'
<1> SUFFICES ASSUME ShopIInv, [ShopNext]_shopVars PROVE ShopTypeOK'
  OBVIOUS
<1>0. ShopTypeOK /\ ChatTypes /\ req \in [Req -> Request]
  BY DEF ShopIInv, ShopTypeOK, ChatTypes
<1>a. \A r \in Req : RequestOK(req[r]) /\ Prepared(req[r])
  BY DEF ShopIInv, RequestsOK, EntryInv
<1>b. Payment \subseteq ShopStatus /\ Event \subseteq ShopStatus
  BY DEF ShopStatus
<1> USE DEF ShopTypeOK, NoFault, ShopFault, Arrival, orderVars, chatVars, PCs
<1>1. ASSUME NEW r \in Req, FindOrder(r) PROVE ShopTypeOK'
  BY <1>1, <1>0, MoveFacts, FinishFacts DEF FindOrder
<1>2. ASSUME NEW r \in Req, UpdateOrder(r) PROVE ShopTypeOK'
  <2>1. req[r].ord \in Order /\ req[r].val \in ShopStatus
    BY <1>2, <1>a, <1>b DEF UpdateOrder, At, Upsert, RequestOK
  <2> QED
    BY <1>2, <2>1, <1>0, FinishFacts DEF UpdateOrder
<1>3. ASSUME NEW r \in Req, CreateOrder(r) PROVE ShopTypeOK'
  <2>1. req[r].ord \in Order /\ req[r].val \in ShopStatus
    BY <1>3, <1>a, <1>b DEF CreateOrder, At, Upsert, RequestOK
  <2> QED
    BY <1>3, <2>1, <1>0, FinishFacts, MoveFacts DEF CreateOrder
<1>4. ASSUME NEW r \in Req, Notify(r) PROVE ShopTypeOK'
  BY <1>4, <1>0, MoveFacts, FinishFacts DEF Notify
<1>5. ASSUME NEW r \in Req, Link(r) PROVE ShopTypeOK'
  BY <1>5, <1>0, <1>a, MoveFacts DEF Link, At, RequestOK
<1>6. ASSUME NEW r \in Req, OpenConversation(r) PROVE ShopTypeOK'
  BY <1>6, <1>0, <1>a, MoveFacts, FinishFacts DEF OpenConversation, At, RequestOK
<1>7. ASSUME NEW r \in Req, SendNotice(r) PROVE ShopTypeOK'
  BY <1>7, <1>0, <1>a, NoticeFacts, SendTypes DEF SendNotice, Send
<1>8. ASSUME NEW r \in Req, StoreNotice(r) PROVE ShopTypeOK'
  <2> DEFINE i == req[r].msg
             m == [id |-> AnswerId(i), of |-> i, text |-> sends[i], sender |-> "AI"]
  <2>1. i \in DOMAIN sends /\ i \in Nat
    BY <1>8, <1>a, <1>0 DEF StoreNotice, At, Prepared
  <2>2. m \in Entry
    BY <2>1, <1>0 DEF Entry, ChatTypes, AnswerId
  <2>3. rows' = rows \/ rows' = Append(rows, m)
    BY <1>8 DEF StoreNotice
  <2>4. rows' \in Seq(Entry)
    BY <2>2, <2>3, <1>0, EntryTypes
  <2> QED
    BY <1>8, <2>4, <1>0, FinishFacts DEF StoreNotice
<1>9. ASSUME NEW r \in Req, PersistReply(r) PROVE ShopTypeOK'
  <2>1. [id |-> 0, of |-> 0, text |-> Reply, sender |-> "AI"] \in Entry
    BY DEF Entry, Text
  <2>2. rows' \in Seq(Entry) /\ Len(rows) + 1 \in Nat
    BY <1>9, <2>1, <1>0, EntryTypes DEF PersistReply
  <2>3. req' \in [Req -> Request]
    BY <1>9, <2>2, <1>0, RequestMoves DEF PersistReply
  <2> QED
    BY <1>9, <2>2, <2>3, <1>0 DEF PersistReply
<1>10. ASSUME NEW r \in Req, SendReply(r) PROVE ShopTypeOK'
  <2>1. req[r].msg \in DOMAIN rows /\ rows[req[r].msg] \in Entry
    BY <1>10, <1>a, <1>0 DEF SendReply, At, Prepared, Replying
  <2>2. CASE ~Sendable(session)
    BY <1>10, <2>2, <1>0, FinishFacts DEF SendReply
  <2>3. CASE Sendable(session)
    <3>1. Reply \in Text
      BY DEF Text
    <3>2. /\ sends' \in Seq(Text)
          /\ (echoes' \cup alien' \cup late' \cup early') \subseteq DOMAIN sends'
          /\ NextId \in Nat
      BY <1>10, <2>3, <3>1, <1>0, SendTypes DEF SendReply, Send
    <3>3. [rows[req[r].msg] EXCEPT !.of = NextId] \in Entry
      BY <2>1, <3>2 DEF Entry
    <3>4. rows' \in Seq(Entry)
      BY <1>10, <2>1, <2>3, <3>3, <1>0, RowFacts DEF SendReply
    <3> QED
      BY <1>10, <2>3, <3>2, <3>4, <1>0, MoveFacts DEF SendReply
  <2> QED
    BY <2>2, <2>3
<1>11. ASSUME NEW r \in Req, NameReply(r) PROVE ShopTypeOK'
  <2>1. req[r].msg \in DOMAIN rows /\ rows[req[r].msg] \in Entry
    BY <1>11, <1>a, <1>0 DEF NameReply, At, Prepared, Replying
  <2> DEFINE m == rows[req[r].msg]
             x == IF HasId(AnswerId(m.of)) THEN m.id ELSE AnswerId(m.of)
  <2>2. [m EXCEPT !.id = x] \in Entry
    BY <2>1 DEF Entry, AnswerId
  <2>3. rows' = [rows EXCEPT ![req[r].msg] = [m EXCEPT !.id = x]]
    BY <1>11, <2>1 DEF NameReply
  <2>4. rows' \in Seq(Entry)
    BY <2>1, <2>2, <2>3, <1>0, RowFacts
  <2> QED
    BY <1>11, <2>4, <1>0, FinishFacts DEF NameReply
<1>12. ASSUME NEW r \in Req, FindKnown(r) PROVE ShopTypeOK'
  BY <1>12, <1>0, MoveFacts, FinishFacts DEF FindKnown, Answer
<1>13. ASSUME NEW r \in Req, FindRecent(r) PROVE ShopTypeOK'
  BY <1>13, <1>0, <1>a, MoveFacts, FinishFacts DEF FindRecent, At, Answer, Prepared
<1>14. ASSUME NEW r \in Req, StoreEcho(r) PROVE ShopTypeOK'
  <2> DEFINE i == req[r].msg
             m == [id |-> i, of |-> i, text |-> sends[i], sender |-> "MERCHANT"]
  <2>1. i \in DOMAIN sends /\ i \in Nat
    BY <1>14, <1>a, <1>0 DEF StoreEcho, At, Prepared
  <2>2. m \in Entry
    BY <2>1, <1>0 DEF Entry, ChatTypes
  <2>3. rows' = rows \/ rows' = Append(rows, m)
    BY <1>14 DEF StoreEcho
  <2>4. rows' \in Seq(Entry)
    BY <2>2, <2>3, <1>0, EntryTypes
  <2>5. echoes' \subseteq echoes /\ Finish(r)
    BY <1>14 DEF StoreEcho, Answer
  <2> QED
    BY <1>14, <2>4, <2>5, <1>0, FinishFacts DEF StoreEcho
<1>15. ASSUME NEW r \in Req, CreateParcel(r) PROVE ShopTypeOK'
  BY <1>15, <1>0, <1>a, MoveFacts DEF CreateParcel, At, RequestOK
<1>16. ASSUME NEW r \in Req, SaveTracking(r) PROVE ShopTypeOK'
  BY <1>16, <1>0, <1>a, FinishFacts DEF SaveTracking, At, RequestOK
<1>17. ASSUME NEW r \in Req, FindTracked(r) PROVE ShopTypeOK'
  BY <1>17, <1>0, MoveFacts, FinishFacts DEF FindTracked
<1>18. ASSUME NEW r \in Req, ApplyEvent(r) PROVE ShopTypeOK'
  BY <1>18, <1>0, <1>a, <1>b, MoveFacts, FinishFacts DEF ApplyEvent, At, RequestOK
<1>19. ASSUME NEW r \in Req, Fails(r) PROVE ShopTypeOK'
  BY <1>19, <1>0, FinishFacts DEF Fails
<1>20. ASSUME NEW r \in Req, NEW o \in Order, Arrives(r, o) PROVE ShopTypeOK'
  <2>1. PICK k \in Kind, p \in Order \cup {Nothing}, v \in ShopStatus \cup {Nothing} :
           Serve(r, k, p, v, 0)
    BY <1>20, ArrivesServes
  <2>2. req' \in [Req -> Request]
    BY <2>1, <1>0, ServeFacts
  <2> QED
    BY <1>20, <2>2, <1>0 DEF Arrives
<1>21. ASSUME NEW r \in Req, NEW i \in echoes, EchoArrives(r, i) \/ EchoRepeats(r, i) PROVE ShopTypeOK'
  BY <1>21, <1>0, ServeFacts DEF EchoArrives, EchoRepeats, Kind
<1>22. ASSUME NEW t \in {Typed, Reply}, MerchantTypes(t) PROVE ShopTypeOK'
  BY <1>22, <1>0, SendTypes DEF MerchantTypes, Text
<1>23. ASSUME NEW x \in {"connected", "ready", "disconnected"}, SessionStatus(x) PROVE ShopTypeOK'
  BY <1>23, <1>0 DEF SessionStatus
<1>24. CASE UNCHANGED shopVars
  BY <1>24, <1>0 DEF shopVars
<1> QED
  BY <1>1, <1>2, <1>3, <1>4, <1>5, <1>6, <1>7, <1>8, <1>9, <1>10, <1>11, <1>12, <1>13, <1>14, <1>15,
     <1>16, <1>17, <1>18, <1>19, <1>20, <1>21, <1>22, <1>23, <1>24 DEF ShopNext, Step

-----------------------------------------------------------------------------
(* Every step keeps what a request was given. *)

\* A request keeps its order and its status, and a carrier's cancellation notifies nobody.
LEMMA RequestStep == ShopIInv /\ [ShopNext]_shopVars => RequestsOK'
<1> SUFFICES ASSUME ShopIInv, [ShopNext]_shopVars, NEW q \in Req PROVE RequestOK(req[q])'
  BY DEF RequestsOK
<1>0. ShopTypeOK /\ req \in [Req -> Request] /\ \A r \in Req : RequestOK(req[r])
  BY DEF ShopIInv, ShopTypeOK, RequestsOK
<1>a. ASSUME NEW r \in Req, Others(r), RequestOK(req[r])' PROVE RequestOK(req[q])'
  BY <1>a, <1>0 DEF Others, RequestOK
<1>b. ASSUME NEW r \in Req, Finish(r) PROVE RequestOK(req[q])'
  BY <1>b, <1>a, <1>0, FinishFacts DEF RequestOK, Kind
<1>c. ASSUME NEW r \in Req, NEW l \in PCs, MoveTo(r, l),
             req[r].kind = "carrier" /\ l \in {"notify", "link", "open", "send"} => req[r].val # "CANCELLED"
      PROVE  RequestOK(req[q])'
  BY <1>c, <1>a, <1>0, MoveFacts DEF RequestOK
<1> USE DEF PCs
<1>1. ASSUME NEW r \in Req, FindOrder(r) PROVE RequestOK(req[q])'
  BY <1>1, <1>b, <1>c DEF FindOrder
<1>2. ASSUME NEW r \in Req, UpdateOrder(r) PROVE RequestOK(req[q])'
  BY <1>2, <1>b DEF UpdateOrder
<1>3. ASSUME NEW r \in Req, CreateOrder(r) PROVE RequestOK(req[q])'
  BY <1>3, <1>b, <1>c DEF CreateOrder
<1>4. ASSUME NEW r \in Req, Notify(r) PROVE RequestOK(req[q])'
  BY <1>4, <1>0, <1>b, <1>c DEF Notify, At, RequestOK
<1>5. ASSUME NEW r \in Req, Link(r) PROVE RequestOK(req[q])'
  BY <1>5, <1>0, <1>c DEF Link, At, RequestOK
<1>6. ASSUME NEW r \in Req, OpenConversation(r) PROVE RequestOK(req[q])'
  BY <1>6, <1>0, <1>b, <1>c DEF OpenConversation, At, RequestOK
<1>7. ASSUME NEW r \in Req, SendNotice(r) PROVE RequestOK(req[q])'
  BY <1>7, <1>0, <1>a, NoticeFacts DEF RequestOK
<1>8. ASSUME NEW r \in Req, StoreNotice(r) PROVE RequestOK(req[q])'
  BY <1>8, <1>b DEF StoreNotice
<1>9. ASSUME NEW r \in Req, PersistReply(r) PROVE RequestOK(req[q])'
  <2>1. req' = [req EXCEPT ![r].pc = "send", ![r].msg = Len(rows) + 1]
        /\ req[r] \in Request /\ req[r].kind = "reply"
    BY <1>9, <1>0 DEF PersistReply, At
  <2>2. Others(r) /\ req'[r].kind = "reply"
    BY <2>1, <1>0 DEF Others, Request
  <2> QED
    BY <2>2, <1>a DEF RequestOK
<1>10. ASSUME NEW r \in Req, SendReply(r) PROVE RequestOK(req[q])'
  BY <1>10, <1>b, <1>c DEF SendReply, At
<1>11. ASSUME NEW r \in Req, NameReply(r) PROVE RequestOK(req[q])'
  BY <1>11, <1>b DEF NameReply
<1>12. ASSUME NEW r \in Req, FindKnown(r) PROVE RequestOK(req[q])'
  BY <1>12, <1>b, <1>c DEF FindKnown, Answer, At
<1>13. ASSUME NEW r \in Req, FindRecent(r) PROVE RequestOK(req[q])'
  BY <1>13, <1>b, <1>c DEF FindRecent, Answer, At
<1>14. ASSUME NEW r \in Req, StoreEcho(r) PROVE RequestOK(req[q])'
  BY <1>14, <1>b DEF StoreEcho, Answer
<1>15. ASSUME NEW r \in Req, CreateParcel(r) PROVE RequestOK(req[q])'
  BY <1>15, <1>c DEF CreateParcel, At
<1>16. ASSUME NEW r \in Req, SaveTracking(r) PROVE RequestOK(req[q])'
  BY <1>16, <1>b DEF SaveTracking
<1>17. ASSUME NEW r \in Req, FindTracked(r) PROVE RequestOK(req[q])'
  BY <1>17, <1>b, <1>c DEF FindTracked
<1>18. ASSUME NEW r \in Req, ApplyEvent(r) PROVE RequestOK(req[q])'
  BY <1>18, <1>b, <1>c DEF ApplyEvent
<1>19. ASSUME NEW r \in Req, Fails(r) PROVE RequestOK(req[q])'
  BY <1>19, <1>b DEF Fails
<1>20. ASSUME NEW r \in Req, NEW o \in Order, Arrives(r, o) PROVE RequestOK(req[q])'
  <2>1. PICK k \in Kind, p \in Order \cup {Nothing}, v \in ShopStatus \cup {Nothing} :
           /\ Serve(r, k, p, v, 0)
           /\ k \in {"hook", "sync"} => p \in Order /\ v \in Payment
           /\ k = "carrier" => p \in Order /\ v \in Event
           /\ k = "ship" => p \in Order
    BY <1>20, ArrivesServes
  <2> QED
    BY <2>1, <1>0, <1>a, ServeFacts DEF RequestOK
<1>21. ASSUME NEW r \in Req, NEW i \in echoes, EchoArrives(r, i) \/ EchoRepeats(r, i)
      PROVE RequestOK(req[q])'
  <2>1. i \in Nat /\ Serve(r, "echo", Nothing, Nothing, i) /\ "echo" \in Kind
    BY <1>21, <1>0 DEF EchoArrives, EchoRepeats, ShopTypeOK, Kind
  <2> QED
    BY <2>1, <1>0, <1>a, ServeFacts DEF RequestOK
<1>22. ASSUME req' = req PROVE RequestOK(req[q])'
  BY <1>22, <1>0 DEF RequestOK
<1>23. (\E t \in {Typed, Reply} : MerchantTypes(t))
          \/ (\E x \in {"connected", "ready", "disconnected"} : SessionStatus(x))
          \/ UNCHANGED shopVars
       => req' = req
  BY DEF MerchantTypes, SessionStatus, shopVars
<1> QED
  BY <1>1, <1>2, <1>3, <1>4, <1>5, <1>6, <1>7, <1>8, <1>9, <1>10, <1>11, <1>12, <1>13, <1>14, <1>15,
     <1>16, <1>17, <1>18, <1>19, <1>20, <1>21, <1>22, <1>23 DEF ShopNext, Step

-----------------------------------------------------------------------------
(* The customer is told of an order once. *)

\* The create that goes through is the only one, and nothing was told before it.
LEMMA CreateTells == ASSUME ShopIInv, NEW r \in Req, CreateOrder(r) PROVE ToldInv'
<1>0. ShopTypeOK /\ req \in [Req -> Request] /\ ToldInv /\ RequestOK(req[r])
  BY DEF ShopIInv, ShopTypeOK, RequestsOK
<1>1. req[r].ord \in Order /\ req[r].val \in ShopStatus
  BY <1>0 DEF CreateOrder, At, Upsert, RequestOK, ShopStatus
<1>p. PICK p \in Order : p = req[r].ord
  BY <1>1
<1>2. /\ \A o \in Order : row[o] # Nothing => row'[o] # Nothing
      /\ row'[p] # Nothing
  BY <1>0, <1>1, <1>p DEF CreateOrder, ShopTypeOK
<1>3. \A o \in Order : News(o)' = News(o)
  BY NoNews DEF CreateOrder, chatVars
<1>4. CASE Finish(r)
  BY <1>0, <1>2, <1>3, <1>4, ToldQuiet, FinishFacts DEF Telling, Others
<1>5. CASE row[p] = Nothing /\ MoveTo(r, "notify")
  <2>1. Others(r) /\ req'[r].ord = p
    BY <1>5, <1>0, <1>p, MoveFacts DEF PCs
  <2>2. News(p) = {} /\ \A q \in Req : ~Telling(req[q], p)
    BY <1>5, <1>0 DEF ToldInv
  <2>3. \A q \in Req : Telling(req[q], p)' => q = r
    BY <2>1, <2>2 DEF Telling, Others
  <2>4. ASSUME NEW o \in Order, o # p, NEW q \in Req, Telling(req[q], o)' PROVE Telling(req[q], o)
    BY <2>4, <2>1 DEF Telling, Others
  <2>5. ASSUME NEW o \in Order, o # p
        PROVE  /\ News(o)' # {} => row'[o] # Nothing
               /\ \A i, j \in News(o)' : i = j
               /\ \A q \in Req : Telling(req[q], o)' => row'[o] # Nothing /\ News(o)' = {}
               /\ \A q, u \in Req : Telling(req[q], o)' /\ Telling(req[u], o)' => q = u
    <3>1. /\ News(o) # {} => row[o] # Nothing
          /\ \A i, j \in News(o) : i = j
          /\ \A q \in Req : Telling(req[q], o) => row[o] # Nothing /\ News(o) = {}
          /\ \A q, u \in Req : Telling(req[q], o) /\ Telling(req[u], o) => q = u
      BY <1>0 DEF ToldInv
    <3> QED
      BY <3>1, <2>4, <2>5, <1>2, <1>3
  <2>6. /\ News(p)' = {} /\ row'[p] # Nothing
        /\ \A q, u \in Req : Telling(req[q], p)' /\ Telling(req[u], p)' => q = u
    BY <2>2, <2>3, <1>2, <1>3
  <2> QED
    BY <2>5, <2>6 DEF ToldInv
<1> QED
  BY <1>4, <1>5, <1>p DEF CreateOrder

\* The one request that may tell an order does so and is through with it.
LEMMA SendTells == ASSUME ShopIInv, NEW r \in Req, SendNotice(r) PROVE ToldInv'
<1>0. ShopTypeOK /\ ChatTypes /\ req \in [Req -> Request] /\ ToldInv /\ RequestOK(req[r])
  BY DEF ShopIInv, ShopTypeOK, ChatTypes, RequestsOK
<1>1. /\ row' = row /\ sends' = Append(sends, TextOf(req[r]))
      /\ echoes' = echoes \cup {NextId} /\ alien' \in {alien, alien \cup {NextId}}
      /\ late' = late /\ early' = early
      /\ req[r].kind \in {"hook", "carrier"} /\ req[r].pc = "send"
  BY DEF SendNotice, Send, orderVars, At
<1>2. /\ Others(r) /\ req'[r].pc = "store" /\ TextOf(req[r]) \in Text
      /\ req[r].kind = "carrier" => \A o \in Order : TextOf(req[r]) # <<o, "NEW">>
      /\ req[r].kind = "hook" => TextOf(req[r]) = <<req[r].ord, "NEW">>
  BY <1>0, NoticeFacts
<1>3. \A q \in Req, o \in Order : Telling(req[q], o)' => Telling(req[q], o) /\ q # r
  BY <1>2 DEF Telling, Others
<1>4. CASE req[r].kind = "carrier"
  <2>1. \A o \in Order : News(o)' = News(o)
    BY <1>0, <1>1, <1>2, <1>4, OtherNews
  <2> QED
    BY <2>1, <1>1, <1>3, ToldQuiet
<1>5. CASE req[r].kind = "hook"
  <2>p. PICK p \in Order : p = req[r].ord
    BY <1>0, <1>5 DEF RequestOK
  <2>1. Telling(req[r], p)
    BY <1>1, <1>5, <2>p DEF Telling
  <2>2. row[p] # Nothing /\ News(p) = {} /\ \A q \in Req : Telling(req[q], p) => q = r
    BY <2>1, <1>0 DEF ToldInv
  <2>3. /\ DOMAIN sends' = DOMAIN sends \cup {NextId}
        /\ sends'[NextId] = <<p, "NEW">>
        /\ \A i \in DOMAIN sends : sends'[i] = sends[i]
    BY <1>0, <1>1, <1>2, <1>5, <2>p, SendTypes
  <2>4. News(p)' \subseteq {NextId}
    BY <2>2, <2>3 DEF News
  <2>5. ASSUME NEW o \in Order, o # p PROVE News(o)' = News(o)
    BY <2>3, <2>5 DEF News
  <2>6. ASSUME NEW o \in Order, o # p
        PROVE  /\ News(o)' # {} => row'[o] # Nothing
               /\ \A i, j \in News(o)' : i = j
               /\ \A q \in Req : Telling(req[q], o)' => row'[o] # Nothing /\ News(o)' = {}
               /\ \A q, u \in Req : Telling(req[q], o)' /\ Telling(req[u], o)' => q = u
    <3>1. /\ News(o) # {} => row[o] # Nothing
          /\ \A i, j \in News(o) : i = j
          /\ \A q \in Req : Telling(req[q], o) => row[o] # Nothing /\ News(o) = {}
          /\ \A q, u \in Req : Telling(req[q], o) /\ Telling(req[u], o) => q = u
      BY <1>0 DEF ToldInv
    <3> QED
      BY <3>1, <2>5, <2>6, <1>1, <1>3
  <2>7. /\ row'[p] # Nothing
        /\ \A i, j \in News(p)' : i = j
        /\ \A q \in Req : ~Telling(req[q], p)'
    BY <2>1, <2>2, <2>4, <1>1, <1>3
  <2> QED
    BY <2>6, <2>7 DEF ToldInv
<1> QED
  BY <1>1, <1>4, <1>5

\* Every step keeps the invariant on what the customer was told.
LEMMA NewsStep == ShopIInv /\ [ShopNext]_shopVars => ToldInv'
<1> SUFFICES ASSUME ShopIInv, [ShopNext]_shopVars PROVE ToldInv'
  OBVIOUS
<1>0. ShopTypeOK /\ req \in [Req -> Request] /\ \A r \in Req : RequestOK(req[r])
  BY DEF ShopIInv, ShopTypeOK, RequestsOK
<1>a. Payment \subseteq ShopStatus /\ Event \subseteq ShopStatus
  BY DEF ShopStatus
<1>b. ASSUME NEW r \in Req, Others(r), \A o \in Order : Telling(req[r], o)' => Telling(req[r], o),
             sends' = sends, \A o \in Order : row[o] # Nothing => row'[o] # Nothing
      PROVE  ToldInv'
  BY <1>b, NoNews, ToldQuiet DEF Telling, Others
<1>c. ASSUME NEW r \in Req, Finish(r), sends' = sends,
             \A o \in Order : row[o] # Nothing => row'[o] # Nothing
      PROVE  ToldInv'
  BY <1>0, <1>b, <1>c, FinishFacts DEF Telling
<1>d. ASSUME NEW r \in Req, NEW l \in PCs, MoveTo(r, l),
             \/ l \notin {"notify", "link", "open", "send"}
             \/ req[r].kind # "hook"
             \/ req[r].pc \in {"notify", "link", "open", "send"},
             sends' = sends, \A o \in Order : row[o] # Nothing => row'[o] # Nothing
      PROVE  ToldInv'
  BY <1>0, <1>b, <1>d, MoveFacts DEF Telling
<1>e. ASSUME NEW r \in Req, NEW k \in Kind, NEW o \in Order \cup {Nothing},
             NEW v \in ShopStatus \cup {Nothing}, NEW i \in Nat, Serve(r, k, o, v, i),
             sends' = sends, row' = row
      PROVE  ToldInv'
  BY <1>0, <1>b, <1>e, ServeFacts DEF Telling
<1> USE DEF PCs, orderVars, chatVars
<1>1. ASSUME NEW r \in Req, FindOrder(r) PROVE ToldInv'
  BY <1>1, <1>c, <1>d DEF FindOrder
<1>2. ASSUME NEW r \in Req, UpdateOrder(r) PROVE ToldInv'
  <2>1. \A o \in Order : row[o] # Nothing => row'[o] # Nothing
    BY <1>2, <1>0, <1>a DEF UpdateOrder, At, Upsert, RequestOK, ShopTypeOK
  <2> QED
    BY <1>2, <2>1, <1>c DEF UpdateOrder
<1>3. ASSUME NEW r \in Req, CreateOrder(r) PROVE ToldInv'
  BY <1>3, CreateTells
<1>4. ASSUME NEW r \in Req, Notify(r) PROVE ToldInv'
  BY <1>4, <1>c, <1>d DEF Notify, At
<1>5. ASSUME NEW r \in Req, Link(r) PROVE ToldInv'
  BY <1>5, <1>d DEF Link, At
<1>6. ASSUME NEW r \in Req, OpenConversation(r) PROVE ToldInv'
  BY <1>6, <1>c, <1>d DEF OpenConversation, At
<1>7. ASSUME NEW r \in Req, SendNotice(r) PROVE ToldInv'
  BY <1>7, SendTells
<1>8. ASSUME NEW r \in Req, StoreNotice(r) PROVE ToldInv'
  BY <1>8, <1>c DEF StoreNotice
<1>9. ASSUME NEW r \in Req, PersistReply(r) PROVE ToldInv'
  <2>1. req' = [req EXCEPT ![r].pc = "send", ![r].msg = Len(rows) + 1]
        /\ req[r] \in Request /\ req[r].kind = "reply"
    BY <1>9, <1>0 DEF PersistReply, At
  <2>2. Others(r) /\ req'[r].kind = "reply"
    BY <2>1, <1>0 DEF Others, Request
  <2> QED
    BY <2>2, <1>9, <1>b DEF PersistReply, Telling
<1>10. ASSUME NEW r \in Req, SendReply(r) PROVE ToldInv'
  <2>1. CASE Finish(r) /\ sends' = sends
    BY <1>10, <2>1, <1>c DEF SendReply
  <2>2. CASE MoveTo(r, "name") /\ Send(Reply)
    <3>1. Reply \in Text /\ \A o \in Order : Reply # <<o, "NEW">>
      BY DEF Text, Reply
    <3>2. late' = late /\ early' = early /\ row' = row
      BY <1>10 DEF SendReply
    <3>3. \A o \in Order : News(o)' = News(o)
      BY <2>2, <3>1, <3>2, <1>0, OtherNews DEF Send
    <3>4. \A q \in Req, o \in Order : Telling(req[q], o)' => Telling(req[q], o)
      BY <2>2, <1>0, MoveFacts DEF Telling, Others
    <3> QED
      BY <3>2, <3>3, <3>4, ToldQuiet
  <2> QED
    BY <1>10, <2>1, <2>2 DEF SendReply
<1>11. ASSUME NEW r \in Req, NameReply(r) PROVE ToldInv'
  BY <1>11, <1>c DEF NameReply
<1>12. ASSUME NEW r \in Req, FindKnown(r) PROVE ToldInv'
  BY <1>12, <1>c, <1>d DEF FindKnown, Answer
<1>13. ASSUME NEW r \in Req, FindRecent(r) PROVE ToldInv'
  BY <1>13, <1>c, <1>d DEF FindRecent, Answer
<1>14. ASSUME NEW r \in Req, StoreEcho(r) PROVE ToldInv'
  BY <1>14, <1>c DEF StoreEcho, Answer
<1>15. ASSUME NEW r \in Req, CreateParcel(r) PROVE ToldInv'
  BY <1>15, <1>d DEF CreateParcel
<1>16. ASSUME NEW r \in Req, SaveTracking(r) PROVE ToldInv'
  BY <1>16, <1>c DEF SaveTracking
<1>17. ASSUME NEW r \in Req, FindTracked(r) PROVE ToldInv'
  BY <1>17, <1>c, <1>d DEF FindTracked
<1>18. ASSUME NEW r \in Req, ApplyEvent(r) PROVE ToldInv'
  <2>1. \A o \in Order : row[o] # Nothing => row'[o] # Nothing
    BY <1>18, <1>0, <1>a DEF ApplyEvent, At, RequestOK, ShopTypeOK
  <2> QED
    BY <1>18, <2>1, <1>c, <1>d DEF ApplyEvent, At
<1>19. ASSUME NEW r \in Req, Fails(r) PROVE ToldInv'
  BY <1>19, <1>c DEF Fails
<1>20. ASSUME NEW r \in Req, NEW o \in Order, Arrives(r, o) PROVE ToldInv'
  <2>1. PICK k \in Kind, p \in Order \cup {Nothing}, v \in ShopStatus \cup {Nothing} :
           Serve(r, k, p, v, 0)
    BY <1>20, ArrivesServes
  <2> QED
    BY <1>20, <2>1, <1>e DEF Arrives
<1>21. ASSUME NEW r \in Req, NEW i \in echoes, EchoArrives(r, i) \/ EchoRepeats(r, i) PROVE ToldInv'
  <2>1. i \in Nat /\ Serve(r, "echo", Nothing, Nothing, i) /\ "echo" \in Kind
    BY <1>21, <1>0 DEF EchoArrives, EchoRepeats, ShopTypeOK, Kind
  <2> QED
    BY <1>21, <2>1, <1>e DEF EchoArrives, EchoRepeats
<1>22. ASSUME NEW t \in {Typed, Reply}, MerchantTypes(t) PROVE ToldInv'
  <2>1. t \in Text /\ \A o \in Order : t # <<o, "NEW">>
    BY DEF Text, Typed, Reply
  <2>2. \A o \in Order : News(o)' = News(o)
    BY <1>22, <2>1, <1>0, OtherNews DEF MerchantTypes
  <2> QED
    BY <1>22, <2>2, ToldQuiet DEF MerchantTypes, Telling
<1>23. ASSUME req' = req, row' = row, sends' = sends PROVE ToldInv'
  BY <1>23, NoNews, ToldQuiet DEF Telling
<1>24. (\E x \in {"connected", "ready", "disconnected"} : SessionStatus(x)) \/ UNCHANGED shopVars
       => req' = req /\ row' = row /\ sends' = sends
  BY DEF SessionStatus, shopVars
<1> QED
  BY <1>1, <1>2, <1>3, <1>4, <1>5, <1>6, <1>7, <1>8, <1>9, <1>10, <1>11, <1>12, <1>13, <1>14, <1>15,
     <1>16, <1>17, <1>18, <1>19, <1>20, <1>21, <1>22, <1>23, <1>24 DEF ShopNext, Step

-----------------------------------------------------------------------------
(* A message has one entry. *)

\* An entry with the id of its send is added, and the send had none (or is one that
\* may get a second).
LEMMA AppendEntry ==
    ASSUME ShopIInv, NEW m \in Entry, rows' = Append(rows, m), sends' = sends,
           alien' = alien, late' = late, early' = early,
           RowOK(m), m.of = 0 \/ m.id # 0,
           m.of \notin Exempt \cup {0} => \A j \in DOMAIN rows : rows[j].of # m.of,
           \A q \in Req : req'[q] = req[q] \/ Prepared(req[q])',
           \A r, q \in Req : Replying(req[r])' /\ Replying(req[q])' /\ req'[r].msg = req'[q].msg => r = q
    PROVE  EntryInv'
<1>0. ChatTypes /\ EntryInv
  BY DEF ShopIInv, ShopTypeOK, ChatTypes
<1> DEFINE k == Len(rows) + 1
<1>1. /\ DOMAIN rows' = DOMAIN rows \cup {k} /\ k \notin DOMAIN rows
      /\ rows'[k] = m /\ \A j \in DOMAIN rows : rows'[j] = rows[j]
  BY <1>0, EntryTypes
<1> HIDE DEF k
<1>2. ASSUME NEW j \in DOMAIN rows' PROVE RowOK(rows[j])'
  BY <1>0, <1>1, <1>2 DEF EntryInv, RowOK, Exempt, AnswerId
<1>3. ASSUME NEW i \in DOMAIN sends, Named(i) PROVE Named(i)'
  BY <1>0, <1>1, <1>3 DEF Named, ChatTypes
<1>4. ASSUME NEW q \in Req PROVE Prepared(req[q])'
  <2>1. CASE req'[q] = req[q]
    <3>1. Prepared(req[q])
      BY <1>0 DEF EntryInv
    <3> QED
      BY <1>1, <1>3, <2>1, <3>1 DEF Prepared, Replying, Exempt
  <2> QED
    BY <2>1
<1>5. OneEntryPerSend'
  BY <1>0, <1>1 DEF EntryInv, OneEntryPerSend, Exempt
<1> QED
  BY <1>2, <1>4, <1>5 DEF EntryInv

\* A reply gets the send it stands for: a fresh one, so no other row stands for it.
LEMMA SendReplyEntry == ASSUME ShopIInv, NEW r \in Req, SendReply(r), Sendable(session) PROVE EntryInv'
<1>0. ShopTypeOK /\ ChatTypes /\ req \in [Req -> Request] /\ EntryInv
  BY DEF ShopIInv, ShopTypeOK, ChatTypes
<1>p. PICK k \in DOMAIN rows : k = req[r].msg
  BY <1>0 DEF EntryInv, Prepared, Replying, SendReply, At
<1>1. /\ Replying(req[r]) /\ rows[k] = [id |-> 0, of |-> 0, text |-> Reply, sender |-> "AI"]
      /\ MoveTo(r, "name") /\ late' = late /\ early' = early
      /\ sends' = Append(sends, Reply) /\ echoes' = echoes \cup {NextId}
      /\ alien' \in {alien, alien \cup {NextId}}
      /\ rows' = [rows EXCEPT ![k] = [rows[k] EXCEPT !.of = NextId]]
  BY <1>0, <1>p DEF SendReply, Send, At, EntryInv, Prepared, Replying
<1>n. PICK n \in Nat : n = NextId
  BY <1>0 DEF NextId, ChatTypes
<1>2. /\ n # 0 /\ DOMAIN sends' = DOMAIN sends \cup {n} /\ n \notin DOMAIN sends
      /\ sends'[n] = Reply /\ \A i \in DOMAIN sends : sends'[i] = sends[i]
      /\ AnswersKept /\ Exempt' = Exempt
  BY <1>0, <1>1, <1>n, SendTypes DEF Text, Exempt
<1>3. [rows[k] EXCEPT !.of = NextId] = [id |-> 0, of |-> n, text |-> Reply, sender |-> "AI"]
  BY <1>1, <1>n
<1>4. [id |-> 0, of |-> n, text |-> Reply, sender |-> "AI"] \in Entry
  BY DEF Entry, Text
<1>5. /\ DOMAIN rows' = DOMAIN rows
      /\ rows'[k] = [id |-> 0, of |-> n, text |-> Reply, sender |-> "AI"]
      /\ \A j \in DOMAIN rows \ {k} : rows'[j] = rows[j]
  BY <1>0, <1>1, <1>3, <1>4, RowFacts
<1>6. /\ Others(r) /\ req'[r].kind = "reply" /\ req'[r].pc = "name" /\ req'[r].msg = k
  BY <1>0, <1>1, <1>p, MoveFacts DEF Replying, PCs
<1>7. ASSUME NEW j \in DOMAIN rows' PROVE RowOK(rows[j])'
  <2>1. CASE j = k
    BY <1>2, <1>5, <2>1 DEF RowOK
  <2>2. CASE j # k
    BY <1>0, <1>2, <1>5, <2>2 DEF RowOK, EntryInv, AnswersKept, AnswerId
  <2> QED
    BY <2>1, <2>2
<1>8. ASSUME NEW i \in DOMAIN sends, Named(i) PROVE Named(i)'
  BY <1>2, <1>5, <1>8 DEF Named
<1>9. ASSUME NEW q \in Req PROVE Prepared(req[q])'
  <2>1. CASE q = r
    BY <1>5, <1>6, <2>1 DEF Prepared, Replying
  <2>2. CASE q # r
    <3>1. Prepared(req[q]) /\ req'[q] = req[q] /\ (Replying(req[q]) => req[q].msg # k)
      BY <1>0, <1>1, <1>p, <1>6, <2>2 DEF EntryInv, Others
    <3> QED
      BY <1>1, <1>2, <1>5, <1>8, <3>1 DEF Prepared, Replying, AnswersKept
  <2> QED
    BY <2>1, <2>2
<1>10. OneEntryPerSend'
  <2>1. \A j \in DOMAIN rows : rows[j].of # n
    BY <1>0, <1>2 DEF EntryInv, RowOK
  <2> QED
    BY <1>0, <1>1, <1>5, <2>1 DEF EntryInv, OneEntryPerSend
<1>11. ASSUME NEW u \in Req, NEW q \in Req, Replying(req[u])', Replying(req[q])', req'[u].msg = req'[q].msg
       PROVE  u = q
  <2>1. \A x \in Req : Replying(req[x])' => Replying(req[x]) /\ req'[x].msg = req[x].msg
    BY <1>1, <1>p, <1>6 DEF Others, Replying
  <2> QED
    BY <1>0, <1>11, <2>1 DEF EntryInv
<1> QED
  BY <1>7, <1>9, <1>10, <1>11 DEF EntryInv

\* A reply gets the id of its send, and is through with its row.
LEMMA NameReplyEntry == ASSUME ShopIInv, NEW r \in Req, NameReply(r) PROVE EntryInv'
<1>0. ShopTypeOK /\ ChatTypes /\ req \in [Req -> Request] /\ EntryInv
  BY DEF ShopIInv, ShopTypeOK, ChatTypes
<1>p. PICK k \in DOMAIN rows : k = req[r].msg
  BY <1>0 DEF EntryInv, Prepared, Replying, NameReply, At
<1>1. /\ Replying(req[r]) /\ Finish(r) /\ sends' = sends
      /\ alien' = alien /\ late' = late /\ early' = early
      /\ rows[k] \in Entry
  BY <1>0, <1>p DEF NameReply, At, Replying, ChatTypes
<1>2. PICK x \in {rows[k].id, AnswerId(rows[k].of)} : rows' = [rows EXCEPT ![k] = [rows[k] EXCEPT !.id = x]]
  <2> DEFINE x == IF HasId(AnswerId(rows[k].of)) THEN rows[k].id ELSE AnswerId(rows[k].of)
  <2>1. rows' = [rows EXCEPT ![k] = [rows[k] EXCEPT !.id = x]]
    BY <1>p DEF NameReply
  <2> QED
    BY <2>1
<1>3. [rows[k] EXCEPT !.id = x] \in Entry
  BY <1>1, <1>2 DEF Entry, AnswerId
<1>4. /\ DOMAIN rows' = DOMAIN rows
      /\ rows'[k].id = x /\ rows'[k].of = rows[k].of /\ rows'[k].text = rows[k].text
      /\ rows'[k].sender = rows[k].sender
      /\ \A j \in DOMAIN rows \ {k} : rows'[j] = rows[j]
  <2>1. /\ DOMAIN rows' = DOMAIN rows /\ rows'[k] = [rows[k] EXCEPT !.id = x]
        /\ \A j \in DOMAIN rows \ {k} : rows'[j] = rows[j]
    BY <1>0, <1>2, <1>3, RowFacts
  <2> QED
    BY <2>1, <1>1 DEF Entry
<1>5. Others(r) /\ req'[r].kind = Nothing
  BY <1>0, <1>1, FinishFacts
<1>6. ASSUME NEW j \in DOMAIN rows' PROVE RowOK(rows[j])'
  <2>1. RowOK(rows[j])
    BY <1>0, <1>4, <1>6 DEF EntryInv
  <2>2. CASE j = k
    BY <1>1, <1>2, <1>4, <2>1, <2>2 DEF RowOK, Exempt, AnswerId, Entry
  <2>3. CASE j # k
    BY <1>1, <1>4, <2>1, <2>3 DEF RowOK, Exempt, AnswerId
  <2> QED
    BY <2>2, <2>3
<1>7. ASSUME NEW i \in DOMAIN sends, Named(i) PROVE Named(i)'
  BY <1>0, <1>2, <1>4, <1>7 DEF Named, AnswerId, ChatTypes
<1>8. ASSUME NEW q \in Req PROVE Prepared(req[q])'
  <2>1. CASE q = r
    BY <1>5, <2>1 DEF Prepared, Replying, Kind
  <2>2. CASE q # r
    <3>1. Prepared(req[q]) /\ req'[q] = req[q] /\ (Replying(req[q]) => req[q].msg # k)
      BY <1>0, <1>1, <1>p, <1>5, <2>2 DEF EntryInv, Others
    <3> QED
      BY <1>1, <1>4, <1>7, <3>1 DEF Prepared, Replying, Exempt
  <2> QED
    BY <2>1, <2>2
<1>9. OneEntryPerSend'
  BY <1>0, <1>1, <1>4 DEF EntryInv, OneEntryPerSend
<1>10. ASSUME NEW u \in Req, NEW q \in Req, Replying(req[u])', Replying(req[q])', req'[u].msg = req'[q].msg
       PROVE  u = q
  <2>1. \A y \in Req : Replying(req[y])' => Replying(req[y]) /\ req'[y].msg = req[y].msg
    BY <1>5 DEF Others, Replying, Kind
  <2> QED
    BY <1>0, <1>10, <2>1 DEF EntryInv
<1> QED
  BY <1>6, <1>8, <1>9, <1>10 DEF EntryInv

\* Every step keeps the invariant on the transcript.
LEMMA EntryStep == ShopIInv /\ [ShopNext]_shopVars => EntryInv'
<1> SUFFICES ASSUME ShopIInv, [ShopNext]_shopVars PROVE EntryInv'
  OBVIOUS
<1>0. ShopTypeOK /\ ChatTypes /\ req \in [Req -> Request] /\ EntryInv
  BY DEF ShopIInv, ShopTypeOK, ChatTypes
<1>a. \A r \in Req : Prepared(req[r]) /\ RequestOK(req[r])
  BY DEF ShopIInv, RequestsOK, EntryInv
<1>b. ASSUME NEW r \in Req, Others(r), Prepared(req[r])',
             Replying(req[r])' => Replying(req[r]) /\ req'[r].msg = req[r].msg,
             rows' = rows, sends' = sends, alien' = alien, Exempt \subseteq Exempt'
      PROVE  EntryInv'
  BY <1>b, EntryQuiet DEF Others, Replying, AnswersKept
<1>c. ASSUME NEW r \in Req, Finish(r) PROVE Others(r) /\ Prepared(req[r])' /\ ~Replying(req[r])'
  BY <1>0, <1>c, FinishFacts DEF Prepared, Replying, Kind
<1>d. ASSUME NEW r \in Req, NEW l \in PCs, MoveTo(r, l),
             req[r].kind \notin {"echo", "reply"}, l # "store"
      PROVE  Others(r) /\ Prepared(req[r])' /\ ~Replying(req[r])'
  BY <1>0, <1>d, MoveFacts DEF Prepared, Replying
<1>e. ASSUME NEW r \in Req, NEW k \in Kind, NEW o \in Order \cup {Nothing},
             NEW v \in ShopStatus \cup {Nothing}, NEW i \in Nat, Serve(r, k, o, v, i),
             k = "echo" => i \in DOMAIN sends,
             rows' = rows, UNCHANGED <<sends, alien, late, early>>
      PROVE  EntryInv'
  <2>1. Others(r) /\ Prepared(req[r])' /\ ~Replying(req[r])'
    BY <1>0, <1>e, ServeFacts DEF Prepared, Replying
  <2> QED
    BY <1>b, <1>e, <2>1 DEF Exempt
<1> USE DEF PCs, chatVars, Exempt
<1>1. ASSUME NEW r \in Req, FindOrder(r) PROVE EntryInv'
  BY <1>1, <1>b, <1>c, <1>d DEF FindOrder, At, Upsert
<1>2. ASSUME NEW r \in Req, UpdateOrder(r) PROVE EntryInv'
  BY <1>2, <1>b, <1>c DEF UpdateOrder
<1>3. ASSUME NEW r \in Req, CreateOrder(r) PROVE EntryInv'
  BY <1>3, <1>b, <1>c, <1>d DEF CreateOrder, At, Upsert
<1>4. ASSUME NEW r \in Req, Notify(r) PROVE EntryInv'
  BY <1>4, <1>b, <1>c, <1>d DEF Notify, At
<1>5. ASSUME NEW r \in Req, Link(r) PROVE EntryInv'
  BY <1>5, <1>b, <1>d DEF Link, At
<1>6. ASSUME NEW r \in Req, OpenConversation(r) PROVE EntryInv'
  BY <1>6, <1>b, <1>c, <1>d DEF OpenConversation, At
<1>7. ASSUME NEW r \in Req, SendNotice(r) PROVE EntryInv'
  <2>1. /\ rows' = rows /\ late' = late /\ early' = early /\ sends' = Append(sends, TextOf(req[r]))
        /\ echoes' = echoes \cup {NextId} /\ alien' \in {alien, alien \cup {NextId}}
        /\ req[r].kind \in {"hook", "carrier"}
    BY <1>7 DEF SendNotice, Send, At
  <2>2. /\ TextOf(req[r]) \in Text /\ Others(r) /\ req'[r].kind = req[r].kind
        /\ req'[r].msg = NextId /\ req'[r].pc = "store"
    BY <1>0, <1>a, <1>7, NoticeFacts
  <2>n. PICK n : n = NextId
    OBVIOUS
  <2>3. /\ n # 0 /\ DOMAIN sends' = DOMAIN sends \cup {n} /\ n \notin DOMAIN sends /\ AnswersKept
        /\ \A i \in DOMAIN sends : sends'[i] = sends[i]
    BY <1>0, <2>1, <2>2, <2>n, SendTypes
  <2>4. \A j \in DOMAIN rows : rows[j].of # n
    BY <1>0, <2>3 DEF EntryInv, RowOK
  <2>5. Prepared(req[r])'
    BY <2>1, <2>2, <2>3, <2>4, <2>n DEF Prepared, Named, Replying
  <2>6. \A q \in Req : Replying(req[q])' => Replying(req[q]) /\ req'[q].msg = req[q].msg
    BY <2>1, <2>2 DEF Replying, Others
  <2> QED
    BY <2>1, <2>2, <2>3, <2>5, <2>6, EntryQuiet DEF Others
<1>8. ASSUME NEW r \in Req, StoreNotice(r) PROVE EntryInv'
  <2>p. PICK i \in DOMAIN sends : i = req[r].msg
    BY <1>8, <1>a DEF StoreNotice, At, Prepared
  <2>1. /\ UNCHANGED <<sends, alien, late, early>> /\ Finish(r) /\ Named(i)
    BY <1>8, <1>a, <2>p DEF StoreNotice, At, Prepared
  <2>2. Others(r) /\ Prepared(req[r])' /\ ~Replying(req[r])'
    BY <2>1, <1>c
  <2>3. CASE HasId(AnswerId(i))
    BY <1>8, <1>b, <2>p, <2>1, <2>2, <2>3 DEF StoreNotice
  <2>4. CASE ~HasId(AnswerId(i))
    <3> DEFINE m == [id |-> AnswerId(i), of |-> i, text |-> sends[i], sender |-> "AI"]
    <3>1. rows' = Append(rows, m)
      BY <1>8, <2>p, <2>4 DEF StoreNotice
    <3>2. m \in Entry /\ RowOK(m) /\ m.id # 0 /\ i # 0
      BY <1>0 DEF Entry, ChatTypes, RowOK, AnswerId
    <3>3. m.of \notin Exempt \cup {0} => \A j \in DOMAIN rows : rows[j].of # m.of
      BY <1>0, <2>1, <2>4 DEF Named, HasId, EntryInv, RowOK
    <3>4. \A u, q \in Req : Replying(req[u])' /\ Replying(req[q])' /\ req'[u].msg = req'[q].msg => u = q
      BY <1>0, <2>2 DEF EntryInv, Others, Replying
    <3> HIDE DEF m
    <3> QED
      BY <2>1, <2>2, <3>1, <3>2, <3>3, <3>4, AppendEntry DEF Others
  <2> QED
    BY <2>3, <2>4
<1>9. ASSUME NEW r \in Req, PersistReply(r) PROVE EntryInv'
  <2> DEFINE m == [id |-> 0, of |-> 0, text |-> Reply, sender |-> "AI"]
  <2>1. /\ UNCHANGED <<sends, alien, late, early>> /\ rows' = Append(rows, m) /\ req[r].kind = "reply"
        /\ req' = [req EXCEPT ![r].pc = "send", ![r].msg = Len(rows) + 1]
    BY <1>9 DEF PersistReply, At
  <2>2. m \in Entry /\ RowOK(m) /\ m.of = 0
    BY DEF Entry, Text, RowOK, AnswerId
  <2>n. PICK n : n = Len(rows) + 1
    OBVIOUS
  <2>3. Others(r) /\ req'[r].kind = "reply" /\ req'[r].pc = "send" /\ req'[r].msg = n
    BY <1>0, <2>1, <2>n DEF Others, Request
  <2>4. DOMAIN rows' = DOMAIN rows \cup {n} /\ n \notin DOMAIN rows /\ rows'[n] = m
    BY <1>0, <2>1, <2>2, <2>n, EntryTypes
  <2>5. Prepared(req[r])'
    BY <2>3, <2>4 DEF Prepared, Replying
  <2>6. \A u, q \in Req : Replying(req[u])' /\ Replying(req[q])' /\ req'[u].msg = req'[q].msg => u = q
    <3>1. \A q \in Req \ {r} : Replying(req[q])'
             => Replying(req[q]) /\ req'[q].msg = req[q].msg /\ req[q].msg # n
      BY <1>a, <2>3, <2>4 DEF Others, Replying, Prepared
    <3> QED
      BY <1>0, <2>3, <3>1 DEF EntryInv
  <2> HIDE DEF m
  <2> QED
    BY <2>1, <2>2, <2>3, <2>5, <2>6, AppendEntry DEF Others
<1>10. ASSUME NEW r \in Req, SendReply(r) PROVE EntryInv'
  <2>1. CASE ~Sendable(session)
    BY <1>10, <1>b, <1>c, <2>1 DEF SendReply
  <2> QED
    BY <1>10, <2>1, SendReplyEntry
<1>11. ASSUME NEW r \in Req, NameReply(r) PROVE EntryInv'
  BY <1>11, NameReplyEntry
<1>12. ASSUME NEW r \in Req, FindKnown(r) PROVE EntryInv'
  <2>1. /\ rows' = rows /\ UNCHANGED <<sends, alien, late, early>> /\ req[r].kind = "echo"
        /\ Finish(r) \/ MoveTo(r, "recent")
    BY <1>12 DEF FindKnown, At, Answer
  <2>2. CASE Finish(r)
    BY <1>b, <1>c, <2>1, <2>2
  <2>3. CASE MoveTo(r, "recent")
    <3>1. Others(r) /\ Prepared(req[r])' /\ ~Replying(req[r])'
      BY <1>0, <1>a, <2>1, <2>3, MoveFacts DEF Prepared, Replying
    <3> QED
      BY <1>b, <2>1, <3>1
  <2> QED
    BY <2>1, <2>2, <2>3
<1>13. ASSUME NEW r \in Req, FindRecent(r) PROVE EntryInv'
  <2>p. PICK i \in DOMAIN sends : i = req[r].msg
    BY <1>13, <1>a DEF FindRecent, At, Prepared
  <2>1. rows' = rows /\ sends' = sends /\ alien' = alien /\ Exempt \subseteq Exempt' /\ req[r].kind = "echo"
    BY <1>13 DEF FindRecent, At
  <2>2. CASE Finish(r)
    BY <1>b, <1>c, <2>1, <2>2
  <2>3. CASE MoveTo(r, "store") /\ (i \in Exempt' \/ (i \notin alien /\ ~OwnRow(sends[i])))
    <3>1. ~OwnRow(sends[i]) => Named(i)
      <4> SUFFICES ASSUME ~OwnRow(sends[i]), NEW j \in DOMAIN rows, rows[j].of = i PROVE rows[j].id # 0
        BY DEF Named
      <4>1. RowOK(rows[j]) /\ i # 0
        BY <1>0 DEF EntryInv, ChatTypes
      <4> QED
        BY <4>1 DEF RowOK, OwnRow
    <3>2. Others(r) /\ req'[r].kind = "echo" /\ req'[r].msg = i
      BY <1>0, <2>p, <2>1, <2>3, MoveFacts
    <3>3. Prepared(req[r])' /\ ~Replying(req[r])'
      BY <2>1, <2>3, <3>1, <3>2 DEF Prepared, Named, Replying
    <3> QED
      BY <1>b, <2>1, <3>2, <3>3
  <2> QED
    BY <1>13, <2>p, <2>2, <2>3 DEF FindRecent, Answer
<1>14. ASSUME NEW r \in Req, StoreEcho(r) PROVE EntryInv'
  <2>p. PICK i \in DOMAIN sends : i = req[r].msg
    BY <1>14, <1>a DEF StoreEcho, At, Prepared
  <2>1. /\ UNCHANGED <<sends, alien, late, early>> /\ Finish(r)
        /\ i \in Exempt \/ (i \notin alien /\ Named(i))
    BY <1>14, <1>a, <2>p DEF StoreEcho, At, Prepared, Answer
  <2>2. Others(r) /\ Prepared(req[r])' /\ ~Replying(req[r])'
    BY <2>1, <1>c
  <2>3. CASE HasId(i)
    BY <1>14, <1>b, <2>p, <2>1, <2>2, <2>3 DEF StoreEcho
  <2>4. CASE ~HasId(i)
    <3> DEFINE m == [id |-> i, of |-> i, text |-> sends[i], sender |-> "MERCHANT"]
    <3>1. rows' = Append(rows, m)
      BY <1>14, <2>p, <2>4 DEF StoreEcho
    <3>2. m \in Entry /\ RowOK(m) /\ m.id # 0
      BY <1>0, <2>1 DEF Entry, ChatTypes, RowOK, AnswerId
    <3>3. m.of \notin Exempt \cup {0} => \A j \in DOMAIN rows : rows[j].of # m.of
      BY <1>0, <2>1, <2>4 DEF Named, HasId, EntryInv, RowOK, AnswerId
    <3>4. \A u, q \in Req : Replying(req[u])' /\ Replying(req[q])' /\ req'[u].msg = req'[q].msg => u = q
      BY <1>0, <2>2 DEF EntryInv, Others, Replying
    <3> HIDE DEF m
    <3> QED
      BY <2>1, <2>2, <3>1, <3>2, <3>3, <3>4, AppendEntry DEF Others
  <2> QED
    BY <2>3, <2>4
<1>15. ASSUME NEW r \in Req, CreateParcel(r) PROVE EntryInv'
  BY <1>15, <1>b, <1>d DEF CreateParcel, At
<1>16. ASSUME NEW r \in Req, SaveTracking(r) PROVE EntryInv'
  BY <1>16, <1>b, <1>c DEF SaveTracking
<1>17. ASSUME NEW r \in Req, FindTracked(r) PROVE EntryInv'
  BY <1>17, <1>b, <1>c, <1>d DEF FindTracked, At
<1>18. ASSUME NEW r \in Req, ApplyEvent(r) PROVE EntryInv'
  BY <1>18, <1>b, <1>c, <1>d DEF ApplyEvent, At
<1>19. ASSUME NEW r \in Req, Fails(r) PROVE EntryInv'
  BY <1>19, <1>b, <1>c DEF Fails
<1>20. ASSUME NEW r \in Req, NEW o \in Order, Arrives(r, o) PROVE EntryInv'
  <2>1. PICK k \in Kind \ {"echo"}, p \in Order \cup {Nothing}, v \in ShopStatus \cup {Nothing} :
           Serve(r, k, p, v, 0)
    BY <1>20, ArrivesServes
  <2> QED
    BY <1>20, <2>1, <1>e DEF Arrives
<1>21. ASSUME NEW r \in Req, NEW i \in echoes, EchoArrives(r, i) \/ EchoRepeats(r, i) PROVE EntryInv'
  <2>1. i \in Nat /\ i \in DOMAIN sends /\ Serve(r, "echo", Nothing, Nothing, i) /\ "echo" \in Kind
    BY <1>21, <1>0 DEF EchoArrives, EchoRepeats, ShopTypeOK, Kind
  <2> QED
    BY <1>21, <2>1, <1>e DEF EchoArrives, EchoRepeats
<1>22. ASSUME NEW t \in {Typed, Reply}, MerchantTypes(t) PROVE EntryInv'
  <2>1. DOMAIN sends \subseteq DOMAIN sends' /\ \A i \in DOMAIN sends : sends'[i] = sends[i]
    BY <1>0, <1>22, SendTypes DEF MerchantTypes, Text
  <2> QED
    BY <1>22, <2>1, EntryQuiet DEF MerchantTypes, Replying, AnswersKept
<1>23. ASSUME UNCHANGED <<req, rows, sends, alien, late, early>> PROVE EntryInv'
  BY <1>23, EntryQuiet DEF Replying, AnswersKept
<1>24. (\E x \in {"connected", "ready", "disconnected"} : SessionStatus(x)) \/ UNCHANGED shopVars
       => UNCHANGED <<req, rows, sends, alien, late, early>>
  BY DEF SessionStatus, shopVars
<1> QED
  BY <1>1, <1>2, <1>3, <1>4, <1>5, <1>6, <1>7, <1>8, <1>9, <1>10, <1>11, <1>12, <1>13, <1>14, <1>15,
     <1>16, <1>17, <1>18, <1>19, <1>20, <1>21, <1>22, <1>23, <1>24 DEF ShopNext, Step

-----------------------------------------------------------------------------
\* The invariant holds at the start and every step keeps it.
THEOREM ShopInductive == ShopSpec => []ShopIInv
<1>1. ShopInit => ShopIInv
  <2> SUFFICES ASSUME ShopInit PROVE ShopIInv
    OBVIOUS
  <2>1. ShopTypeOK
    BY DEF ShopInit, ShopTypeOK, Idle, Request
  <2>2. \A r \in Req : req[r].kind = Nothing
    BY DEF ShopInit, Idle
  <2>3. RequestsOK
    BY <2>2 DEF RequestsOK, RequestOK, Kind
  <2>4. ToldInv
    <3>1. \A o \in Order : News(o) = {} /\ \A r \in Req : ~Telling(req[r], o)
      BY <2>2 DEF News, Telling, ShopInit, Kind
    <3> QED
      BY <3>1 DEF ToldInv
  <2>5. EntryInv
    <3>1. rows = <<>> /\ \A r \in Req : ~Replying(req[r]) /\ Prepared(req[r])
      BY <2>2 DEF ShopInit, Replying, Prepared, Kind
    <3> QED
      BY <3>1 DEF EntryInv, OneEntryPerSend
  <2> QED
    BY <2>1, <2>3, <2>4, <2>5 DEF ShopIInv
<1>2. ShopIInv /\ [ShopNext]_shopVars => ShopIInv'
  BY ShopTypeStep, RequestStep, NewsStep, EntryStep DEF ShopIInv
<1> QED
  BY <1>1, <1>2, PTL DEF ShopSpec

\* Every variable of the shop's side keeps its type.
THEOREM ShopTypeCorrect == ShopSpec => []ShopTypeOK
<1>1. ShopIInv => ShopTypeOK
  BY DEF ShopIInv
<1> QED
  BY <1>1, ShopInductive, PTL

\* handleOrderWebhook tells the customer of an order at most once, for any number of
\* orders, redeliveries, syncs and carrier events that overlap, and whatever fails.
THEOREM CustomerIsToldOnce == ShopSpec => []ToldOnce
<1>1. ShopIInv => ToldOnce
  <2> SUFFICES ASSUME ShopIInv, NEW o \in Order PROVE Cardinality(News(o)) <= 1
    BY DEF ToldOnce, News
  <2>1. \A i, j \in News(o) : i = j
    BY DEF ShopIInv, ToldInv
  <2>2. CASE News(o) = {}
    BY <2>2, FS_EmptySet
  <2>3. CASE News(o) # {}
    <3>1. PICK i \in News(o) : TRUE
      BY <2>3
    <3>2. News(o) = {i}
      BY <2>1
    <3>3. Cardinality({i}) = 1
      BY FS_Singleton
    <3> QED
      BY <3>2, <3>3
  <2> QED
    BY <2>2, <2>3
<1> QED
  BY <1>1, ShopInductive, PTL

\* persistMerchantMessage, the notifications and the replies write one entry for a
\* message of the account, in whatever order the send, its row, its id and its
\* (possibly repeated) webhook come, but for a webhook later than the window and for
\* one with an id of its own that is looked up before the row is written.
THEOREM TranscriptHasOneEntry == ShopSpec => []OneEntryPerSend
<1>1. ShopIInv => OneEntryPerSend
  BY DEF ShopIInv, EntryInv
<1> QED
  BY <1>1, ShopInductive, PTL

=============================================================================
