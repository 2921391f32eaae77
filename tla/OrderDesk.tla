------------------------------- MODULE OrderDesk -------------------------------
(***************************************************************************)
(* What happens to the orders and the Conversation of one customer once    *)
(* they exist: the tool server and its write tools (grpc/tool.server.ts,   *)
(* ai/tools/registry.ts), the hand-over of the agent bridge, orders that   *)
(* are ingested, what a carrier reports of them and the notices sent for   *)
(* them, and what the merchant does in the dashboard.                      *)
(*                                                                         *)
(* A step is one statement on the database; a tool is several of them in   *)
(* no transaction.  TurnGuard keeps two Turns of a Conversation apart, but *)
(* a tool call that timed out in the agent still runs here, so calls       *)
(* overlap.  createOrder is one step: CreateOrderOnce has its detail.      *)
(***************************************************************************)
EXTENDS Naturals, FiniteSets

CONSTANTS
    Order, Call,
    Quantity,        \* quantities a customer asks for
    Wilaya,          \* w is also its delivery cost: 0 when none is configured
    Price,
    None,
    MaxCalls, MaxMerchant, MaxFaults    \* bounds: requests, merchant's acts, errors

ASSUME DeskAssumption ==
    /\ Quantity \subseteq Nat \ {0} /\ Wilaya \subseteq Nat /\ Price \in Nat
    /\ None \notin Order \cup Quantity \cup Wilaya
    /\ {MaxCalls, MaxMerchant, MaxFaults} \subseteq Nat

VARIABLES
    ord,             \* the order rows
    conv,            \* the Conversation row; about and aside are history: the order its
                     \* state was last written for, and whether that was ever not the current
    place,           \* wilaya and commune of the customer row
    call,            \* the requests under way
    queued,          \* orders of the confirmation queue
    told,            \* ghost: a dashboard notification followed the last Takeover
    raced,           \* ghost: orders that changed between a modify's read and write
    disturbed,       \* ghost: requests overlapped, one failed, or the merchant or a carrier set a status
    calls, acts, faults

ghosts == <<told, raced, disturbed>>
vars == <<ord, conv, place, call, queued, ghosts, calls, acts, faults>>

Status == {"PENDING", "CONFIRMED", "SHIPPED", "DELIVERED", "CANCELLED"}
State == {"IDLE", "PRODUCT_DISCOVERY", "PRODUCT_SELECTED", "WAITING_CONFIRMATION", "CONFIRMED", "CANCELLED"}
Tool == {"read", "createOrder", "confirmOrder", "cancelOrder", "modifyOrder", "escalate", "handOver", "ingest",
         "notice", "delivery"}

\* A commune is named by the wilaya it lies in.
Want == [qty : Quantity \cup {None}, wilaya : Wilaya \cup {None}, commune : Wilaya \cup {None}]
Nothing == [qty |-> None, wilaya |-> None, commune |-> None]

Idle == [pc |-> "idle", tool |-> None, order |-> None, want |-> Nothing, seen |-> None]

Total(q, cost) == Price * q + cost

NewOrder(q, w, c) ==
    [status |-> "PENDING", qty |-> q, wilaya |-> w, commune |-> c, cost |-> w, total |-> Total(q, w)]

Init ==
    /\ ord = [o \in Order |-> None]
    /\ conv = [state |-> "IDLE", current |-> None, taken |-> FALSE, escalated |-> FALSE, resolved |-> FALSE,
               about |-> None, aside |-> FALSE]
    /\ place = [wilaya |-> None, commune |-> None]
    /\ call = [t \in Call |-> Idle]
    /\ queued = {}
    /\ told = FALSE /\ raced = {} /\ disturbed = FALSE
    /\ calls = 0 /\ acts = 0 /\ faults = 0

Fresh == {o \in Order : ord[o] = None /\ \A t \in Call : call[t].order # o}
At(t, tool, pc) == call[t].tool = tool /\ call[t].pc = pc
Goes(t, pc) == call' = [call EXCEPT ![t].pc = pc]
Ends(t) == call' = [call EXCEPT ![t] = Idle]
Bounds == UNCHANGED <<calls, acts, faults>>
Modifies(o) == {t \in Call : At(t, "modifyOrder", "write") /\ call[t].order = o}

-------------------------------------------------------------------------------
(* The tool server. *)

\* The Takeover gate: read tools answer that they are suppressed.
Suppressed(tool) == conv.taken /\ tool = "read"

\* The order a tool works on: the current one is filled in when the agent leaves
\* orderId out, and another order of the customer is taken as it is given.
Target(tool) ==
    CASE tool \in {"confirmOrder", "cancelOrder", "modifyOrder", "notice", "delivery"} ->
            {o \in Order : ord[o] # None}
      [] tool \in {"createOrder", "ingest"} -> Fresh
      [] OTHER -> {None}

\* The arguments that pass the schema of the tool.
Args(tool) ==
    CASE tool = "modifyOrder" -> Want \ {Nothing}
      [] tool \in {"createOrder", "ingest"} -> [qty : Quantity, wilaya : Wilaya, commune : Wilaya]
      [] OTHER -> {Nothing}

\* executeTool of the agent, the bridge's hand-over of a message, an order of
\* POST /orders, the notice of an order or the webhook of a carrier.
Begin(t, tool) ==
    /\ call[t].pc = "idle" /\ calls < MaxCalls
    /\ ~Suppressed(tool)
    /\ \E o \in Target(tool), w \in Args(tool) :
          call' = [call EXCEPT ![t] = [pc |-> "first", tool |-> tool, order |-> o, want |-> w, seen |-> None]]
    /\ calls' = calls + 1
    /\ disturbed' = (disturbed \/ \E u \in Call : call[u].pc # "idle")
    /\ UNCHANGED <<ord, conv, place, queued, told, raced, acts, faults>>

\* searchProducts, suggestProducts and the other read tools, then
\* applyReadToolState when something was found.
Read(t) ==
    /\ At(t, "read", "first")
    /\ Goes(t, "second") \/ Ends(t)
    /\ Bounds /\ UNCHANGED <<ord, conv, place, queued, ghosts>>

\* READ_TOOL_TRANSITIONS: of a search or a suggestion, and of a chosen product.
ReadTransition == {"PRODUCT_DISCOVERY", "PRODUCT_SELECTED"}

ApplyReadToolState(t) ==
    /\ At(t, "read", "second")
    /\ \E s \in ReadTransition : conv' = [conv EXCEPT !.state = s]
    /\ Ends(t)
    /\ Bounds /\ UNCHANGED <<ord, place, queued, ghosts>>

-------------------------------------------------------------------------------
(* The write tools. *)

\* The transaction of createOrder, behind validateCommune.
CreateOrder(t) ==
    /\ At(t, "createOrder", "first")
    /\ LET w == call[t].want
           o == call[t].order IN
       IF w.commune = w.wilaya
       THEN /\ ord' = [ord EXCEPT ![o] = NewOrder(w.qty, w.wilaya, w.commune)]
            /\ place' = [wilaya |-> w.wilaya, commune |-> w.commune]
            /\ conv' = [conv EXCEPT !.current = o, !.state = "WAITING_CONFIRMATION", !.about = o]
            /\ call' = [call EXCEPT ![t].pc = "queue", ![t].want = Nothing]
       ELSE Ends(t) /\ UNCHANGED <<ord, place, conv>>
    /\ Bounds /\ UNCHANGED <<queued, ghosts>>

\* enqueueOrderJob, of createOrder and of ingestOrder.
Enqueue(t) ==
    /\ call[t].pc = "queue"
    /\ queued' = queued \cup {call[t].order}
    /\ Ends(t)
    /\ Bounds /\ UNCHANGED <<ord, conv, place, ghosts>>

\* A status is written; a modify that has read the order does not see it.
SetOrder(o, s) ==
    /\ ord' = [ord EXCEPT ![o].status = s]
    /\ raced' = IF Modifies(o) = {} THEN raced ELSE raced \cup {o}

ConfirmOrder(t) ==
    /\ At(t, "confirmOrder", "first")
    /\ SetOrder(call[t].order, "CONFIRMED")
    /\ Goes(t, "second")
    /\ Bounds /\ UNCHANGED <<conv, place, queued, told, disturbed>>

CancelFind(t) ==
    /\ At(t, "cancelOrder", "first")
    /\ IF ord[call[t].order].status = "CANCELLED" THEN Ends(t) ELSE Goes(t, "write")
    /\ Bounds /\ UNCHANGED <<ord, conv, place, queued, ghosts>>

CancelOrder(t) ==
    /\ At(t, "cancelOrder", "write")
    /\ SetOrder(call[t].order, "CANCELLED")
    /\ Goes(t, "second")
    /\ Bounds /\ UNCHANGED <<conv, place, queued, told, disturbed>>

\* Mutant: a cancelled order leaves the Conversation as if it were confirmed.
TransitionOfConfirm(tool) == "CONFIRMED"

\* TOOL_STATE_TRANSITIONS of the two.
Transition(tool) == IF tool = "confirmOrder" THEN "CONFIRMED" ELSE "CANCELLED"

SetState(t) ==
    /\ At(t, "confirmOrder", "second") \/ At(t, "cancelOrder", "second")
    /\ conv' = [conv EXCEPT !.state = Transition(call[t].tool), !.about = call[t].order,
                            !.aside = @ \/ call[t].order # conv.current]
    /\ Ends(t)
    /\ Bounds /\ UNCHANGED <<ord, place, queued, ghosts>>

Or(x, y) == IF x = None THEN y ELSE x

\* Only a pending order is modified.
Modifiable(r) == r.status = "PENDING"

\* validateCommune, against the new wilaya or else the present one.
CommuneValid(w, r) == w.commune # None => w.commune = Or(w.wilaya, r.wilaya)

\* modifyOrder reads the order, its product, the commune and the delivery cost.
ModifyFind(t) ==
    /\ At(t, "modifyOrder", "first")
    /\ LET r == ord[call[t].order]
           w == call[t].want IN
       IF Modifiable(r) /\ CommuneValid(w, r)
       THEN call' = [call EXCEPT ![t].pc = "write", ![t].seen = r]
       ELSE Ends(t)
    /\ Bounds /\ UNCHANGED <<ord, conv, place, queued, ghosts>>

\* Mutant: the total is made with the old delivery cost.
NewTotalOldCost(w, r) == Total(Or(w.qty, r.qty), r.cost)

\* The total of the new quantity and delivery cost, from the row read before.
NewTotal(w, r) == Total(Or(w.qty, r.qty), Or(w.wilaya, r.cost))

ModifyOrder(t) ==
    /\ At(t, "modifyOrder", "write")
    /\ LET o == call[t].order
           w == call[t].want
           r == call[t].seen IN
       /\ ord' = [ord EXCEPT ![o].qty = Or(w.qty, @), ![o].wilaya = Or(w.wilaya, @),
                             ![o].commune = Or(w.commune, @), ![o].cost = Or(w.wilaya, @),
                             ![o].total = NewTotal(w, r)]
       /\ IF w.wilaya # None \/ w.commune # None
          THEN call' = [call EXCEPT ![t].pc = "second", ![t].seen = None]
          ELSE Ends(t)
       /\ raced' = IF Modifies(o) = {t} THEN raced ELSE raced \cup {o}
    /\ Bounds /\ UNCHANGED <<conv, place, queued, told, disturbed>>

ModifyCustomer(t) ==
    /\ At(t, "modifyOrder", "second")
    /\ place' = [wilaya |-> Or(call[t].want.wilaya, place.wilaya),
                 commune |-> Or(call[t].want.commune, place.commune)]
    /\ Ends(t)
    /\ Bounds /\ UNCHANGED <<ord, conv, queued, ghosts>>

\* escalateConversation does nothing for a Conversation that is taken over; the
\* escalate of the agent bridge does not look.
EscalateFind(t) ==
    /\ At(t, "escalate", "first") \/ At(t, "handOver", "first")
    /\ IF conv.taken /\ call[t].tool = "escalate" THEN Ends(t) ELSE Goes(t, "write")
    /\ Bounds /\ UNCHANGED <<ord, conv, place, queued, ghosts>>

\* Mutant: the Conversation is seen as taken over, by this very call.
AfterTakeoverNothing(t) == Ends(t)

\* The notification follows the Takeover.
AfterTakeover(t) == Goes(t, "second")

Escalate(t) ==
    /\ At(t, "escalate", "write") \/ At(t, "handOver", "write")
    /\ conv' = [conv EXCEPT !.taken = TRUE, !.escalated = TRUE]
    /\ told' = (told /\ conv.taken)
    /\ AfterTakeover(t)
    /\ Bounds /\ UNCHANGED <<ord, place, queued, raced, disturbed>>

Notify(t) ==
    /\ At(t, "escalate", "second") \/ At(t, "handOver", "second")
    /\ told' = TRUE
    /\ Ends(t)
    /\ Bounds /\ UNCHANGED <<ord, conv, place, queued, raced, disturbed>>

-------------------------------------------------------------------------------
(* Orders that are ingested, carriers and notices, and the merchant. *)

\* ingestOrder: the order first, with a total of its own making.
IngestOrder(t) ==
    /\ At(t, "ingest", "first")
    /\ LET w == call[t].want
           o == call[t].order IN
       ord' = [ord EXCEPT ![o] = NewOrder(w.qty, w.wilaya, w.commune)]
    /\ call' = [call EXCEPT ![t].pc = "find", ![t].want = Nothing]
    /\ Bounds /\ UNCHANGED <<conv, place, queued, ghosts>>

\* The Conversation the order is linked to; a closed one is not found.
Finds == conv.state # "CANCELLED"

\* ... then its Conversation.  When it is not found a new one is created, which
\* the unique key of merchant and customer refuses: the request fails.
IngestFind(t) ==
    /\ At(t, "ingest", "find")
    /\ IF Finds THEN Goes(t, "link") ELSE Ends(t)
    /\ Bounds /\ UNCHANGED <<ord, conv, place, queued, ghosts>>

IngestLink(t) ==
    /\ At(t, "ingest", "link")
    /\ conv' = [conv EXCEPT !.current = call[t].order, !.state = "WAITING_CONFIRMATION",
                            !.about = call[t].order]
    /\ Goes(t, "queue")
    /\ Bounds /\ UNCHANGED <<ord, place, queued, ghosts>>

\* handleWebhook of a carrier: the status whatever it was, then a notice if the
\* order is on its way or there.
DeliveryStatus(t) ==
    /\ At(t, "delivery", "first")
    /\ \E s \in {"SHIPPED", "DELIVERED", "CANCELLED"} :
          /\ SetOrder(call[t].order, s)
          /\ IF s = "CANCELLED" THEN Ends(t) ELSE Goes(t, "link")
    /\ disturbed' = TRUE
    /\ Bounds /\ UNCHANGED <<conv, place, queued, told>>

\* createFromOrder, of both notices, if WhatsApp is connected: the order becomes
\* the current one and the state stays.
CreateFromOrder(t) ==
    /\ At(t, "notice", "first") \/ At(t, "delivery", "link")
    /\ \/ UNCHANGED conv
       \/ conv' = [conv EXCEPT !.current = call[t].order,
                               !.aside = @ \/ conv.about \notin {None, call[t].order}]
    /\ Ends(t)
    /\ Bounds /\ UNCHANGED <<ord, place, queued, ghosts>>

\* A statement of a request throws: it is answered with an error, and what it
\* wrote stays.
Fails(t) ==
    /\ call[t].pc # "idle" /\ faults < MaxFaults
    /\ faults' = faults + 1
    /\ Ends(t)
    /\ disturbed' = TRUE
    /\ UNCHANGED <<ord, conv, place, queued, told, raced, calls, acts>>

Act == acts < MaxMerchant /\ acts' = acts + 1 /\ UNCHANGED <<place, call, queued, calls, faults>>

BulkUpdateStatus(o, s) ==
    /\ Act
    /\ ord[o] # None /\ ord[o].status # s
    /\ SetOrder(o, s)
    /\ disturbed' = TRUE
    /\ UNCHANGED <<conv, told>>

\* bulkHoldAgent, for the Conversations whose current order is among the given ones.
BulkHoldAgent(hold) ==
    /\ Act
    /\ conv.current # None
    /\ conv' = [conv EXCEPT !.taken = hold]
    /\ UNCHANGED <<ord, ghosts>>

\* resolveEscalation and resolveAllEscalations; nothing undoes it.
ResolveEscalation ==
    /\ Act
    /\ conv.escalated
    /\ conv' = [conv EXCEPT !.resolved = TRUE]
    /\ UNCHANGED <<ord, ghosts>>

-------------------------------------------------------------------------------
(* The specification. *)

Next ==
    \/ \E t \in Call :
          \/ \E tool \in Tool : Begin(t, tool)
          \/ Read(t) \/ ApplyReadToolState(t) \/ CreateOrder(t) \/ Enqueue(t)
          \/ ConfirmOrder(t) \/ CancelFind(t) \/ CancelOrder(t) \/ SetState(t)
          \/ ModifyFind(t) \/ ModifyOrder(t) \/ ModifyCustomer(t)
          \/ EscalateFind(t) \/ Escalate(t) \/ Notify(t)
          \/ IngestOrder(t) \/ IngestFind(t) \/ IngestLink(t)
          \/ DeliveryStatus(t) \/ CreateFromOrder(t)
          \/ Fails(t)
    \/ \E o \in Order, s \in Status : BulkUpdateStatus(o, s)
    \/ \E hold \in BOOLEAN : BulkHoldAgent(hold)
    \/ ResolveEscalation

Spec == Init /\ [][Next]_vars

-------------------------------------------------------------------------------
(* Properties. *)

Row == [status : Status, qty : Quantity, wilaya : Wilaya, commune : Wilaya, cost : Wilaya, total : Nat]

ASSUME NoneAssumption == None \notin Row \cup Tool

Working(tools) == \E t \in Call : call[t].tool \in tools

\* The variables have their types.
TypeOK ==
    /\ ord \in [Order -> Row \cup {None}]
    /\ conv \in [state : State, current : Order \cup {None}, taken : BOOLEAN,
                 escalated : BOOLEAN, resolved : BOOLEAN, about : Order \cup {None}, aside : BOOLEAN]
    /\ place \in [wilaya : Wilaya \cup {None}, commune : Wilaya \cup {None}]
    /\ call \in [Call -> [pc : {"idle", "first", "find", "write", "link", "queue", "second"},
                          tool : Tool \cup {None}, order : Order \cup {None}, want : Want,
                          seen : Row \cup {None}]]
    /\ queued \subseteq Order /\ raced \subseteq Order
    /\ {told, disturbed} \subseteq BOOLEAN

\* What the customer is to pay is the price of the quantity he has and the
\* delivery to the wilaya he has, after any modifications; except on an order
\* that another request changed between modifyOrder's read and its write.
TotalFits ==
    \A o \in Order \ raced : ord[o] # None =>
        ord[o].cost = ord[o].wilaya /\ ord[o].total = Total(ord[o].qty, ord[o].cost)

\* A Takeover the agent asked for is followed by a notification of the merchant,
\* whoever of the tool and the bridge comes first, if no statement fails.
MerchantIsTold ==
    conv.taken /\ conv.escalated /\ faults = 0 /\ ~Working({"escalate", "handOver"}) => told

\* The state of the Conversation fits the status of order o.
StateFits(o) ==
    /\ conv.state = "WAITING_CONFIRMATION" => ord[o].status = "PENDING"
    /\ conv.state \in {"CONFIRMED", "CANCELLED"} => ord[o].status = conv.state

Quiet == ~disturbed /\ \A t \in Call : call[t].pc = "idle"

\* The state of the Conversation is the one of the order it was last written for,
\* over any sequence of searches, orders, confirmations, cancellations and notices
\* in which requests do not overlap or fail and neither the merchant nor a carrier
\* sets a status.  That order is the current one, unless a tool was ever given the
\* id of another order or a notice made another order the current one.
StateFollowsOrder ==
    Quiet /\ conv.about # None => StateFits(conv.about) /\ (conv.aside \/ conv.about = conv.current)
===============================================================================
