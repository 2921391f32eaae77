------------------------------ MODULE StoreOrders ------------------------------
(***************************************************************************)
(* What back does with orders that come from the merchant's shop, with     *)
(* what the carrier reports about them, and with the transcript of the     *)
(* messages this sends to the customer.                                    *)
(*                                                                         *)
(* A shop order arrives by webhook (delivered at least once) or by a sync  *)
(* and is stored once; the webhook that stored it tells the customer on    *)
(* WhatsApp.  The carrier's webhook moves the status and tells the         *)
(* customer again.  Every message of the linked account, our own sends     *)
(* and what the merchant types on the phone, comes back as a message.sent  *)
(* webhook; only the merchant's must be stored from there.                 *)
(*                                                                         *)
(* One merchant with one customer.  A request is one execution of a        *)
(* handler, with one action per await that reads or writes shared state.   *)
(* A WhatsApp message is its position in `sends', which stands for the id  *)
(* its message.sent webhook carries; what the send itself answered is that *)
(* id too, or another one.                                                 *)
(***************************************************************************)
EXTENDS Integers, Sequences, FiniteSets

CONSTANTS
    Order,          \* orders of the shop
    Payment,        \* statuses mapFinancialStatus gives the orders of the shop
    Event,          \* statuses the events of the carrier stand for
    Req,            \* requests back handles at the same time
    Nothing,        \* no value, no order, no row
    MaxArrivals,    \* bound: webhooks, syncs, shipments, replies and typed messages
    MaxShopFaults       \* bound: failing steps, lost answers and late webhooks

ASSUME OrdersAssumption ==
    /\ Payment \subseteq {"PENDING", "CONFIRMED", "CANCELLED"}
    /\ Event \subseteq {"SHIPPED", "DELIVERED", "CANCELLED"}
    /\ MaxArrivals \in Nat /\ MaxShopFaults \in Nat

VARIABLES
    row,        \* Order rows: Nothing, or the status
    track,      \* Order.trackingNumber is the carrier's
    parcels,    \* parcels the carrier has for an order
    conv,       \* the customer's Conversation: "absent", Nothing, or its currentOrderId
    session,    \* WhatsAppSession.status of the merchant
    req,        \* the requests
    sends,      \* messages of the linked account: what they say
    rows,       \* Message rows of direction OUT
    echoes,     \* sends whose message.sent webhook is still to be answered
    alien,      \* sends whose answer named another id than their webhook
    late,       \* ghost: sends whose webhook came after OWN_SEND_WINDOW_MS
    early,      \* ghost: alien sends whose webhook found no own row to go by
    arrivals, shopFaults

orderVars == <<row, track, parcels>>
chatVars == <<sends, rows, echoes, alien, late, early>>
shopVars == <<orderVars, conv, session, req, chatVars, arrivals, shopFaults>>

ShopStatus == {"PENDING", "CONFIRMED", "CANCELLED", "SHIPPED", "DELIVERED"}
Reply == <<Nothing, "reply">>
Typed == <<Nothing, "typed">>
Text == (Order \X {"NEW", "SHIPPED", "DELIVERED"}) \cup {Reply, Typed}
Entry == [id : Int, of : Nat, text : Text, sender : {"AI", "MERCHANT"}]
Kind == {"hook", "sync", "carrier", "ship", "reply", "echo"}
Request ==
    [kind : Kind \cup {Nothing},
     pc : {"idle", "find", "update", "create", "notify", "link", "open", "send", "store", "name", "recent"},
     ord : Order \cup {Nothing}, val : ShopStatus \cup {Nothing}, msg : Nat]
Idle == [kind |-> Nothing, pc |-> "idle", ord |-> Nothing, val |-> Nothing, msg |-> 0]

\* No order, no request and no row are told apart from every value.
ASSUME NothingAssumption == Nothing \notin Order \cup ShopStatus \cup Kind \cup {"absent"}

ShopInit ==
    /\ row = [o \in Order |-> Nothing]
    /\ track = [o \in Order |-> FALSE]
    /\ parcels = [o \in Order |-> 0]
    /\ conv \in {"absent", Nothing}
    /\ session = "ready"
    /\ req = [r \in Req |-> Idle]
    /\ sends = <<>> /\ rows = <<>> /\ echoes = {}
    /\ alien = {} /\ late = {} /\ early = {}
    /\ arrivals = 0 /\ shopFaults = 0

Arrival == arrivals < MaxArrivals /\ arrivals' = arrivals + 1 /\ UNCHANGED shopFaults
ShopFault == shopFaults < MaxShopFaults /\ shopFaults' = shopFaults + 1 /\ UNCHANGED arrivals
NoFault == UNCHANGED <<arrivals, shopFaults>>

At(r, k, l) == req[r].kind \in k /\ req[r].pc = l
MoveTo(r, l) == req' = [req EXCEPT ![r].pc = l]
Finish(r) == req' = [req EXCEPT ![r] = Idle]
Serve(r, k, o, v, i) ==
    /\ req[r] = Idle
    /\ req' = [req EXCEPT ![r] = [kind |-> k, pc |-> "find", ord |-> o, val |-> v, msg |-> i]]

\* The id the next message.sent carries.
NextId == Len(sends) + 1

\* A message goes out through the API, whose answer may name another id than
\* the webhook.
Send(t) ==
    /\ sends' = Append(sends, t)
    /\ echoes' = echoes \cup {NextId}
    /\ alien' \in {alien, alien \cup {NextId}}

\* The id that answer named.
AnswerId(i) == IF i \in alien THEN -i ELSE i

\* The text a request of this kind sends.
TextOf(q) == CASE q.kind = "hook" -> <<q.ord, "NEW">>
               [] q.kind = "carrier" -> <<q.ord, q.val>>
               [] OTHER -> Reply

-------------------------------------------------------------------------------
(* Arrivals. *)

\* handleOrderWebhook, syncOrders, deliveryService.handleWebhook and shipOrder,
\* deliverAssistantReply.
Arrives(r, o) ==
    /\ Arrival
    /\ \/ \E k \in {"hook", "sync"}, s \in Payment : Serve(r, k, o, s, 0)
       \/ parcels[o] > 0 /\ \E e \in Event : Serve(r, "carrier", o, e, 0)
       \/ row[o] # Nothing /\ Serve(r, "ship", o, Nothing, 0)
       \/ conv # "absent" /\ Serve(r, "reply", Nothing, Nothing, 0)
    /\ UNCHANGED <<orderVars, conv, session, chatVars>>

\* The merchant writes to the customer on the linked phone, perhaps just what
\* was sent for them.
MerchantTypes(t) ==
    /\ Arrival
    /\ session # "disconnected"
    /\ sends' = Append(sends, t)
    /\ echoes' = echoes \cup {NextId}
    /\ UNCHANGED <<orderVars, conv, session, req, rows, alien, late, early>>

BeingServed(i) == \E q \in Req : req[q].kind = "echo" /\ req[q].msg = i

\* OpenWA calls the message.sent webhook.
EchoArrives(r, i) ==
    /\ i \in echoes /\ ~BeingServed(i)
    /\ Serve(r, "echo", Nothing, Nothing, i)
    /\ NoFault /\ UNCHANGED <<orderVars, conv, session, chatVars>>

\* It gives up on a slow answer and calls again.
EchoRepeats(r, i) ==
    /\ i \in echoes /\ BeingServed(i)
    /\ ShopFault
    /\ Serve(r, "echo", Nothing, Nothing, i)
    /\ UNCHANGED <<orderVars, conv, session, chatVars>>

-------------------------------------------------------------------------------
(* upsertOrders: of the webhook and of a sync. *)

Upsert == {"hook", "sync"}

\* The order is looked up; one without a known product is skipped.
FindOrder(r) ==
    /\ At(r, Upsert, "find")
    /\ IF row[req[r].ord] # Nothing THEN MoveTo(r, "update") ELSE MoveTo(r, "create") \/ Finish(r)
    /\ NoFault /\ UNCHANGED <<orderVars, conv, session, chatVars>>

\* A known order gets the shop's payment status, whatever it has become since.
UpdateOrder(r) ==
    /\ At(r, Upsert, "update")
    /\ row' = [row EXCEPT ![req[r].ord] = req[r].val]
    /\ Finish(r)
    /\ NoFault /\ UNCHANGED <<track, parcels, conv, session, chatVars>>

\* Mutant: a duplicate is reported as saved.
CreateAnyway(r) ==
    /\ At(r, Upsert, "create")
    /\ row' = [row EXCEPT ![req[r].ord] = IF @ = Nothing THEN req[r].val ELSE @]
    /\ IF req[r].kind = "hook" THEN MoveTo(r, "notify") ELSE Finish(r)
    /\ NoFault /\ UNCHANGED <<track, parcels, conv, session, chatVars>>

\* The unique index lets one create through; only the webhook that made the row
\* goes on to tell the customer.
CreateOrder(r) ==
    /\ At(r, Upsert, "create")
    /\ row' = [row EXCEPT ![req[r].ord] = IF @ = Nothing THEN req[r].val ELSE @]
    /\ IF req[r].kind = "hook" /\ row[req[r].ord] = Nothing THEN MoveTo(r, "notify") ELSE Finish(r)
    /\ NoFault /\ UNCHANGED <<track, parcels, conv, session, chatVars>>

-------------------------------------------------------------------------------
(* sendOrderNotification and sendDeliveryStatusNotification. *)

\* The session states a message may be sent in.
Sendable(s) == s \in {"connected", "ready"}

\* No phone number, or no live session: nothing is sent.
Notify(r) ==
    /\ At(r, {"hook", "carrier"}, "notify")
    /\ IF Sendable(session) THEN MoveTo(r, "link") ELSE Finish(r)
    /\ NoFault /\ UNCHANGED <<orderVars, conv, session, chatVars>>

\* createFromOrder: the order becomes the current one of the Conversation, also
\* when it is an old one the carrier just delivered.
Link(r) ==
    /\ At(r, {"hook", "carrier"}, "link")
    /\ IF conv = "absent"
       THEN MoveTo(r, "open") /\ UNCHANGED conv
       ELSE MoveTo(r, "send") /\ conv' = req[r].ord
    /\ NoFault /\ UNCHANGED <<orderVars, session, chatVars>>

\* Of two requests that create the Conversation the second throws, and its
\* message is not sent.
OpenConversation(r) ==
    /\ At(r, {"hook", "carrier"}, "open")
    /\ IF conv = "absent"
       THEN MoveTo(r, "send") /\ conv' = req[r].ord
       ELSE Finish(r) /\ UNCHANGED conv
    /\ NoFault /\ UNCHANGED <<orderVars, session, chatVars>>

\* sendText: the message is out before its row exists.
SendNotice(r) ==
    /\ At(r, {"hook", "carrier"}, "send")
    /\ Send(TextOf(req[r]))
    /\ req' = [req EXCEPT ![r].pc = "store", ![r].msg = NextId]
    /\ NoFault /\ UNCHANGED <<orderVars, conv, session, rows, late, early>>

HasId(i) == \E j \in DOMAIN rows : rows[j].id = i

\* addMessage with the id the send answered; when the echo has stored that id
\* first, the unique index throws and the error is logged.
StoreNotice(r) ==
    /\ At(r, {"hook", "carrier"}, "store")
    /\ LET i == req[r].msg
       IN rows' = IF HasId(AnswerId(i)) THEN rows
                  ELSE Append(rows, [id |-> AnswerId(i), of |-> i, text |-> sends[i], sender |-> "AI"])
    /\ Finish(r)
    /\ NoFault /\ UNCHANGED <<orderVars, conv, session, sends, echoes, alien, late, early>>

-------------------------------------------------------------------------------
(* deliverAssistantReply: the row first, its id after the send. *)

PersistReply(r) ==
    /\ At(r, {"reply"}, "find")
    /\ rows' = Append(rows, [id |-> 0, of |-> 0, text |-> Reply, sender |-> "AI"])
    /\ req' = [req EXCEPT ![r].pc = "send", ![r].msg = Len(rows) + 1]
    /\ NoFault /\ UNCHANGED <<orderVars, conv, session, sends, echoes, alien, late, early>>

SendReply(r) ==
    /\ At(r, {"reply"}, "send")
    /\ IF Sendable(session)
       THEN /\ Send(Reply)
            /\ rows' = [rows EXCEPT ![req[r].msg].of = NextId]
            /\ MoveTo(r, "name")
       ELSE Finish(r) /\ UNCHANGED <<sends, echoes, alien, rows>>
    /\ NoFault /\ UNCHANGED <<orderVars, conv, session, late, early>>

NameReply(r) ==
    /\ At(r, {"reply"}, "name")
    /\ LET id == AnswerId(rows[req[r].msg].of)
       IN rows' = [rows EXCEPT ![req[r].msg].id = IF HasId(id) THEN @ ELSE id]
    /\ Finish(r)
    /\ NoFault /\ UNCHANGED <<orderVars, conv, session, sends, echoes, alien, late, early>>

-------------------------------------------------------------------------------
(* persistMerchantMessage, for a message.sent webhook. *)

Answer(r) == Finish(r) /\ echoes' = echoes \ {req[r].msg}

FindKnown(r) ==
    /\ At(r, {"echo"}, "find")
    /\ IF HasId(req[r].msg) THEN Answer(r) ELSE MoveTo(r, "recent") /\ UNCHANGED echoes
    /\ conv' = IF conv = "absent" /\ ~HasId(req[r].msg) THEN Nothing ELSE conv
    /\ NoFault /\ UNCHANGED <<orderVars, session, sends, rows, alien, late, early>>

\* Mutant: only the id tells an own send.
OwnRowNone(t) == FALSE

\* messageFindRecentOwn: an outgoing row of ours with the same text.
OwnRow(t) == \E j \in DOMAIN rows : rows[j].text = t /\ rows[j].sender # "MERCHANT"

\* A row older than OWN_SEND_WINDOW_MS does not count.
FindRecent(r) ==
    /\ At(r, {"echo"}, "recent")
    /\ LET i == req[r].msg IN
       \/ /\ OwnRow(sends[i])
          /\ Answer(r)
          /\ NoFault /\ UNCHANGED <<late, early>>
       \/ /\ ~OwnRow(sends[i])
          /\ MoveTo(r, "store")
          /\ early' = IF i \in alien THEN early \cup {i} ELSE early
          /\ NoFault /\ UNCHANGED <<echoes, late>>
       \/ /\ OwnRow(sends[i])
          /\ ShopFault
          /\ late' = late \cup {i}
          /\ MoveTo(r, "store") /\ UNCHANGED <<echoes, early>>
    /\ UNCHANGED <<orderVars, conv, session, sends, rows, alien>>

\* The unique index throws for the second of two deliveries: the webhook fails
\* and is called again.
StoreEcho(r) ==
    /\ At(r, {"echo"}, "store")
    /\ LET i == req[r].msg IN
       IF HasId(i)
       THEN Finish(r) /\ UNCHANGED <<rows, echoes>>
       ELSE /\ rows' = Append(rows, [id |-> i, of |-> i, text |-> sends[i], sender |-> "MERCHANT"])
            /\ Answer(r)
    /\ NoFault /\ UNCHANGED <<orderVars, conv, session, sends, alien, late, early>>

-------------------------------------------------------------------------------
(* Delivery. *)

\* createParcel: the carrier has the parcel before the order has its number.
CreateParcel(r) ==
    /\ At(r, {"ship"}, "find")
    /\ parcels' = [parcels EXCEPT ![req[r].ord] = @ + 1]
    /\ MoveTo(r, "update")
    /\ NoFault /\ UNCHANGED <<row, track, conv, session, chatVars>>

SaveTracking(r) ==
    /\ At(r, {"ship"}, "update")
    /\ track' = [track EXCEPT ![req[r].ord] = TRUE]
    /\ Finish(r)
    /\ NoFault /\ UNCHANGED <<row, parcels, conv, session, chatVars>>

\* handleWebhook of the carrier: an event of a number no order has is answered
\* and forgotten.
FindTracked(r) ==
    /\ At(r, {"carrier"}, "find")
    /\ IF track[req[r].ord] THEN MoveTo(r, "update") ELSE Finish(r)
    /\ NoFault /\ UNCHANGED <<orderVars, conv, session, chatVars>>

\* Events are applied in the order they come.
ApplyEvent(r) ==
    /\ At(r, {"carrier"}, "update")
    /\ row' = [row EXCEPT ![req[r].ord] = req[r].val]
    /\ IF req[r].val = "CANCELLED" THEN Finish(r) ELSE MoveTo(r, "notify")
    /\ NoFault /\ UNCHANGED <<track, parcels, conv, session, chatVars>>

-------------------------------------------------------------------------------
(* Faults and the session. *)

\* A step throws, or the process dies with the request.  The webhook of a send
\* is then called again; the notification of a stored order is not made up for.
Fails(r) ==
    /\ req[r] # Idle
    /\ ShopFault
    /\ Finish(r)
    /\ UNCHANGED <<orderVars, conv, session, chatVars>>

\* The session.status webhook.
SessionStatus(s) ==
    /\ ShopFault
    /\ session # s
    /\ session' = s
    /\ UNCHANGED <<orderVars, conv, req, chatVars>>

Step(r) ==
    \/ FindOrder(r) \/ UpdateOrder(r) \/ CreateOrder(r)
    \/ Notify(r) \/ Link(r) \/ OpenConversation(r) \/ SendNotice(r) \/ StoreNotice(r)
    \/ PersistReply(r) \/ SendReply(r) \/ NameReply(r)
    \/ FindKnown(r) \/ FindRecent(r) \/ StoreEcho(r)
    \/ CreateParcel(r) \/ SaveTracking(r) \/ FindTracked(r) \/ ApplyEvent(r)

ShopNext ==
    \/ \E r \in Req : Step(r) \/ Fails(r) \/ (\E o \in Order : Arrives(r, o)) \/ \E i \in echoes : EchoArrives(r, i) \/ EchoRepeats(r, i)
    \/ \E t \in {Typed, Reply} : MerchantTypes(t)
    \/ \E s \in {"connected", "ready", "disconnected"} : SessionStatus(s)

ShopSpec == ShopInit /\ [][ShopNext]_shopVars

-------------------------------------------------------------------------------
\* Types of every variable.
ShopTypeOK ==
    /\ row \in [Order -> ShopStatus \cup {Nothing}]
    /\ track \in [Order -> BOOLEAN]
    /\ parcels \in [Order -> Nat]
    /\ conv \in Order \cup {"absent", Nothing}
    /\ session \in {"connected", "ready", "disconnected"}
    /\ req \in [Req -> Request]
    /\ sends \in Seq(Text)
    /\ (echoes \cup alien \cup late \cup early) \subseteq DOMAIN sends
    /\ rows \in Seq(Entry)
    /\ {arrivals, shopFaults} \subseteq Nat

\* handleOrderWebhook: however often the shop delivers an order, and whatever
\* syncs run beside it, the customer is told of it once.
ToldOnce == \A o \in Order : Cardinality({i \in DOMAIN sends : sends[i] = <<o, "NEW">>}) <= 1

\* persistMerchantMessage: one message of the linked account has one entry in
\* the transcript, its own row or the one made from its webhook, whichever of
\* the two comes first.  What breaks it is a webhook later than the window (late), or
\* one with an id of its own that is looked up before the own row is written (early):
\* the row of a notification is written after its send.
OneEntryPerSend ==
    \A j, k \in DOMAIN rows : rows[j].of = rows[k].of /\ rows[j].of \notin late \cup early \cup {0} => j = k
===============================================================================
