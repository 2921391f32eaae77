-------------------------- MODULE OrderDeskProofs ---------------------------
(***************************************************************************)
(* The orders and the Conversation of a customer, for any number of        *)
(* orders, requests, quantities, wilayas and prices, any overlap of the    *)
(* requests and any failures: totals fit, the merchant is told of every    *)
(* Takeover, and the Conversation's state is the one of the order it was   *)
(* last written for.                                                       *)
(***************************************************************************)
EXTENDS OrderDesk, TLAPS

USE DeskAssumption, NoneAssumption

-----------------------------------------------------------------------------
(* The inductive invariant.                                                *)

Changing == {"confirmOrder", "cancelOrder", "modifyOrder", "notice", "delivery"}
Making == {"createOrder", "ingest"}

\* A request works on an order that exists, or on one that it alone will make.
Request(t) ==
    /\ call[t].pc = "idle" <=> call[t].tool = None
    /\ call[t].pc = "queue" => call[t].tool \in Making
    /\ call[t].tool \in Changing => call[t].order \in Order /\ ord[call[t].order] # None
    /\ call[t].tool \in Making =>
           /\ call[t].order \in Order
           /\ call[t].pc # "first" => ord[call[t].order] # None
           /\ call[t].pc = "first" =>
                 /\ ord[call[t].order] = None
                 /\ call[t].want \in [qty : Quantity, wilaya : Wilaya, commune : Wilaya]
                 /\ \A u \in Call \ {t} : call[u].order # call[t].order

\* The order the state was written for exists, and is the current one unless that
\* was ever otherwise.  The orders the requests need exist too.
OrderInv ==
    /\ conv.about # None => ord[conv.about] # None
    /\ conv.state \in {"WAITING_CONFIRMATION", "CONFIRMED", "CANCELLED"} => conv.about # None
    /\ conv.aside \/ conv.about \in {None, conv.current}
    /\ \A t \in Call : Request(t)

\* What modifyOrder has read is what the order still has, unless it was overtaken.
SeenInv ==
    /\ \A t \in Call : At(t, "modifyOrder", "write") =>
           /\ call[t].seen \in Row
           /\ call[t].order \notin raced =>
                 /\ call[t].seen.qty = ord[call[t].order].qty
                 /\ call[t].seen.cost = ord[call[t].order].cost
    /\ TotalFits

\* Until the merchant is told, a request that will tell him is under way.
TellInv ==
    /\ faults \in Nat
    /\ conv.escalated /\ faults = 0 =>
           told \/ \E t \in Call : At(t, "escalate", "second") \/ At(t, "handOver", "second")

\* The state of the Conversation is the one of the order it was last written for.
Follows ==
    /\ conv.state = "WAITING_CONFIRMATION" => ord[conv.about].status = "PENDING"
    /\ conv.state \in {"CONFIRMED", "CANCELLED"} => ord[conv.about].status = conv.state

\* While requests do not overlap, what a request has written is still there when it
\* writes the state.
Keeps(t) ==
    /\ call[t].tool = "ingest" /\ call[t].pc \in {"find", "link"} => ord[call[t].order].status = "PENDING"
    /\ At(t, "confirmOrder", "second") => ord[call[t].order].status = "CONFIRMED"
    /\ At(t, "cancelOrder", "second") => ord[call[t].order].status = "CANCELLED"

Single == \A t, u \in Call : call[t].pc # "idle" /\ call[u].pc # "idle" => t = u

\* The state is behind only between the two writes of a confirmation or a cancellation.
Between(t) == At(t, "confirmOrder", "second") \/ At(t, "cancelOrder", "second")
Behind == \E t \in Call : Between(t)

FollowInv ==
    ~disturbed => Single /\ (\A t \in Call : Keeps(t)) /\ (Follows \/ Behind)

IInv == TypeOK /\ OrderInv /\ SeenInv /\ TellInv /\ FollowInv

-----------------------------------------------------------------------------
(* What the pieces of an action do to the rows.                            *)

PCs == {"idle", "first", "find", "write", "link", "queue", "second"}
CallRow == [pc : PCs, tool : Tool \cup {None}, order : Order \cup {None}, want : Want, seen : Row \cup {None}]
ConvRow == [state : State, current : Order \cup {None}, taken : BOOLEAN, escalated : BOOLEAN, resolved : BOOLEAN,
            about : Order \cup {None}, aside : BOOLEAN]

\* Request t goes on with l, its arguments w and the row s it has read.
Moved(t, l, w, s) ==
    /\ call' \in [Call -> CallRow]
    /\ call'[t].pc = l /\ call'[t].tool = call[t].tool /\ call'[t].order = call[t].order
    /\ call'[t].want = w /\ call'[t].seen = s
    /\ \A u \in Call \ {t} : call'[u] = call[u]

\* Request t is over.
Over(t) ==
    /\ call' \in [Call -> CallRow]
    /\ call'[t].pc = "idle" /\ call'[t].tool = None /\ call'[t].order = None
    /\ \A u \in Call \ {t} : call'[u] = call[u]

\* The Conversation gets the state, the current order and the order of the state given.
ConvGets(st, cur, ab) ==
    /\ conv' \in ConvRow /\ conv'.state = st /\ conv'.current = cur
    /\ conv'.about = ab /\ (conv'.aside \/ ab \in {None, cur})
    /\ conv'.taken = conv.taken /\ conv'.escalated = conv.escalated

\* Order o, which exists, gets status st.
OrderGets(o, st) ==
    /\ ord' \in [Order -> Row \cup {None}] /\ ord[o] \in Row /\ ord'[o] \in Row
    /\ ord'[o].status = st /\ ord'[o].qty = ord[o].qty /\ ord'[o].wilaya = ord[o].wilaya
    /\ ord'[o].cost = ord[o].cost /\ ord'[o].total = ord[o].total
    /\ \A x \in Order \ {o} : ord'[x] = ord[x]

\* Order o is made and waits; its total fits.
OrderMade(o) ==
    /\ ord' \in [Order -> Row \cup {None}] /\ ord'[o] \in Row
    /\ ord'[o].status = "PENDING" /\ ord'[o].cost = ord'[o].wilaya
    /\ ord'[o].total = Total(ord'[o].qty, ord'[o].cost)
    /\ \A x \in Order \ {o} : ord'[x] = ord[x]

\* A request without arguments.
LEMMA NothingWanted == Nothing \in Want
BY DEF Nothing, Want

\* Goes(t, l) moves request t, which keeps its arguments and the row it read.
LEMMA Going ==
    ASSUME TypeOK, NEW t \in Call, NEW l \in PCs, Goes(t, l)
    PROVE  Moved(t, l, call[t].want, call[t].seen)
<1>1. call \in [Call -> CallRow]
  BY DEF TypeOK, CallRow, PCs
<1> QED
  BY <1>1 DEF Goes, Moved, CallRow

\* Ends(t) makes request t idle.
LEMMA Ending ==
    ASSUME TypeOK, NEW t \in Call, Ends(t)
    PROVE  Over(t)
<1>1. call \in [Call -> CallRow]
  BY DEF TypeOK, CallRow, PCs
<1>2. Idle \in CallRow /\ Idle.pc = "idle" /\ Idle.tool = None /\ Idle.order = None
  BY NothingWanted DEF Idle, CallRow, PCs
<1> QED
  BY <1>1, <1>2 DEF Ends, Over

\* A write of the Conversation's state, alone or with the current order.
LEMMA GettingState ==
    ASSUME TypeOK, OrderInv, NEW st \in State, NEW cur \in Order \cup {None}, NEW ab \in Order \cup {None},
           \/ conv' = [conv EXCEPT !.state = st] /\ cur = conv.current /\ ab = conv.about
           \/ conv' = [conv EXCEPT !.current = cur, !.state = st, !.about = cur] /\ ab = cur
    PROVE  ConvGets(st, cur, ab)
<1>1. conv \in ConvRow
  BY DEF TypeOK, ConvRow
<1> QED
  BY <1>1 DEF ConvGets, ConvRow, OrderInv

\* confirmOrder and cancelOrder write the state for their order.
LEMMA SettingState ==
    ASSUME TypeOK, NEW t \in Call, NEW st \in State, call[t].order \in Order,
           conv' = [conv EXCEPT !.state = st, !.about = call[t].order, !.aside = @ \/ call[t].order # conv.current]
    PROVE  ConvGets(st, conv.current, call[t].order)
<1> DEFINE as == conv.aside \/ call[t].order # conv.current
<1>1. conv \in ConvRow
  BY DEF TypeOK, ConvRow
<1>2. as \in BOOLEAN /\ (as \/ call[t].order = conv.current)
  BY Zenon
<1>3. conv' = [conv EXCEPT !.state = st, !.about = call[t].order, !.aside = as]
  BY Zenon
<1> HIDE DEF as
<1> QED
  BY <1>1, <1>2, <1>3 DEF ConvGets, ConvRow

\* createFromOrder makes its order the current one and keeps the state.
LEMMA GettingCurrent ==
    ASSUME TypeOK, NEW t \in Call, call[t].order \in Order,
           conv' = [conv EXCEPT !.current = call[t].order, !.aside = @ \/ conv.about \notin {None, call[t].order}]
    PROVE  ConvGets(conv.state, call[t].order, conv.about)
<1> DEFINE as == conv.aside \/ conv.about \notin {None, call[t].order}
<1>1. conv \in ConvRow
  BY DEF TypeOK, ConvRow
<1>2. as \in BOOLEAN /\ (as \/ conv.about \in {None, call[t].order})
  BY Zenon
<1>3. conv' = [conv EXCEPT !.current = call[t].order, !.aside = as]
  BY Zenon
<1> HIDE DEF as
<1> QED
  BY <1>1, <1>2, <1>3 DEF ConvGets, ConvRow

\* A write of a status leaves the quantity, the place, the cost and the total.
LEMMA GettingStatus ==
    ASSUME TypeOK, NEW o \in Order, NEW st \in Status, ord[o] # None, SetOrder(o, st)
    PROVE  OrderGets(o, st)
<1>1. ord \in [Order -> Row \cup {None}] /\ ord[o] \in Row
  BY DEF TypeOK
<1>2. ord' = [ord EXCEPT ![o].status = st]
  BY DEF SetOrder
<1>3. [ord[o] EXCEPT !.status = st] \in Row
  BY <1>1 DEF Row
<1>4. ord'[o] = [ord[o] EXCEPT !.status = st]
  BY <1>1, <1>2
<1> QED
  BY <1>1, <1>2, <1>3, <1>4 DEF OrderGets, Row

\* A new order waits, and its total fits.
LEMMA MakingOrder ==
    ASSUME TypeOK, NEW o \in Order, NEW q \in Quantity, NEW w \in Wilaya, NEW c \in Wilaya,
           ord' = [ord EXCEPT ![o] = NewOrder(q, w, c)]
    PROVE  OrderMade(o)
<1>1. Total(q, w) \in Nat
  BY DEF Total
<1>2. NewOrder(q, w, c) \in Row
  BY <1>1 DEF NewOrder, Row, Status
<1>3. ord \in [Order -> Row \cup {None}] /\ ord'[o] = NewOrder(q, w, c)
  BY DEF TypeOK
<1> QED
  BY <1>2, <1>3 DEF OrderMade, NewOrder

\* The update of modifyOrder keeps what is not asked for, and the status.
LEMMA Rewriting ==
    ASSUME TypeOK, NEW o \in Order, ord[o] \in Row, NEW w \in Want, NEW r \in Row,
           ord' = [ord EXCEPT ![o].qty = Or(w.qty, @), ![o].wilaya = Or(w.wilaya, @),
                              ![o].commune = Or(w.commune, @), ![o].cost = Or(w.wilaya, @),
                              ![o].total = NewTotal(w, r)]
    PROVE  /\ ord' \in [Order -> Row \cup {None}] /\ ord'[o] \in Row /\ ord'[o].status = ord[o].status
           /\ ord'[o].qty = Or(w.qty, ord[o].qty) /\ ord'[o].wilaya = Or(w.wilaya, ord[o].wilaya)
           /\ ord'[o].cost = Or(w.wilaya, ord[o].cost) /\ ord'[o].total = NewTotal(w, r)
           /\ \A x \in Order \ {o} : ord'[x] = ord[x]
<1>1. ord \in [Order -> Row \cup {None}]
  BY DEF TypeOK
<1>2. /\ Or(w.qty, ord[o].qty) \in Quantity /\ Or(w.wilaya, ord[o].wilaya) \in Wilaya
      /\ Or(w.commune, ord[o].commune) \in Wilaya /\ Or(w.wilaya, ord[o].cost) \in Wilaya
  BY DEF Or, Want, Row
<1>3. NewTotal(w, r) \in Nat
  <2>1. Or(w.qty, r.qty) \in Nat /\ Or(w.wilaya, r.cost) \in Nat
    BY DEF Or, Want, Row
  <2> QED
    BY <2>1 DEF NewTotal, Total
<1> DEFINE u == [ord[o] EXCEPT !.qty = Or(w.qty, @), !.wilaya = Or(w.wilaya, @), !.commune = Or(w.commune, @),
                                 !.cost = Or(w.wilaya, @), !.total = NewTotal(w, r)]
<1>5. u \in Row
  BY <1>2, <1>3 DEF Row
<1>6. ord' = [ord EXCEPT ![o] = u]
  BY <1>1
<1>7. /\ u.status = ord[o].status /\ u.qty = Or(w.qty, ord[o].qty) /\ u.wilaya = Or(w.wilaya, ord[o].wilaya)
      /\ u.cost = Or(w.wilaya, ord[o].cost) /\ u.total = NewTotal(w, r)
  BY DEF Row
<1> HIDE DEF u
<1>8. ord'[o] = u /\ \A x \in Order \ {o} : ord'[x] = ord[x]
  BY <1>1, <1>6
<1>9. ord' \in [Order -> Row \cup {None}]
  BY <1>1, <1>5, <1>6
<1> QED
  BY <1>5, <1>7, <1>8, <1>9


\* While requests do not overlap, a statement of request t has only to keep what
\* is said of t: all others are idle.
LEMMA Following ==
    ASSUME IInv, NEW t \in Call, call[t].pc # "idle", disturbed' = disturbed,
           \A u \in Call \ {t} : call'[u] = call[u],
           ASSUME Keeps(t), Follows \/ Between(t) PROVE Keeps(t)' /\ (Follows' \/ Between(t)')
    PROVE  FollowInv'
<1> SUFFICES ASSUME ~disturbed PROVE Single' /\ (\A u \in Call : Keeps(u)') /\ (Follows' \/ Behind')
  BY DEF FollowInv
<1>1. Single /\ (\A u \in Call : Keeps(u)) /\ (Follows \/ Behind)
  BY DEF IInv, FollowInv
<1>2. \A u \in Call \ {t} : call[u].pc = "idle" /\ call[u].tool = None
  BY <1>1 DEF Single, IInv, OrderInv, Request
<1>3. Follows \/ Between(t)
  BY <1>1, <1>2 DEF Behind, Between, At
<1>4. Keeps(t)' /\ (Follows' \/ Behind')
  BY <1>1, <1>3 DEF Behind
<1>5. \A u \in Call \ {t} : Keeps(u)'
  BY <1>2 DEF Keeps, At, Tool
<1>6. Single'
  BY <1>2 DEF Single
<1> QED
  BY <1>4, <1>5, <1>6

-----------------------------------------------------------------------------
(* The steps.                                                              *)

\* No statement of a request and no act of the merchant leaves the invariant.
LEMMA Step == IInv /\ [Next]_vars => IInv'
<1> SUFFICES ASSUME IInv, [Next]_vars PROVE IInv'
  OBVIOUS
<1>1. ASSUME NEW t \in Call, NEW tool \in Tool, Begin(t, tool) PROVE IInv'
  <2>1. /\ call' \in [Call -> CallRow] /\ \A u \in Call \ {t} : call'[u] = call[u]
        /\ call'[t].pc = "first" /\ call'[t].tool = tool /\ call'[t].order \in Target(tool) /\ call'[t].want \in Args(tool)
    BY <1>1, NothingWanted DEF Begin, IInv, TypeOK, CallRow, PCs, Target, Args, Fresh, Want
  <2>2. tool \in Changing => call'[t].order \in Order /\ ord[call'[t].order] # None
    BY <2>1 DEF Target, Changing
  <2>3. tool \in Making => /\ call'[t].order \in Fresh
                           /\ call'[t].want \in [qty : Quantity, wilaya : Wilaya, commune : Wilaya]
    BY <2>1 DEF Target, Args, Making
  <2>4. tool \notin Changing \cup Making => call'[t].order = None
    BY <2>1 DEF Target, Changing, Making
  <2>5. call[t].pc = "idle" /\ UNCHANGED <<ord, conv, place, queued, told, raced, acts, faults>>
    BY <1>1 DEF Begin
  <2>6. disturbed' = (disturbed \/ \E u \in Call : call[u].pc # "idle")
    BY <1>1 DEF Begin
  <2>7. TypeOK'
    BY <2>1, <2>2, <2>3, <2>4, <2>5, <2>6 DEF ghosts, Bounds, IInv, TypeOK, OrderInv, Request,
       Making, PCs, CallRow, ConvRow
  <2>8. OrderInv'
    <3>1. /\ (conv.about # None => ord[conv.about] # None)'
          /\ (conv.state \in {"WAITING_CONFIRMATION", "CONFIRMED", "CANCELLED"} => conv.about # None)'
          /\ (conv.aside \/ conv.about \in {None, conv.current})'
      BY <2>5 DEF IInv, OrderInv
    <3>2. call'[t].order \in Fresh => /\ call'[t].order \in Order /\ ord[call'[t].order] = None
                                      /\ \A u \in Call : call[u].order # call'[t].order
      BY DEF Fresh
    <3>4. Request(t)'
      BY <2>1, <2>2, <2>3, <2>5, <3>2 DEF Request, Changing, Making, Tool
    <3>5. ASSUME NEW u \in Call \ {t} PROVE Request(u)'
      <4>1. Request(u) /\ call'[u] = call[u]
        BY <2>1 DEF IInv, OrderInv
      <4>2. ASSUME call[u].tool \in Making, call[u].pc = "first" PROVE call'[t].order # call[u].order
        BY <2>2, <2>3, <2>4, <3>2, <4>1, <4>2 DEF Request
      <4> QED
        BY <2>1, <2>5, <4>1, <4>2 DEF Request
    <3> QED
      BY <3>1, <3>4, <3>5 DEF OrderInv
  <2>9. SeenInv'
    BY <2>1, <2>2, <2>3, <2>4, <2>5, <2>6 DEF ghosts, Bounds, Modifies, IInv, TypeOK, OrderInv,
       SeenInv, TotalFits, Request, At, Changing, Making, Tool
  <2>10. TellInv'
    BY <2>1, <2>2, <2>3, <2>4, <2>5, <2>6 DEF ghosts, Bounds, IInv, TellInv, At
  <2>11. FollowInv'
    <3> SUFFICES ASSUME ~disturbed' PROVE (Single /\ (\A u \in Call : Keeps(u)) /\ (Follows \/ Behind))'
      BY DEF FollowInv
    <3>1. /\ \A u \in Call : call[u].pc = "idle" /\ call[u].tool = None
          /\ (\A u \in Call : Keeps(u)) /\ Follows
      BY <2>6 DEF IInv, FollowInv, OrderInv, Request, Behind, Between, At
    <3>2. Single'
      BY <2>1, <3>1 DEF Single
    <3>3. \A u \in Call : Keeps(u)'
      BY <2>1, <2>2, <2>5, <3>1 DEF Keeps, At, Changing, Tool
    <3>4. Follows'
      BY <2>5, <3>1 DEF Follows
    <3> QED
      BY <3>2, <3>3, <3>4
  <2> QED
    BY <2>7, <2>8, <2>9, <2>10, <2>11 DEF IInv
<1>2. ASSUME NEW t \in Call, Read(t) PROVE IInv'
  <2>1. Over(t) \/ Moved(t, "second", call[t].want, call[t].seen)
    BY <1>2, Going, Ending DEF Read, IInv, PCs
  <2>2. TypeOK'
    BY <1>2, <2>1 DEF Read, Bounds, ghosts, Moved, Over, IInv, TypeOK, OrderInv, Request, Making,
       PCs, CallRow, ConvRow
  <2>3. OrderInv'
    <3>1. /\ (conv.about # None => ord[conv.about] # None)'
          /\ (conv.state \in {"WAITING_CONFIRMATION", "CONFIRMED", "CANCELLED"} => conv.about # None)'
          /\ (conv.aside \/ conv.about \in {None, conv.current})'
      BY <1>2, <2>1 DEF Read, Bounds, ghosts, Moved, Over, IInv, TypeOK, OrderInv, Request, At,
         Making, Changing
    <3>2. Request(t)'
      BY <1>2, <2>1 DEF Read, Bounds, ghosts, Moved, Over, IInv, TypeOK, OrderInv, Request, At,
         Changing, Making, Tool, CallRow
    <3>3. ASSUME NEW u \in Call \ {t} PROVE Request(u)'
      BY <1>2, <2>1, <3>3 DEF Read, Bounds, ghosts, Moved, Over, IInv, TypeOK, OrderInv, Request,
         At, Changing, Making, Tool, CallRow
    <3> QED
      BY <3>1, <3>2, <3>3 DEF OrderInv
  <2>4. SeenInv'
    BY <1>2, <2>1 DEF Read, Bounds, ghosts, Moved, Over, Modifies, IInv, TypeOK, OrderInv,
       SeenInv, TotalFits, Request, At, Changing, Making, Tool
  <2>5. TellInv'
    BY <1>2, <2>1 DEF Read, Bounds, ghosts, Moved, Over, IInv, TellInv, At
  <2>6. FollowInv'
    <3>1. call[t].pc # "idle" /\ disturbed' = disturbed /\ \A u \in Call \ {t} : call'[u] = call[u]
      BY <1>2, <2>1 DEF Read, Bounds, ghosts, Moved, Over, At
    <3>2. ASSUME Keeps(t), Follows \/ Between(t) PROVE Keeps(t)' /\ (Follows' \/ Between(t)')
      BY <1>2, <2>1, <3>2 DEF Read, Bounds, ghosts, Moved, Over, Keeps, Follows, Between, IInv,
         TypeOK, OrderInv, Request, At, Changing, Making, Tool
    <3> QED
      BY <3>1, <3>2, Following
  <2> QED
    BY <2>2, <2>3, <2>4, <2>5, <2>6 DEF IInv
<1>3. ASSUME NEW t \in Call, ApplyReadToolState(t) PROVE IInv'
  <2>1. Over(t)
    BY <1>3, Ending DEF ApplyReadToolState, IInv
  <2>2. \E st \in {"PRODUCT_DISCOVERY", "PRODUCT_SELECTED"} : ConvGets(st, conv.current, conv.about)
    BY <1>3, GettingState DEF ApplyReadToolState, ReadTransition, IInv, TypeOK, State
  <2>3. TypeOK'
    BY <1>3, <2>1, <2>2 DEF ApplyReadToolState, Bounds, ghosts, ConvGets, Over, IInv, TypeOK,
       OrderInv, Request, Making, PCs, CallRow, ConvRow
  <2>4. OrderInv'
    <3>1. /\ (conv.about # None => ord[conv.about] # None)'
          /\ (conv.state \in {"WAITING_CONFIRMATION", "CONFIRMED", "CANCELLED"} => conv.about # None)'
          /\ (conv.aside \/ conv.about \in {None, conv.current})'
      BY <1>3, <2>1, <2>2 DEF ApplyReadToolState, Bounds, ghosts, ConvGets, Over, IInv, TypeOK,
         OrderInv, Request, At, Making, Changing
    <3>2. Request(t)'
      BY <1>3, <2>1, <2>2 DEF ApplyReadToolState, Bounds, ghosts, ConvGets, Over, IInv, TypeOK,
         OrderInv, Request, At, Changing, Making, Tool, CallRow
    <3>3. ASSUME NEW u \in Call \ {t} PROVE Request(u)'
      BY <1>3, <2>1, <2>2, <3>3 DEF ApplyReadToolState, Bounds, ghosts, ConvGets, Over, IInv,
         TypeOK, OrderInv, Request, At, Changing, Making, Tool, CallRow
    <3> QED
      BY <3>1, <3>2, <3>3 DEF OrderInv
  <2>5. SeenInv'
    BY <1>3, <2>1, <2>2 DEF ApplyReadToolState, Bounds, ghosts, ConvGets, Over, Modifies, IInv,
       TypeOK, OrderInv, SeenInv, TotalFits, Request, At, Changing, Making, Tool
  <2>6. TellInv'
    BY <1>3, <2>1, <2>2 DEF ApplyReadToolState, Bounds, ghosts, ConvGets, Over, IInv, TellInv, At
  <2>7. FollowInv'
    <3>1. call[t].pc # "idle" /\ disturbed' = disturbed /\ \A u \in Call \ {t} : call'[u] = call[u]
      BY <1>3, <2>1, <2>2 DEF ApplyReadToolState, Bounds, ghosts, ConvGets, Over, At
    <3>2. ASSUME Keeps(t), Follows \/ Between(t) PROVE Keeps(t)' /\ (Follows' \/ Between(t)')
      BY <1>3, <2>1, <2>2, <3>2 DEF ApplyReadToolState, Bounds, ghosts, ConvGets, Over, Keeps,
         Follows, Between, IInv, TypeOK, OrderInv, Request, At, Changing, Making, Tool
    <3> QED
      BY <3>1, <3>2, Following
  <2> QED
    BY <2>3, <2>4, <2>5, <2>6, <2>7 DEF IInv
<1>4. ASSUME NEW t \in Call, CreateOrder(t) PROVE IInv'
  <2>1. call[t].order \in Order /\ ord[call[t].order] = None
        /\ call[t].want \in [qty : Quantity, wilaya : Wilaya, commune : Wilaya]
    BY <1>4 DEF CreateOrder, IInv, TypeOK, OrderInv, Request, At, Changing, Making
  <2>2. ASSUME call[t].want.commune = call[t].want.wilaya
        PROVE  /\ Moved(t, "queue", Nothing, call[t].seen) /\ OrderMade(call[t].order)
               /\ ConvGets("WAITING_CONFIRMATION", call[t].order, call[t].order)
               /\ place' \in [wilaya : Wilaya \cup {None}, commune : Wilaya \cup {None}]
    <3>1. Moved(t, "queue", Nothing, call[t].seen)
      BY <1>4, <2>2, NothingWanted DEF CreateOrder, IInv, TypeOK, CallRow, PCs, Moved
    <3>2. OrderMade(call[t].order)
      BY <1>4, <2>1, <2>2, MakingOrder DEF CreateOrder, IInv
    <3>3. ConvGets("WAITING_CONFIRMATION", call[t].order, call[t].order)
      BY <1>4, <2>1, <2>2, GettingState DEF CreateOrder, IInv, State
    <3>4. place' \in [wilaya : Wilaya \cup {None}, commune : Wilaya \cup {None}]
      BY <1>4, <2>1, <2>2 DEF CreateOrder
    <3> QED
      BY <3>1, <3>2, <3>3, <3>4
  <2>3. ASSUME call[t].want.commune # call[t].want.wilaya PROVE Over(t) /\ UNCHANGED <<ord, place, conv>>
    BY <1>4, <2>3, Ending DEF CreateOrder, IInv
  <2>4. TypeOK'
    BY <1>4, <2>1, <2>2, <2>3 DEF CreateOrder, Bounds, ghosts, ConvGets, Moved, OrderMade, Over,
       IInv, TypeOK, OrderInv, Request, Making, PCs, CallRow, ConvRow
  <2>5. OrderInv'
    <3>1. /\ (conv.about # None => ord[conv.about] # None)'
          /\ (conv.state \in {"WAITING_CONFIRMATION", "CONFIRMED", "CANCELLED"} => conv.about # None)'
          /\ (conv.aside \/ conv.about \in {None, conv.current})'
      BY <1>4, <2>1, <2>2, <2>3 DEF CreateOrder, Bounds, ghosts, ConvGets, Moved, OrderMade, Over,
         IInv, TypeOK, OrderInv, Request, At, Making, Changing
    <3>2. Request(t)'
      BY <1>4, <2>1, <2>2, <2>3 DEF CreateOrder, Bounds, ghosts, ConvGets, Moved, OrderMade, Over,
         IInv, TypeOK, OrderInv, Request, At, Changing, Making, Tool, CallRow
    <3>3. ASSUME NEW u \in Call \ {t} PROVE Request(u)'
      BY <1>4, <2>1, <2>2, <2>3, <3>3 DEF CreateOrder, Bounds, ghosts, ConvGets, Moved, OrderMade,
         Over, IInv, TypeOK, OrderInv, Request, At, Changing, Making, Tool, CallRow
    <3> QED
      BY <3>1, <3>2, <3>3 DEF OrderInv
  <2>6. SeenInv'
    BY <1>4, <2>1, <2>2, <2>3 DEF CreateOrder, Bounds, ghosts, ConvGets, Moved, OrderMade, Over,
       Modifies, IInv, TypeOK, OrderInv, SeenInv, TotalFits, Request, At, Changing, Making, Tool
  <2>7. TellInv'
    BY <1>4, <2>1, <2>2, <2>3 DEF CreateOrder, Bounds, ghosts, ConvGets, Moved, OrderMade, Over,
       IInv, TellInv, At
  <2>8. FollowInv'
    <3>1. call[t].pc # "idle" /\ disturbed' = disturbed /\ \A u \in Call \ {t} : call'[u] = call[u]
      BY <1>4, <2>1, <2>2, <2>3 DEF CreateOrder, Bounds, ghosts, ConvGets, Moved, OrderMade, Over,
         At
    <3>2. ASSUME Keeps(t), Follows \/ Between(t) PROVE Keeps(t)' /\ (Follows' \/ Between(t)')
      BY <1>4, <2>1, <2>2, <2>3, <3>2 DEF CreateOrder, Bounds, ghosts, ConvGets, Moved, OrderMade,
         Over, Keeps, Follows, Between, IInv, TypeOK, OrderInv, Request, At, Changing, Making,
         Tool
    <3> QED
      BY <3>1, <3>2, Following
  <2> QED
    BY <2>4, <2>5, <2>6, <2>7, <2>8 DEF IInv
<1>5. ASSUME NEW t \in Call, Enqueue(t) PROVE IInv'
  <2>1. Over(t)
    BY <1>5, Ending DEF Enqueue, IInv
  <2>2. call[t].order \in Order \cup {None}
    BY <1>5 DEF Enqueue, IInv, TypeOK, OrderInv, Request, At, Changing, Making
  <2>3. TypeOK'
    BY <1>5, <2>1, <2>2 DEF Enqueue, Bounds, ghosts, Over, IInv, TypeOK, OrderInv, Request,
       Making, PCs, CallRow, ConvRow
  <2>4. OrderInv'
    <3>1. /\ (conv.about # None => ord[conv.about] # None)'
          /\ (conv.state \in {"WAITING_CONFIRMATION", "CONFIRMED", "CANCELLED"} => conv.about # None)'
          /\ (conv.aside \/ conv.about \in {None, conv.current})'
      BY <1>5, <2>1, <2>2 DEF Enqueue, Bounds, ghosts, Over, IInv, TypeOK, OrderInv, Request, At,
         Making, Changing
    <3>2. Request(t)'
      BY <1>5, <2>1, <2>2 DEF Enqueue, Bounds, ghosts, Over, IInv, TypeOK, OrderInv, Request, At,
         Changing, Making, Tool, CallRow
    <3>3. ASSUME NEW u \in Call \ {t} PROVE Request(u)'
      BY <1>5, <2>1, <2>2, <3>3 DEF Enqueue, Bounds, ghosts, Over, IInv, TypeOK, OrderInv,
         Request, At, Changing, Making, Tool, CallRow
    <3> QED
      BY <3>1, <3>2, <3>3 DEF OrderInv
  <2>5. SeenInv'
    BY <1>5, <2>1, <2>2 DEF Enqueue, Bounds, ghosts, Over, Modifies, IInv, TypeOK, OrderInv,
       SeenInv, TotalFits, Request, At, Changing, Making, Tool
  <2>6. TellInv'
    BY <1>5, <2>1, <2>2 DEF Enqueue, Bounds, ghosts, Over, IInv, TellInv, At
  <2>7. FollowInv'
    <3>1. call[t].pc # "idle" /\ disturbed' = disturbed /\ \A u \in Call \ {t} : call'[u] = call[u]
      BY <1>5, <2>1, <2>2 DEF Enqueue, Bounds, ghosts, Over, At
    <3>2. ASSUME Keeps(t), Follows \/ Between(t) PROVE Keeps(t)' /\ (Follows' \/ Between(t)')
      BY <1>5, <2>1, <2>2, <3>2 DEF Enqueue, Bounds, ghosts, Over, Keeps, Follows, Between, IInv,
         TypeOK, OrderInv, Request, At, Changing, Making, Tool
    <3> QED
      BY <3>1, <3>2, Following
  <2> QED
    BY <2>3, <2>4, <2>5, <2>6, <2>7 DEF IInv
<1>6. ASSUME NEW t \in Call, ConfirmOrder(t) PROVE IInv'
  <2>1. call[t].order \in Order /\ ord[call[t].order] # None
    BY <1>6 DEF ConfirmOrder, IInv, TypeOK, OrderInv, Request, At, Changing, Making
  <2>2. OrderGets(call[t].order, "CONFIRMED")
    BY <1>6, <2>1, GettingStatus DEF ConfirmOrder, IInv, Status
  <2>3. Moved(t, "second", call[t].want, call[t].seen)
    BY <1>6, Going DEF ConfirmOrder, IInv, PCs
  <2>4. At(t, "confirmOrder", "first") /\ UNCHANGED <<conv, place, queued, told, disturbed, calls, acts, faults>>
    BY <1>6 DEF ConfirmOrder, Bounds
  <2>5. raced' = (IF Modifies(call[t].order) = {} THEN raced ELSE raced \cup {call[t].order})
    BY <1>6 DEF ConfirmOrder, SetOrder
  <2>6. TypeOK'
    BY <2>1, <2>2, <2>3, <2>4, <2>5 DEF ghosts, Bounds, Moved, OrderGets, IInv, TypeOK, OrderInv,
       Request, Making, PCs, CallRow, ConvRow
  <2>7. OrderInv'
    <3>1. /\ (conv.about # None => ord[conv.about] # None)'
          /\ (conv.state \in {"WAITING_CONFIRMATION", "CONFIRMED", "CANCELLED"} => conv.about # None)'
          /\ (conv.aside \/ conv.about \in {None, conv.current})'
      BY <2>1, <2>2, <2>3, <2>4, <2>5 DEF ghosts, Bounds, Moved, OrderGets, IInv, TypeOK,
         OrderInv, Request, At, Making, Changing
    <3>2. Request(t)'
      BY <2>1, <2>2, <2>3, <2>4, <2>5 DEF ghosts, Bounds, Moved, OrderGets, IInv, TypeOK,
         OrderInv, Request, At, Changing, Making, Tool, CallRow
    <3>3. ASSUME NEW u \in Call \ {t} PROVE Request(u)'
      BY <2>1, <2>2, <2>3, <2>4, <2>5, <3>3 DEF ghosts, Bounds, Moved, OrderGets, IInv, TypeOK,
         OrderInv, Request, At, Changing, Making, Tool, CallRow
    <3> QED
      BY <3>1, <3>2, <3>3 DEF OrderInv
  <2>8. SeenInv'
    <3>1. TotalFits'
      BY <2>1, <2>2, <2>5 DEF IInv, SeenInv, TotalFits, OrderGets
    <3>2. ASSUME NEW u \in Call, At(u, "modifyOrder", "write")'
          PROVE  /\ call'[u].seen \in Row
                 /\ call'[u].order \notin raced' =>
                       /\ call'[u].seen.qty = ord'[call'[u].order].qty
                       /\ call'[u].seen.cost = ord'[call'[u].order].cost
      <4>1. call'[u] = call[u] /\ At(u, "modifyOrder", "write")
        BY <2>3, <3>2 DEF Moved, At
      <4>2. call[u].order \in Order
        BY <4>1 DEF At, IInv, OrderInv, Request, Changing
      <4> QED
        BY <2>1, <2>2, <2>5, <4>1, <4>2 DEF IInv, SeenInv, OrderGets
    <3> QED
      BY <3>1, <3>2 DEF SeenInv
  <2>9. TellInv'
    BY <2>1, <2>2, <2>3, <2>4, <2>5 DEF ghosts, Bounds, Moved, OrderGets, IInv, TellInv, At
  <2>10. FollowInv'
    <3>1. call[t].pc # "idle" /\ disturbed' = disturbed /\ \A u \in Call \ {t} : call'[u] = call[u]
      BY <2>1, <2>2, <2>3, <2>4, <2>5 DEF ghosts, Bounds, Moved, OrderGets, At
    <3>2. ASSUME Keeps(t), Follows \/ Between(t) PROVE Keeps(t)' /\ (Follows' \/ Between(t)')
      BY <2>1, <2>2, <2>3, <2>4, <2>5, <3>2 DEF ghosts, Bounds, Moved, OrderGets, Keeps, Follows,
         Between, IInv, TypeOK, OrderInv, Request, At, Changing, Making, Tool
    <3> QED
      BY <3>1, <3>2, Following
  <2> QED
    BY <2>6, <2>7, <2>8, <2>9, <2>10 DEF IInv
<1>7. ASSUME NEW t \in Call, CancelFind(t) PROVE IInv'
  <2>1. Over(t) \/ Moved(t, "write", call[t].want, call[t].seen)
    BY <1>7, Going, Ending DEF CancelFind, IInv, PCs
  <2>2. TypeOK'
    BY <1>7, <2>1 DEF CancelFind, Bounds, ghosts, Moved, Over, IInv, TypeOK, OrderInv, Request,
       Making, PCs, CallRow, ConvRow
  <2>3. OrderInv'
    <3>1. /\ (conv.about # None => ord[conv.about] # None)'
          /\ (conv.state \in {"WAITING_CONFIRMATION", "CONFIRMED", "CANCELLED"} => conv.about # None)'
          /\ (conv.aside \/ conv.about \in {None, conv.current})'
      BY <1>7, <2>1 DEF CancelFind, Bounds, ghosts, Moved, Over, IInv, TypeOK, OrderInv, Request,
         At, Making, Changing
    <3>2. Request(t)'
      BY <1>7, <2>1 DEF CancelFind, Bounds, ghosts, Moved, Over, IInv, TypeOK, OrderInv, Request,
         At, Changing, Making, Tool, CallRow
    <3>3. ASSUME NEW u \in Call \ {t} PROVE Request(u)'
      BY <1>7, <2>1, <3>3 DEF CancelFind, Bounds, ghosts, Moved, Over, IInv, TypeOK, OrderInv,
         Request, At, Changing, Making, Tool, CallRow
    <3> QED
      BY <3>1, <3>2, <3>3 DEF OrderInv
  <2>4. SeenInv'
    BY <1>7, <2>1 DEF CancelFind, Bounds, ghosts, Moved, Over, Modifies, IInv, TypeOK, OrderInv,
       SeenInv, TotalFits, Request, At, Changing, Making, Tool
  <2>5. TellInv'
    BY <1>7, <2>1 DEF CancelFind, Bounds, ghosts, Moved, Over, IInv, TellInv, At
  <2>6. FollowInv'
    <3>1. call[t].pc # "idle" /\ disturbed' = disturbed /\ \A u \in Call \ {t} : call'[u] = call[u]
      BY <1>7, <2>1 DEF CancelFind, Bounds, ghosts, Moved, Over, At
    <3>2. ASSUME Keeps(t), Follows \/ Between(t) PROVE Keeps(t)' /\ (Follows' \/ Between(t)')
      BY <1>7, <2>1, <3>2 DEF CancelFind, Bounds, ghosts, Moved, Over, Keeps, Follows, Between,
         IInv, TypeOK, OrderInv, Request, At, Changing, Making, Tool
    <3> QED
      BY <3>1, <3>2, Following
  <2> QED
    BY <2>2, <2>3, <2>4, <2>5, <2>6 DEF IInv
<1>8. ASSUME NEW t \in Call, CancelOrder(t) PROVE IInv'
  <2>1. call[t].order \in Order /\ ord[call[t].order] # None
    BY <1>8 DEF CancelOrder, IInv, TypeOK, OrderInv, Request, At, Changing, Making
  <2>2. OrderGets(call[t].order, "CANCELLED")
    BY <1>8, <2>1, GettingStatus DEF CancelOrder, IInv, Status
  <2>3. Moved(t, "second", call[t].want, call[t].seen)
    BY <1>8, Going DEF CancelOrder, IInv, PCs
  <2>4. At(t, "cancelOrder", "write") /\ UNCHANGED <<conv, place, queued, told, disturbed, calls, acts, faults>>
    BY <1>8 DEF CancelOrder, Bounds
  <2>5. raced' = (IF Modifies(call[t].order) = {} THEN raced ELSE raced \cup {call[t].order})
    BY <1>8 DEF CancelOrder, SetOrder
  <2>6. TypeOK'
    BY <2>1, <2>2, <2>3, <2>4, <2>5 DEF ghosts, Bounds, Moved, OrderGets, IInv, TypeOK, OrderInv,
       Request, Making, PCs, CallRow, ConvRow
  <2>7. OrderInv'
    <3>1. /\ (conv.about # None => ord[conv.about] # None)'
          /\ (conv.state \in {"WAITING_CONFIRMATION", "CONFIRMED", "CANCELLED"} => conv.about # None)'
          /\ (conv.aside \/ conv.about \in {None, conv.current})'
      BY <2>1, <2>2, <2>3, <2>4, <2>5 DEF ghosts, Bounds, Moved, OrderGets, IInv, TypeOK,
         OrderInv, Request, At, Making, Changing
    <3>2. Request(t)'
      BY <2>1, <2>2, <2>3, <2>4, <2>5 DEF ghosts, Bounds, Moved, OrderGets, IInv, TypeOK,
         OrderInv, Request, At, Changing, Making, Tool, CallRow
    <3>3. ASSUME NEW u \in Call \ {t} PROVE Request(u)'
      BY <2>1, <2>2, <2>3, <2>4, <2>5, <3>3 DEF ghosts, Bounds, Moved, OrderGets, IInv, TypeOK,
         OrderInv, Request, At, Changing, Making, Tool, CallRow
    <3> QED
      BY <3>1, <3>2, <3>3 DEF OrderInv
  <2>8. SeenInv'
    <3>1. TotalFits'
      BY <2>1, <2>2, <2>5 DEF IInv, SeenInv, TotalFits, OrderGets
    <3>2. ASSUME NEW u \in Call, At(u, "modifyOrder", "write")'
          PROVE  /\ call'[u].seen \in Row
                 /\ call'[u].order \notin raced' =>
                       /\ call'[u].seen.qty = ord'[call'[u].order].qty
                       /\ call'[u].seen.cost = ord'[call'[u].order].cost
      <4>1. call'[u] = call[u] /\ At(u, "modifyOrder", "write")
        BY <2>3, <3>2 DEF Moved, At
      <4>2. call[u].order \in Order
        BY <4>1 DEF At, IInv, OrderInv, Request, Changing
      <4> QED
        BY <2>1, <2>2, <2>5, <4>1, <4>2 DEF IInv, SeenInv, OrderGets
    <3> QED
      BY <3>1, <3>2 DEF SeenInv
  <2>9. TellInv'
    BY <2>1, <2>2, <2>3, <2>4, <2>5 DEF ghosts, Bounds, Moved, OrderGets, IInv, TellInv, At
  <2>10. FollowInv'
    <3>1. call[t].pc # "idle" /\ disturbed' = disturbed /\ \A u \in Call \ {t} : call'[u] = call[u]
      BY <2>1, <2>2, <2>3, <2>4, <2>5 DEF ghosts, Bounds, Moved, OrderGets, At
    <3>2. ASSUME Keeps(t), Follows \/ Between(t) PROVE Keeps(t)' /\ (Follows' \/ Between(t)')
      BY <2>1, <2>2, <2>3, <2>4, <2>5, <3>2 DEF ghosts, Bounds, Moved, OrderGets, Keeps, Follows,
         Between, IInv, TypeOK, OrderInv, Request, At, Changing, Making, Tool
    <3> QED
      BY <3>1, <3>2, Following
  <2> QED
    BY <2>6, <2>7, <2>8, <2>9, <2>10 DEF IInv
<1>9. ASSUME NEW t \in Call, SetState(t) PROVE IInv'
  <2>1. Over(t)
    BY <1>9, Ending DEF SetState, IInv
  <2>2. /\ ConvGets(Transition(call[t].tool), conv.current, call[t].order) /\ Transition(call[t].tool) \in State
        /\ call[t].order \in Order /\ ord[call[t].order] # None
    <3>1. call[t].order \in Order /\ ord[call[t].order] # None
      BY <1>9 DEF SetState, IInv, OrderInv, Request, At, Changing
    <3>2. Transition(call[t].tool) \in State
      BY DEF Transition, State
    <3> QED
      BY <1>9, <3>1, <3>2, SettingState DEF SetState, IInv
  <2>3. TypeOK'
    BY <1>9, <2>1, <2>2 DEF SetState, Transition, Bounds, ghosts, ConvGets, Over, IInv, TypeOK,
       OrderInv, Request, Making, PCs, CallRow, ConvRow
  <2>4. OrderInv'
    <3>1. /\ (conv.about # None => ord[conv.about] # None)'
          /\ (conv.state \in {"WAITING_CONFIRMATION", "CONFIRMED", "CANCELLED"} => conv.about # None)'
          /\ (conv.aside \/ conv.about \in {None, conv.current})'
      BY <1>9, <2>1, <2>2 DEF SetState, Transition, Bounds, ghosts, ConvGets, Over, IInv, TypeOK,
         OrderInv, Request, At, Making, Changing
    <3>2. Request(t)'
      BY <1>9, <2>1, <2>2 DEF SetState, Transition, Bounds, ghosts, ConvGets, Over, IInv, TypeOK,
         OrderInv, Request, At, Changing, Making, Tool, CallRow
    <3>3. ASSUME NEW u \in Call \ {t} PROVE Request(u)'
      BY <1>9, <2>1, <2>2, <3>3 DEF SetState, Transition, Bounds, ghosts, ConvGets, Over, IInv,
         TypeOK, OrderInv, Request, At, Changing, Making, Tool, CallRow
    <3> QED
      BY <3>1, <3>2, <3>3 DEF OrderInv
  <2>5. SeenInv'
    BY <1>9, <2>1, <2>2 DEF SetState, Transition, Bounds, ghosts, ConvGets, Over, Modifies, IInv,
       TypeOK, OrderInv, SeenInv, TotalFits, Request, At, Changing, Making, Tool
  <2>6. TellInv'
    BY <1>9, <2>1, <2>2 DEF SetState, Transition, Bounds, ghosts, ConvGets, Over, IInv, TellInv, At
  <2>7. FollowInv'
    <3>1. call[t].pc # "idle" /\ disturbed' = disturbed /\ \A u \in Call \ {t} : call'[u] = call[u]
      BY <1>9, <2>1, <2>2 DEF SetState, Transition, Bounds, ghosts, ConvGets, Over, At
    <3>2. ASSUME Keeps(t), Follows \/ Between(t) PROVE Keeps(t)' /\ (Follows' \/ Between(t)')
      BY <1>9, <2>1, <2>2, <3>2 DEF SetState, Transition, Bounds, ghosts, ConvGets, Over, Keeps,
         Follows, Between, IInv, TypeOK, OrderInv, Request, At, Changing, Making, Tool
    <3> QED
      BY <3>1, <3>2, Following
  <2> QED
    BY <2>3, <2>4, <2>5, <2>6, <2>7 DEF IInv
<1>10. ASSUME NEW t \in Call, ModifyFind(t) PROVE IInv'
  <2>1. call[t].order \in Order /\ ord[call[t].order] \in Row
    BY <1>10 DEF ModifyFind, IInv, TypeOK, OrderInv, Request, At, Changing, Making
  <2>2. Over(t) \/ Moved(t, "write", call[t].want, ord[call[t].order])
    BY <1>10, <2>1, Ending DEF ModifyFind, IInv, TypeOK, CallRow, PCs, Moved
  <2>3. TypeOK'
    BY <1>10, <2>1, <2>2 DEF ModifyFind, Bounds, ghosts, Moved, Over, IInv, TypeOK, OrderInv,
       Request, Making, PCs, CallRow, ConvRow
  <2>4. OrderInv'
    <3>1. /\ (conv.about # None => ord[conv.about] # None)'
          /\ (conv.state \in {"WAITING_CONFIRMATION", "CONFIRMED", "CANCELLED"} => conv.about # None)'
          /\ (conv.aside \/ conv.about \in {None, conv.current})'
      BY <1>10, <2>1, <2>2 DEF ModifyFind, Bounds, ghosts, Moved, Over, IInv, TypeOK, OrderInv,
         Request, At, Making, Changing
    <3>2. Request(t)'
      BY <1>10, <2>1, <2>2 DEF ModifyFind, Bounds, ghosts, Moved, Over, IInv, TypeOK, OrderInv,
         Request, At, Changing, Making, Tool, CallRow
    <3>3. ASSUME NEW u \in Call \ {t} PROVE Request(u)'
      BY <1>10, <2>1, <2>2, <3>3 DEF ModifyFind, Bounds, ghosts, Moved, Over, IInv, TypeOK,
         OrderInv, Request, At, Changing, Making, Tool, CallRow
    <3> QED
      BY <3>1, <3>2, <3>3 DEF OrderInv
  <2>5. SeenInv'
    BY <1>10, <2>1, <2>2 DEF ModifyFind, Bounds, ghosts, Moved, Over, Modifies, IInv, TypeOK,
       OrderInv, SeenInv, TotalFits, Request, At, Changing, Making, Tool
  <2>6. TellInv'
    BY <1>10, <2>1, <2>2 DEF ModifyFind, Bounds, ghosts, Moved, Over, IInv, TellInv, At
  <2>7. FollowInv'
    <3>1. call[t].pc # "idle" /\ disturbed' = disturbed /\ \A u \in Call \ {t} : call'[u] = call[u]
      BY <1>10, <2>1, <2>2 DEF ModifyFind, Bounds, ghosts, Moved, Over, At
    <3>2. ASSUME Keeps(t), Follows \/ Between(t) PROVE Keeps(t)' /\ (Follows' \/ Between(t)')
      BY <1>10, <2>1, <2>2, <3>2 DEF ModifyFind, Bounds, ghosts, Moved, Over, Keeps, Follows,
         Between, IInv, TypeOK, OrderInv, Request, At, Changing, Making, Tool
    <3> QED
      BY <3>1, <3>2, Following
  <2> QED
    BY <2>3, <2>4, <2>5, <2>6, <2>7 DEF IInv
<1>11. ASSUME NEW t \in Call, ModifyOrder(t) PROVE IInv'
  <2>1. call[t].order \in Order /\ ord[call[t].order] \in Row /\ call[t].seen \in Row /\ call[t].want \in Want
    BY <1>11 DEF ModifyOrder, IInv, TypeOK, OrderInv, Request, At, Changing, Making, SeenInv
  <2>2. LET o == call[t].order
            w == call[t].want IN
        /\ ord' \in [Order -> Row \cup {None}] /\ ord'[o] \in Row /\ ord'[o].status = ord[o].status
        /\ ord'[o].qty = Or(w.qty, ord[o].qty) /\ ord'[o].wilaya = Or(w.wilaya, ord[o].wilaya)
        /\ ord'[o].cost = Or(w.wilaya, ord[o].cost) /\ ord'[o].total = NewTotal(w, call[t].seen)
        /\ \A x \in Order \ {o} : ord'[x] = ord[x]
    BY <1>11, <2>1, Rewriting DEF ModifyOrder, IInv
  <2>3. Over(t) \/ Moved(t, "second", call[t].want, None)
    BY <1>11, Ending DEF ModifyOrder, IInv, TypeOK, CallRow, PCs, Moved
  <2>4. At(t, "modifyOrder", "write") /\ UNCHANGED <<conv, place, queued, told, disturbed, calls, acts, faults>>
    BY <1>11 DEF ModifyOrder, Bounds
  <2>5. raced' = (IF Modifies(call[t].order) = {t} THEN raced ELSE raced \cup {call[t].order})
    BY <1>11 DEF ModifyOrder
  <2>6. TypeOK'
    BY <2>1, <2>2, <2>3, <2>4, <2>5 DEF ghosts, Bounds, Moved, Over, IInv, TypeOK, OrderInv,
       Request, Making, PCs, CallRow, ConvRow
  <2>7. OrderInv'
    <3>1. /\ (conv.about # None => ord[conv.about] # None)'
          /\ (conv.state \in {"WAITING_CONFIRMATION", "CONFIRMED", "CANCELLED"} => conv.about # None)'
          /\ (conv.aside \/ conv.about \in {None, conv.current})'
      BY <2>1, <2>2, <2>3, <2>4, <2>5 DEF ghosts, Bounds, Moved, Over, IInv, TypeOK, OrderInv,
         Request, At, Making, Changing
    <3>2. Request(t)'
      BY <2>1, <2>2, <2>3, <2>4, <2>5 DEF ghosts, Bounds, Moved, Over, IInv, TypeOK, OrderInv,
         Request, At, Changing, Making, Tool, CallRow
    <3>3. ASSUME NEW u \in Call \ {t} PROVE Request(u)'
      BY <2>1, <2>2, <2>3, <2>4, <2>5, <3>3 DEF ghosts, Bounds, Moved, Over, IInv, TypeOK,
         OrderInv, Request, At, Changing, Making, Tool, CallRow
    <3> QED
      BY <3>1, <3>2, <3>3 DEF OrderInv
  <2>8. SeenInv'
    <3> DEFINE o == call[t].order
    <3>1. \A x \in Order : x \notin raced' => x \notin raced
      BY <2>5
    <3>2. /\ TotalFits /\ (o \notin raced => call[t].seen.qty = ord[o].qty /\ call[t].seen.cost = ord[o].cost)
          /\ \A u \in Call : At(u, "modifyOrder", "write") =>
                /\ call[u].seen \in Row
                /\ call[u].order \notin raced =>
                      call[u].seen.qty = ord[call[u].order].qty /\ call[u].seen.cost = ord[call[u].order].cost
      BY <2>4 DEF IInv, SeenInv
    <3>3. ASSUME o \notin raced' PROVE ord'[o].cost = ord'[o].wilaya /\ ord'[o].total = Total(ord'[o].qty, ord'[o].cost)
      <4>1. o \notin raced /\ ord[o].cost = ord[o].wilaya
        BY <2>1, <3>1, <3>2, <3>3 DEF TotalFits
      <4>2. ord'[o].total = Total(Or(call[t].want.qty, ord[o].qty), Or(call[t].want.wilaya, ord[o].cost))
        BY <2>2, <3>2, <4>1 DEF NewTotal
      <4> QED
        BY <2>2, <4>1, <4>2
    <3>4. TotalFits'
      BY <2>2, <3>1, <3>2, <3>3 DEF TotalFits
    <3>5. ASSUME NEW u \in Call, At(u, "modifyOrder", "write")'
          PROVE  /\ call'[u].seen \in Row
                 /\ call'[u].order \notin raced' =>
                       /\ call'[u].seen.qty = ord'[call'[u].order].qty
                       /\ call'[u].seen.cost = ord'[call'[u].order].cost
      <4>1. u # t /\ call'[u] = call[u] /\ At(u, "modifyOrder", "write")
        BY <2>3, <3>5 DEF Over, Moved, At
      <4>2. call[u].order \in Order
        BY <4>1 DEF At, IInv, OrderInv, Request, Changing
      <4>3. CASE call[u].order = o
        <5>1. u \in Modifies(o)
          BY <4>1, <4>3 DEF Modifies
        <5>2. o \in raced'
          BY <2>5, <4>1, <5>1
        <5> QED
          BY <3>2, <4>1, <4>3, <5>2
      <4>4. CASE call[u].order # o
        BY <2>2, <3>1, <3>2, <4>1, <4>2, <4>4
      <4> QED
        BY <4>3, <4>4
    <3> QED
      BY <3>4, <3>5 DEF SeenInv
  <2>9. TellInv'
    BY <2>1, <2>2, <2>3, <2>4, <2>5 DEF ghosts, Bounds, Moved, Over, IInv, TellInv, At
  <2>10. FollowInv'
    <3>1. call[t].pc # "idle" /\ disturbed' = disturbed /\ \A u \in Call \ {t} : call'[u] = call[u]
      BY <2>1, <2>2, <2>3, <2>4, <2>5 DEF ghosts, Bounds, Moved, Over, At
    <3>2. ASSUME Keeps(t), Follows \/ Between(t) PROVE Keeps(t)' /\ (Follows' \/ Between(t)')
      BY <2>1, <2>2, <2>3, <2>4, <2>5, <3>2 DEF ghosts, Bounds, Moved, Over, Keeps, Follows,
         Between, IInv, TypeOK, OrderInv, Request, At, Changing, Making, Tool
    <3> QED
      BY <3>1, <3>2, Following
  <2> QED
    BY <2>6, <2>7, <2>8, <2>9, <2>10 DEF IInv
<1>12. ASSUME NEW t \in Call, ModifyCustomer(t) PROVE IInv'
  <2>1. Over(t)
    BY <1>12, Ending DEF ModifyCustomer, IInv
  <2>2. place' \in [wilaya : Wilaya \cup {None}, commune : Wilaya \cup {None}]
    BY <1>12 DEF ModifyCustomer, Or, IInv, TypeOK, Want
  <2>3. TypeOK'
    BY <1>12, <2>1, <2>2 DEF ModifyCustomer, Bounds, ghosts, Over, IInv, TypeOK, OrderInv,
       Request, Making, PCs, CallRow, ConvRow
  <2>4. OrderInv'
    <3>1. /\ (conv.about # None => ord[conv.about] # None)'
          /\ (conv.state \in {"WAITING_CONFIRMATION", "CONFIRMED", "CANCELLED"} => conv.about # None)'
          /\ (conv.aside \/ conv.about \in {None, conv.current})'
      BY <1>12, <2>1, <2>2 DEF ModifyCustomer, Bounds, ghosts, Over, IInv, TypeOK, OrderInv,
         Request, At, Making, Changing
    <3>2. Request(t)'
      BY <1>12, <2>1, <2>2 DEF ModifyCustomer, Bounds, ghosts, Over, IInv, TypeOK, OrderInv,
         Request, At, Changing, Making, Tool, CallRow
    <3>3. ASSUME NEW u \in Call \ {t} PROVE Request(u)'
      BY <1>12, <2>1, <2>2, <3>3 DEF ModifyCustomer, Bounds, ghosts, Over, IInv, TypeOK, OrderInv,
         Request, At, Changing, Making, Tool, CallRow
    <3> QED
      BY <3>1, <3>2, <3>3 DEF OrderInv
  <2>5. SeenInv'
    BY <1>12, <2>1, <2>2 DEF ModifyCustomer, Bounds, ghosts, Over, Modifies, IInv, TypeOK,
       OrderInv, SeenInv, TotalFits, Request, At, Changing, Making, Tool
  <2>6. TellInv'
    BY <1>12, <2>1, <2>2 DEF ModifyCustomer, Bounds, ghosts, Over, IInv, TellInv, At
  <2>7. FollowInv'
    <3>1. call[t].pc # "idle" /\ disturbed' = disturbed /\ \A u \in Call \ {t} : call'[u] = call[u]
      BY <1>12, <2>1, <2>2 DEF ModifyCustomer, Bounds, ghosts, Over, At
    <3>2. ASSUME Keeps(t), Follows \/ Between(t) PROVE Keeps(t)' /\ (Follows' \/ Between(t)')
      BY <1>12, <2>1, <2>2, <3>2 DEF ModifyCustomer, Bounds, ghosts, Over, Keeps, Follows,
         Between, IInv, TypeOK, OrderInv, Request, At, Changing, Making, Tool
    <3> QED
      BY <3>1, <3>2, Following
  <2> QED
    BY <2>3, <2>4, <2>5, <2>6, <2>7 DEF IInv
<1>13. ASSUME NEW t \in Call, EscalateFind(t) PROVE IInv'
  <2>1. Over(t) \/ Moved(t, "write", call[t].want, call[t].seen)
    BY <1>13, Going, Ending DEF EscalateFind, IInv, PCs
  <2>2. TypeOK'
    BY <1>13, <2>1 DEF EscalateFind, Bounds, ghosts, Moved, Over, IInv, TypeOK, OrderInv, Request,
       Making, PCs, CallRow, ConvRow
  <2>3. OrderInv'
    <3>1. /\ (conv.about # None => ord[conv.about] # None)'
          /\ (conv.state \in {"WAITING_CONFIRMATION", "CONFIRMED", "CANCELLED"} => conv.about # None)'
          /\ (conv.aside \/ conv.about \in {None, conv.current})'
      BY <1>13, <2>1 DEF EscalateFind, Bounds, ghosts, Moved, Over, IInv, TypeOK, OrderInv,
         Request, At, Making, Changing
    <3>2. Request(t)'
      BY <1>13, <2>1 DEF EscalateFind, Bounds, ghosts, Moved, Over, IInv, TypeOK, OrderInv,
         Request, At, Changing, Making, Tool, CallRow
    <3>3. ASSUME NEW u \in Call \ {t} PROVE Request(u)'
      BY <1>13, <2>1, <3>3 DEF EscalateFind, Bounds, ghosts, Moved, Over, IInv, TypeOK, OrderInv,
         Request, At, Changing, Making, Tool, CallRow
    <3> QED
      BY <3>1, <3>2, <3>3 DEF OrderInv
  <2>4. SeenInv'
    BY <1>13, <2>1 DEF EscalateFind, Bounds, ghosts, Moved, Over, Modifies, IInv, TypeOK,
       OrderInv, SeenInv, TotalFits, Request, At, Changing, Making, Tool
  <2>5. TellInv'
    BY <1>13, <2>1 DEF EscalateFind, Bounds, ghosts, Moved, Over, IInv, TellInv, At
  <2>6. FollowInv'
    <3>1. call[t].pc # "idle" /\ disturbed' = disturbed /\ \A u \in Call \ {t} : call'[u] = call[u]
      BY <1>13, <2>1 DEF EscalateFind, Bounds, ghosts, Moved, Over, At
    <3>2. ASSUME Keeps(t), Follows \/ Between(t) PROVE Keeps(t)' /\ (Follows' \/ Between(t)')
      BY <1>13, <2>1, <3>2 DEF EscalateFind, Bounds, ghosts, Moved, Over, Keeps, Follows, Between,
         IInv, TypeOK, OrderInv, Request, At, Changing, Making, Tool
    <3> QED
      BY <3>1, <3>2, Following
  <2> QED
    BY <2>2, <2>3, <2>4, <2>5, <2>6 DEF IInv
<1>14. ASSUME NEW t \in Call, Escalate(t) PROVE IInv'
  <2>1. Goes(t, "second")
    BY <1>14 DEF Escalate, AfterTakeover
  <2>2. Moved(t, "second", call[t].want, call[t].seen)
    BY <2>1, Going DEF IInv, PCs
  <2>3. conv' \in ConvRow /\ conv'.state = conv.state /\ conv'.current = conv.current
        /\ conv'.about = conv.about /\ conv'.aside = conv.aside
    BY <1>14 DEF Escalate, IInv, TypeOK, ConvRow
  <2>4. told' \in BOOLEAN
    BY <1>14 DEF Escalate
  <2>5. TypeOK'
    BY <1>14, <2>1, <2>2, <2>3, <2>4 DEF Escalate, Bounds, ghosts, Moved, IInv, TypeOK, OrderInv,
       Request, Making, PCs, CallRow, ConvRow
  <2>6. OrderInv'
    <3>1. /\ (conv.about # None => ord[conv.about] # None)'
          /\ (conv.state \in {"WAITING_CONFIRMATION", "CONFIRMED", "CANCELLED"} => conv.about # None)'
          /\ (conv.aside \/ conv.about \in {None, conv.current})'
      BY <1>14, <2>1, <2>2, <2>3, <2>4 DEF Escalate, Bounds, ghosts, Moved, IInv, TypeOK,
         OrderInv, Request, At, Making, Changing
    <3>2. Request(t)'
      BY <1>14, <2>1, <2>2, <2>3, <2>4 DEF Escalate, Bounds, ghosts, Moved, IInv, TypeOK,
         OrderInv, Request, At, Changing, Making, Tool, CallRow
    <3>3. ASSUME NEW u \in Call \ {t} PROVE Request(u)'
      BY <1>14, <2>1, <2>2, <2>3, <2>4, <3>3 DEF Escalate, Bounds, ghosts, Moved, IInv, TypeOK,
         OrderInv, Request, At, Changing, Making, Tool, CallRow
    <3> QED
      BY <3>1, <3>2, <3>3 DEF OrderInv
  <2>7. SeenInv'
    BY <1>14, <2>1, <2>2, <2>3, <2>4 DEF Escalate, Bounds, ghosts, Moved, Modifies, IInv, TypeOK,
       OrderInv, SeenInv, TotalFits, Request, At, Changing, Making, Tool
  <2>8. TellInv'
    BY <1>14, <2>1, <2>2, <2>3, <2>4 DEF Escalate, Bounds, ghosts, Moved, IInv, TellInv, At
  <2>9. FollowInv'
    <3>1. call[t].pc # "idle" /\ disturbed' = disturbed /\ \A u \in Call \ {t} : call'[u] = call[u]
      BY <1>14, <2>1, <2>2, <2>3, <2>4 DEF Escalate, Bounds, ghosts, Moved, At
    <3>2. ASSUME Keeps(t), Follows \/ Between(t) PROVE Keeps(t)' /\ (Follows' \/ Between(t)')
      BY <1>14, <2>1, <2>2, <2>3, <2>4, <3>2 DEF Escalate, Bounds, ghosts, Moved, Keeps, Follows,
         Between, IInv, TypeOK, OrderInv, Request, At, Changing, Making, Tool
    <3> QED
      BY <3>1, <3>2, Following
  <2> QED
    BY <2>5, <2>6, <2>7, <2>8, <2>9 DEF IInv
<1>15. ASSUME NEW t \in Call, Notify(t) PROVE IInv'
  <2>1. Over(t)
    BY <1>15, Ending DEF Notify, IInv
  <2>2. TypeOK'
    BY <1>15, <2>1 DEF Notify, Bounds, ghosts, Over, IInv, TypeOK, OrderInv, Request, Making, PCs,
       CallRow, ConvRow
  <2>3. OrderInv'
    <3>1. /\ (conv.about # None => ord[conv.about] # None)'
          /\ (conv.state \in {"WAITING_CONFIRMATION", "CONFIRMED", "CANCELLED"} => conv.about # None)'
          /\ (conv.aside \/ conv.about \in {None, conv.current})'
      BY <1>15, <2>1 DEF Notify, Bounds, ghosts, Over, IInv, TypeOK, OrderInv, Request, At,
         Making, Changing
    <3>2. Request(t)'
      BY <1>15, <2>1 DEF Notify, Bounds, ghosts, Over, IInv, TypeOK, OrderInv, Request, At,
         Changing, Making, Tool, CallRow
    <3>3. ASSUME NEW u \in Call \ {t} PROVE Request(u)'
      BY <1>15, <2>1, <3>3 DEF Notify, Bounds, ghosts, Over, IInv, TypeOK, OrderInv, Request, At,
         Changing, Making, Tool, CallRow
    <3> QED
      BY <3>1, <3>2, <3>3 DEF OrderInv
  <2>4. SeenInv'
    BY <1>15, <2>1 DEF Notify, Bounds, ghosts, Over, Modifies, IInv, TypeOK, OrderInv, SeenInv,
       TotalFits, Request, At, Changing, Making, Tool
  <2>5. TellInv'
    BY <1>15, <2>1 DEF Notify, Bounds, ghosts, Over, IInv, TellInv, At
  <2>6. FollowInv'
    <3>1. call[t].pc # "idle" /\ disturbed' = disturbed /\ \A u \in Call \ {t} : call'[u] = call[u]
      BY <1>15, <2>1 DEF Notify, Bounds, ghosts, Over, At
    <3>2. ASSUME Keeps(t), Follows \/ Between(t) PROVE Keeps(t)' /\ (Follows' \/ Between(t)')
      BY <1>15, <2>1, <3>2 DEF Notify, Bounds, ghosts, Over, Keeps, Follows, Between, IInv,
         TypeOK, OrderInv, Request, At, Changing, Making, Tool
    <3> QED
      BY <3>1, <3>2, Following
  <2> QED
    BY <2>2, <2>3, <2>4, <2>5, <2>6 DEF IInv
<1>16. ASSUME NEW t \in Call, IngestOrder(t) PROVE IInv'
  <2>1. call[t].order \in Order /\ ord[call[t].order] = None
        /\ call[t].want \in [qty : Quantity, wilaya : Wilaya, commune : Wilaya]
    BY <1>16 DEF IngestOrder, IInv, TypeOK, OrderInv, Request, At, Changing, Making
  <2>2. call' = [call EXCEPT ![t].pc = "find", ![t].want = Nothing]
    BY <1>16 DEF IngestOrder
  <2>3. Moved(t, "find", Nothing, call[t].seen)
    <3>1. call \in [Call -> CallRow]
      BY DEF IInv, TypeOK, CallRow, PCs
    <3> QED
      BY <2>2, <3>1, NothingWanted DEF CallRow, PCs, Moved
  <2>4. OrderMade(call[t].order)
    BY <1>16, <2>1, MakingOrder DEF IngestOrder, IInv
  <2>5. At(t, "ingest", "first") /\ UNCHANGED <<conv, place, queued, ghosts, calls, acts, faults>>
    BY <1>16 DEF IngestOrder, Bounds, ghosts
  <2>6. TypeOK'
    BY <2>1, <2>2, <2>3, <2>4, <2>5 DEF ghosts, Bounds, Moved, OrderMade, IInv, TypeOK, OrderInv,
       Request, Making, PCs, CallRow, ConvRow
  <2>7. OrderInv'
    <3>1. /\ (conv.about # None => ord[conv.about] # None)'
          /\ (conv.state \in {"WAITING_CONFIRMATION", "CONFIRMED", "CANCELLED"} => conv.about # None)'
          /\ (conv.aside \/ conv.about \in {None, conv.current})'
      BY <2>1, <2>2, <2>3, <2>4, <2>5 DEF ghosts, Bounds, Moved, OrderMade, IInv, TypeOK,
         OrderInv, Request, At, Making, Changing
    <3>2. Request(t)'
      BY <2>1, <2>2, <2>3, <2>4, <2>5 DEF ghosts, Bounds, Moved, OrderMade, IInv, TypeOK,
         OrderInv, Request, At, Changing, Making, Tool, CallRow
    <3>3. ASSUME NEW u \in Call \ {t} PROVE Request(u)'
      BY <2>1, <2>2, <2>3, <2>4, <2>5, <3>3 DEF ghosts, Bounds, Moved, OrderMade, IInv, TypeOK,
         OrderInv, Request, At, Changing, Making, Tool, CallRow
    <3> QED
      BY <3>1, <3>2, <3>3 DEF OrderInv
  <2>8. SeenInv'
    BY <2>1, <2>2, <2>3, <2>4, <2>5 DEF ghosts, Bounds, Moved, OrderMade, Modifies, IInv, TypeOK,
       OrderInv, SeenInv, TotalFits, Request, At, Changing, Making, Tool
  <2>9. TellInv'
    BY <2>1, <2>2, <2>3, <2>4, <2>5 DEF ghosts, Bounds, Moved, OrderMade, IInv, TellInv, At
  <2>10. FollowInv'
    <3>1. call[t].pc # "idle" /\ disturbed' = disturbed /\ \A u \in Call \ {t} : call'[u] = call[u]
      BY <2>1, <2>2, <2>3, <2>4, <2>5 DEF ghosts, Bounds, Moved, OrderMade, At
    <3>2. ASSUME Keeps(t), Follows \/ Between(t) PROVE Keeps(t)' /\ (Follows' \/ Between(t)')
      BY <2>1, <2>2, <2>3, <2>4, <2>5, <3>2 DEF ghosts, Bounds, Moved, OrderMade, Keeps, Follows,
         Between, IInv, TypeOK, OrderInv, Request, At, Changing, Making, Tool
    <3> QED
      BY <3>1, <3>2, Following
  <2> QED
    BY <2>6, <2>7, <2>8, <2>9, <2>10 DEF IInv
<1>17. ASSUME NEW t \in Call, IngestFind(t) PROVE IInv'
  <2>1. Over(t) \/ Moved(t, "link", call[t].want, call[t].seen)
    BY <1>17, Going, Ending DEF IngestFind, IInv, PCs
  <2>2. TypeOK'
    BY <1>17, <2>1 DEF IngestFind, Bounds, ghosts, Moved, Over, IInv, TypeOK, OrderInv, Request,
       Making, PCs, CallRow, ConvRow
  <2>3. OrderInv'
    <3>1. /\ (conv.about # None => ord[conv.about] # None)'
          /\ (conv.state \in {"WAITING_CONFIRMATION", "CONFIRMED", "CANCELLED"} => conv.about # None)'
          /\ (conv.aside \/ conv.about \in {None, conv.current})'
      BY <1>17, <2>1 DEF IngestFind, Bounds, ghosts, Moved, Over, IInv, TypeOK, OrderInv, Request,
         At, Making, Changing
    <3>2. Request(t)'
      BY <1>17, <2>1 DEF IngestFind, Bounds, ghosts, Moved, Over, IInv, TypeOK, OrderInv, Request,
         At, Changing, Making, Tool, CallRow
    <3>3. ASSUME NEW u \in Call \ {t} PROVE Request(u)'
      BY <1>17, <2>1, <3>3 DEF IngestFind, Bounds, ghosts, Moved, Over, IInv, TypeOK, OrderInv,
         Request, At, Changing, Making, Tool, CallRow
    <3> QED
      BY <3>1, <3>2, <3>3 DEF OrderInv
  <2>4. SeenInv'
    BY <1>17, <2>1 DEF IngestFind, Bounds, ghosts, Moved, Over, Modifies, IInv, TypeOK, OrderInv,
       SeenInv, TotalFits, Request, At, Changing, Making, Tool
  <2>5. TellInv'
    BY <1>17, <2>1 DEF IngestFind, Bounds, ghosts, Moved, Over, IInv, TellInv, At
  <2>6. FollowInv'
    <3>1. call[t].pc # "idle" /\ disturbed' = disturbed /\ \A u \in Call \ {t} : call'[u] = call[u]
      BY <1>17, <2>1 DEF IngestFind, Bounds, ghosts, Moved, Over, At
    <3>2. ASSUME Keeps(t), Follows \/ Between(t) PROVE Keeps(t)' /\ (Follows' \/ Between(t)')
      BY <1>17, <2>1, <3>2 DEF IngestFind, Bounds, ghosts, Moved, Over, Keeps, Follows, Between,
         IInv, TypeOK, OrderInv, Request, At, Changing, Making, Tool
    <3> QED
      BY <3>1, <3>2, Following
  <2> QED
    BY <2>2, <2>3, <2>4, <2>5, <2>6 DEF IInv
<1>18. ASSUME NEW t \in Call, IngestLink(t) PROVE IInv'
  <2>1. Moved(t, "queue", call[t].want, call[t].seen)
    BY <1>18, Going DEF IngestLink, IInv, PCs
  <2>2. call[t].order \in Order /\ ord[call[t].order] # None /\ call[t].tool = "ingest" /\ call[t].pc = "link"
    BY <1>18 DEF IngestLink, IInv, TypeOK, OrderInv, Request, At, Changing, Making
  <2>3. ConvGets("WAITING_CONFIRMATION", call[t].order, call[t].order)
    BY <1>18, <2>2, GettingState DEF IngestLink, IInv, State
  <2>4. UNCHANGED <<ord, place, queued, ghosts, calls, acts, faults>>
    BY <1>18 DEF IngestLink, Bounds, ghosts
  <2>5. TypeOK'
    BY <2>1, <2>2, <2>3, <2>4 DEF ghosts, Bounds, ConvGets, Moved, IInv, TypeOK, OrderInv,
       Request, Making, PCs, CallRow, ConvRow
  <2>6. OrderInv'
    <3>1. /\ (conv.about # None => ord[conv.about] # None)'
          /\ (conv.state \in {"WAITING_CONFIRMATION", "CONFIRMED", "CANCELLED"} => conv.about # None)'
          /\ (conv.aside \/ conv.about \in {None, conv.current})'
      BY <2>1, <2>2, <2>3, <2>4 DEF ghosts, Bounds, ConvGets, Moved, IInv, TypeOK, OrderInv,
         Request, At, Making, Changing
    <3>2. Request(t)'
      BY <2>1, <2>2, <2>3, <2>4 DEF ghosts, Bounds, ConvGets, Moved, IInv, TypeOK, OrderInv,
         Request, At, Changing, Making, Tool, CallRow
    <3>3. ASSUME NEW u \in Call \ {t} PROVE Request(u)'
      BY <2>1, <2>2, <2>3, <2>4, <3>3 DEF ghosts, Bounds, ConvGets, Moved, IInv, TypeOK, OrderInv,
         Request, At, Changing, Making, Tool, CallRow
    <3> QED
      BY <3>1, <3>2, <3>3 DEF OrderInv
  <2>7. SeenInv'
    BY <2>1, <2>2, <2>3, <2>4 DEF ghosts, Bounds, ConvGets, Moved, Modifies, IInv, TypeOK,
       OrderInv, SeenInv, TotalFits, Request, At, Changing, Making, Tool
  <2>8. TellInv'
    BY <2>1, <2>2, <2>3, <2>4 DEF ghosts, Bounds, ConvGets, Moved, IInv, TellInv, At
  <2>9. FollowInv'
    <3>1. call[t].pc # "idle" /\ disturbed' = disturbed /\ \A u \in Call \ {t} : call'[u] = call[u]
      BY <2>1, <2>2, <2>3, <2>4 DEF ghosts, Bounds, ConvGets, Moved, At
    <3>2. ASSUME Keeps(t), Follows \/ Between(t) PROVE Keeps(t)' /\ (Follows' \/ Between(t)')
      BY <2>1, <2>2, <2>3, <2>4, <3>2 DEF ghosts, Bounds, ConvGets, Moved, Keeps, Follows,
         Between, IInv, TypeOK, OrderInv, Request, At, Changing, Making, Tool
    <3> QED
      BY <3>1, <3>2, Following
  <2> QED
    BY <2>5, <2>6, <2>7, <2>8, <2>9 DEF IInv
<1>19. ASSUME NEW t \in Call, DeliveryStatus(t) PROVE IInv'
  <2>1. PICK st \in {"SHIPPED", "DELIVERED", "CANCELLED"} :
           SetOrder(call[t].order, st) /\ IF st = "CANCELLED" THEN Ends(t) ELSE Goes(t, "link")
    BY <1>19 DEF DeliveryStatus
  <2>2. call[t].order \in Order /\ ord[call[t].order] # None
    BY <1>19 DEF DeliveryStatus, IInv, OrderInv, Request, At, Changing
  <2>3. OrderGets(call[t].order, st)
    BY <2>1, <2>2, GettingStatus DEF IInv, Status
  <2>4. Over(t) \/ Moved(t, "link", call[t].want, call[t].seen)
    BY <2>1, Going, Ending DEF IInv, PCs
  <2>5. /\ At(t, "delivery", "first") /\ disturbed' = TRUE
        /\ UNCHANGED <<conv, place, queued, told, calls, acts, faults>>
    BY <1>19 DEF DeliveryStatus, Bounds
  <2>6. raced' = (IF Modifies(call[t].order) = {} THEN raced ELSE raced \cup {call[t].order})
    BY <2>1 DEF SetOrder
  <2>7. TypeOK'
    BY <2>2, <2>3, <2>4, <2>5, <2>6 DEF ghosts, Bounds, Moved, Over, OrderGets, IInv, TypeOK, OrderInv,
       Request, Making, PCs, CallRow, ConvRow
  <2>8. OrderInv'
    <3>1. /\ (conv.about # None => ord[conv.about] # None)'
          /\ (conv.state \in {"WAITING_CONFIRMATION", "CONFIRMED", "CANCELLED"} => conv.about # None)'
          /\ (conv.aside \/ conv.about \in {None, conv.current})'
      BY <2>2, <2>3, <2>4, <2>5, <2>6 DEF ghosts, Bounds, Moved, Over, OrderGets, IInv, TypeOK,
         OrderInv, Request, At, Making, Changing
    <3>2. Request(t)'
      BY <2>2, <2>3, <2>4, <2>5, <2>6 DEF ghosts, Bounds, Moved, Over, OrderGets, IInv, TypeOK,
         OrderInv, Request, At, Changing, Making, Tool, CallRow
    <3>3. ASSUME NEW u \in Call \ {t} PROVE Request(u)'
      BY <2>2, <2>3, <2>4, <2>5, <2>6, <3>3 DEF ghosts, Bounds, Moved, Over, OrderGets, IInv, TypeOK,
         OrderInv, Request, At, Changing, Making, Tool, CallRow
    <3> QED
      BY <3>1, <3>2, <3>3 DEF OrderInv
  <2>9. SeenInv'
    <3>1. TotalFits'
      BY <2>2, <2>3, <2>6 DEF IInv, SeenInv, TotalFits, OrderGets
    <3>2. ASSUME NEW u \in Call, At(u, "modifyOrder", "write")'
          PROVE  /\ call'[u].seen \in Row
                 /\ call'[u].order \notin raced' =>
                       /\ call'[u].seen.qty = ord'[call'[u].order].qty
                       /\ call'[u].seen.cost = ord'[call'[u].order].cost
      <4>1. call'[u] = call[u] /\ At(u, "modifyOrder", "write")
        BY <2>4, <3>2 DEF Moved, Over, At
      <4>2. call[u].order \in Order
        BY <4>1 DEF At, IInv, OrderInv, Request, Changing
      <4> QED
        BY <2>2, <2>3, <2>6, <4>1, <4>2 DEF IInv, SeenInv, OrderGets
    <3> QED
      BY <3>1, <3>2 DEF SeenInv
  <2>10. TellInv'
    BY <2>2, <2>3, <2>4, <2>5, <2>6 DEF ghosts, Bounds, Moved, Over, OrderGets, IInv, TellInv, At
  <2>11. FollowInv'
    BY <2>5 DEF FollowInv
  <2> QED
    BY <2>7, <2>8, <2>9, <2>10, <2>11 DEF IInv
<1>20. ASSUME NEW t \in Call, CreateFromOrder(t) PROVE IInv'
  <2>1. Over(t)
    BY <1>20, Ending DEF CreateFromOrder, IInv
  <2>2. call[t].order \in Order /\ ord[call[t].order] # None
    BY <1>20 DEF CreateFromOrder, IInv, OrderInv, Request, At, Changing
  <2>3. UNCHANGED conv \/ ConvGets(conv.state, call[t].order, conv.about)
    BY <1>20, <2>2, GettingCurrent DEF CreateFromOrder, IInv
  <2>4. /\ At(t, "notice", "first") \/ At(t, "delivery", "link")
        /\ UNCHANGED <<ord, place, queued, told, raced, disturbed, calls, acts, faults>>
    BY <1>20 DEF CreateFromOrder, Bounds, ghosts
  <2>5. TypeOK'
    BY <2>1, <2>2, <2>3, <2>4 DEF ConvGets, Over, IInv, TypeOK,
       OrderInv, Request, Making, PCs, CallRow, ConvRow
  <2>6. OrderInv'
    <3>1. /\ (conv.about # None => ord[conv.about] # None)'
          /\ (conv.state \in {"WAITING_CONFIRMATION", "CONFIRMED", "CANCELLED"} => conv.about # None)'
          /\ (conv.aside \/ conv.about \in {None, conv.current})'
      BY <2>1, <2>2, <2>3, <2>4 DEF ConvGets, Over, IInv, TypeOK,
         OrderInv, Request, At, Making, Changing
    <3>2. Request(t)'
      BY <2>1, <2>2, <2>3, <2>4 DEF ConvGets, Over, IInv, TypeOK,
         OrderInv, Request, At, Changing, Making, Tool, CallRow
    <3>3. ASSUME NEW u \in Call \ {t} PROVE Request(u)'
      BY <2>1, <2>2, <2>3, <2>4, <3>3 DEF ConvGets, Over, IInv,
         TypeOK, OrderInv, Request, At, Changing, Making, Tool, CallRow
    <3> QED
      BY <3>1, <3>2, <3>3 DEF OrderInv
  <2>7. SeenInv'
    BY <2>1, <2>2, <2>3, <2>4 DEF ConvGets, Over, Modifies, IInv,
       TypeOK, OrderInv, SeenInv, TotalFits, Request, At, Changing, Making, Tool
  <2>8. TellInv'
    BY <2>1, <2>2, <2>3, <2>4 DEF ConvGets, Over, IInv, TellInv, At
  <2>9. FollowInv'
    <3>1. call[t].pc # "idle" /\ disturbed' = disturbed /\ \A u \in Call \ {t} : call'[u] = call[u]
      BY <2>1, <2>4 DEF Over, At
    <3>2. ASSUME Keeps(t), Follows \/ Between(t) PROVE Keeps(t)' /\ (Follows' \/ Between(t)')
      BY <2>1, <2>2, <2>3, <2>4, <3>2 DEF ConvGets, Over, Keeps, Follows, Between, IInv,
         TypeOK, OrderInv, Request, At, Changing, Making, Tool
    <3> QED
      BY <3>1, <3>2, Following
  <2> QED
    BY <2>5, <2>6, <2>7, <2>8, <2>9 DEF IInv
<1>21. ASSUME NEW t \in Call, Fails(t) PROVE IInv'
  <2>1. Over(t)
    BY <1>21, Ending DEF Fails, IInv
  <2>2. TypeOK'
    BY <1>21, <2>1 DEF Fails, Bounds, ghosts, Over, IInv, TypeOK, OrderInv, Request, Making, PCs,
       CallRow, ConvRow
  <2>3. OrderInv'
    <3>1. /\ (conv.about # None => ord[conv.about] # None)'
          /\ (conv.state \in {"WAITING_CONFIRMATION", "CONFIRMED", "CANCELLED"} => conv.about # None)'
          /\ (conv.aside \/ conv.about \in {None, conv.current})'
      BY <1>21, <2>1 DEF Fails, Bounds, ghosts, Over, IInv, TypeOK, OrderInv, Request, At, Making,
         Changing
    <3>2. Request(t)'
      BY <1>21, <2>1 DEF Fails, Bounds, ghosts, Over, IInv, TypeOK, OrderInv, Request, At,
         Changing, Making, Tool, CallRow
    <3>3. ASSUME NEW u \in Call \ {t} PROVE Request(u)'
      BY <1>21, <2>1, <3>3 DEF Fails, Bounds, ghosts, Over, IInv, TypeOK, OrderInv, Request, At,
         Changing, Making, Tool, CallRow
    <3> QED
      BY <3>1, <3>2, <3>3 DEF OrderInv
  <2>4. SeenInv'
    BY <1>21, <2>1 DEF Fails, Bounds, ghosts, Over, Modifies, IInv, TypeOK, OrderInv, SeenInv,
       TotalFits, Request, At, Changing, Making, Tool
  <2>5. TellInv'
    BY <1>21, <2>1 DEF Fails, Bounds, ghosts, Over, IInv, TellInv, At
  <2>6. FollowInv'
    BY <1>21, <2>1 DEF Fails, Bounds, ghosts, Over, IInv, TypeOK, OrderInv, Request, FollowInv,
       Single, Keeps, Between, Behind, Follows, At, Changing, Making, Tool, CallRow
  <2> QED
    BY <2>2, <2>3, <2>4, <2>5, <2>6 DEF IInv
<1>22. ASSUME NEW o \in Order, NEW s \in Status, BulkUpdateStatus(o, s) PROVE IInv'
  <2>1. OrderGets(o, s)
    BY <1>22, GettingStatus DEF BulkUpdateStatus, IInv
  <2>2. TypeOK'
    BY <1>22, <2>1 DEF BulkUpdateStatus, SetOrder, Modifies, Act, Bounds, ghosts, OrderGets, IInv,
       TypeOK, OrderInv, Request, Making, PCs, CallRow, ConvRow
  <2>3. OrderInv'
    BY <1>22, <2>1 DEF BulkUpdateStatus, SetOrder, Modifies, Act, Bounds, ghosts, OrderGets, IInv,
       TypeOK, OrderInv, Request, At, Changing, Making, Tool, CallRow
  <2>4. SeenInv'
    BY <1>22, <2>1 DEF BulkUpdateStatus, SetOrder, Modifies, Act, Bounds, ghosts, OrderGets,
       Modifies, IInv, TypeOK, OrderInv, SeenInv, TotalFits, Request, At, Changing, Making, Tool
  <2>5. TellInv'
    BY <1>22, <2>1 DEF BulkUpdateStatus, SetOrder, Modifies, Act, Bounds, ghosts, OrderGets, IInv,
       TellInv, At
  <2>6. FollowInv'
    BY <1>22, <2>1 DEF BulkUpdateStatus, SetOrder, Modifies, Act, Bounds, ghosts, OrderGets, IInv,
       TypeOK, OrderInv, Request, FollowInv, Single, Keeps, Between, Behind, Follows, At,
       Changing, Making, Tool, CallRow
  <2> QED
    BY <2>2, <2>3, <2>4, <2>5, <2>6 DEF IInv
<1>23. ASSUME NEW hold \in BOOLEAN, BulkHoldAgent(hold) PROVE IInv'
  <2>1. conv' \in ConvRow /\ conv'.state = conv.state /\ conv'.current = conv.current /\ conv'.escalated = conv.escalated
        /\ conv'.about = conv.about /\ conv'.aside = conv.aside
    BY <1>23 DEF BulkHoldAgent, IInv, TypeOK, ConvRow
  <2>2. TypeOK'
    BY <1>23, <2>1 DEF BulkHoldAgent, Act, Bounds, ghosts, IInv, TypeOK, OrderInv, Request,
       Making, PCs, CallRow, ConvRow
  <2>3. OrderInv'
    BY <1>23, <2>1 DEF BulkHoldAgent, Act, Bounds, ghosts, IInv, TypeOK, OrderInv, Request, At,
       Changing, Making, Tool, CallRow
  <2>4. SeenInv'
    BY <1>23, <2>1 DEF BulkHoldAgent, Act, Bounds, ghosts, Modifies, IInv, TypeOK, OrderInv,
       SeenInv, TotalFits, Request, At, Changing, Making, Tool
  <2>5. TellInv'
    BY <1>23, <2>1 DEF BulkHoldAgent, Act, Bounds, ghosts, IInv, TellInv, At
  <2>6. FollowInv'
    BY <1>23, <2>1 DEF BulkHoldAgent, Act, Bounds, ghosts, IInv, TypeOK, OrderInv, Request,
       FollowInv, Single, Keeps, Between, Behind, Follows, At, Changing, Making, Tool, CallRow
  <2> QED
    BY <2>2, <2>3, <2>4, <2>5, <2>6 DEF IInv
<1>24. ASSUME ResolveEscalation PROVE IInv'
  <2>1. conv' \in ConvRow /\ conv'.state = conv.state /\ conv'.current = conv.current /\ conv'.escalated = conv.escalated
        /\ conv'.about = conv.about /\ conv'.aside = conv.aside
    BY <1>24 DEF ResolveEscalation, IInv, TypeOK, ConvRow
  <2>2. TypeOK'
    BY <1>24, <2>1 DEF ResolveEscalation, Act, Bounds, ghosts, IInv, TypeOK, OrderInv, Request,
       Making, PCs, CallRow, ConvRow
  <2>3. OrderInv'
    BY <1>24, <2>1 DEF ResolveEscalation, Act, Bounds, ghosts, IInv, TypeOK, OrderInv, Request,
       At, Changing, Making, Tool, CallRow
  <2>4. SeenInv'
    BY <1>24, <2>1 DEF ResolveEscalation, Act, Bounds, ghosts, Modifies, IInv, TypeOK, OrderInv,
       SeenInv, TotalFits, Request, At, Changing, Making, Tool
  <2>5. TellInv'
    BY <1>24, <2>1 DEF ResolveEscalation, Act, Bounds, ghosts, IInv, TellInv, At
  <2>6. FollowInv'
    BY <1>24, <2>1 DEF ResolveEscalation, Act, Bounds, ghosts, IInv, TypeOK, OrderInv, Request,
       FollowInv, Single, Keeps, Between, Behind, Follows, At, Changing, Making, Tool, CallRow
  <2> QED
    BY <2>2, <2>3, <2>4, <2>5, <2>6 DEF IInv
<1>25. CASE UNCHANGED vars
  BY <1>25 DEF vars, ghosts, IInv, TypeOK, OrderInv, Request, SeenInv, TotalFits, TellInv,
     FollowInv, Single, Keeps, Between, Behind, Follows, At
<1> QED
  BY <1>1, <1>2, <1>3, <1>4, <1>5, <1>6, <1>7, <1>8, <1>9, <1>10, <1>11, <1>12, <1>13, <1>14,
     <1>15, <1>16, <1>17, <1>18, <1>19, <1>20, <1>21, <1>22, <1>23, <1>24, <1>25 DEF Next

-----------------------------------------------------------------------------
(* The theorems.                                                           *)

\* The invariant holds at the start, and every step keeps it.
THEOREM Inductive == Spec => []IInv
<1>1. Init => IInv
  <2> SUFFICES ASSUME Init PROVE IInv
    OBVIOUS
  <2>1. Idle \in CallRow /\ Idle.pc = "idle" /\ Idle.tool = None /\ Idle.order = None
    BY NothingWanted DEF Idle, CallRow, PCs
  <2>2. call \in [Call -> CallRow] /\ \A t \in Call : call[t] = Idle
    BY <2>1 DEF Init
  <2>3. TypeOK
    BY <2>2 DEF Init, TypeOK, CallRow, PCs, State
  <2>4. OrderInv
    BY <2>1, <2>2 DEF Init, OrderInv, Request, Changing, Making, Tool
  <2>5. SeenInv
    BY <2>1, <2>2 DEF Init, SeenInv, TotalFits, At, Tool
  <2>6. TellInv
    BY DEF Init, TellInv
  <2>7. FollowInv
    BY <2>1, <2>2 DEF Init, FollowInv, Single, Keeps, Follows, At, Tool
  <2> QED
    BY <2>3, <2>4, <2>5, <2>6, <2>7 DEF IInv
<1> QED
  BY <1>1, Step, PTL DEF Spec

\* The rows keep their types: an order that exists has a quantity, a wilaya, a
\* cost and a total, whatever is modified, ingested or confirmed, and when.
THEOREM TypeCorrect == Spec => []TypeOK
<1>1. IInv => TypeOK
  BY DEF IInv
<1> QED
  BY <1>1, Inductive, PTL

\* The total of an order is its price and its delivery, whatever modifyOrder
\* changed, unless the order was overtaken between modifyOrder's read and write.
THEOREM TotalsFit == Spec => []TotalFits
<1>1. IInv => TotalFits
  BY DEF IInv, SeenInv
<1> QED
  BY <1>1, Inductive, PTL

\* A Takeover by escalate or by the agent bridge is followed by the merchant's
\* notification, whichever of the two comes first.
THEOREM TakeoverIsTold == Spec => []MerchantIsTold
<1>1. IInv => MerchantIsTold
  BY DEF IInv, TellInv, MerchantIsTold, Working, At
<1> QED
  BY <1>1, Inductive, PTL

\* The Conversation's state is the one of the order it was last written for, as long
\* as requests do not overlap or fail and neither the merchant nor a carrier sets a
\* status; and that is the current order, as long as no tool was given the id of
\* another one and no notice made another one current.
THEOREM StateIsTheOrders == Spec => []StateFollowsOrder
<1>1. IInv => StateFollowsOrder
  BY DEF IInv, OrderInv, FollowInv, Follows, Behind, Between, At, Quiet, StateFits, StateFollowsOrder
<1> QED
  BY <1>1, Inductive, PTL

=============================================================================
