----------------------------- MODULE DraftTurn ------------------------------
(***************************************************************************)
(* What happens inside a Turn: the agent's graph and the Draft it fills in *)
(* (ecom_agent/graph.py, routing.py, drafts.py, flows.py, nodes/).         *)
(*                                                                         *)
(* One Conversation.  TurnGuard runs its Turns one at a time, so a Turn is *)
(* a sequence of node steps.  The Conversation notes are read from the     *)
(* store when the Turn starts and written back by its last node; a node    *)
(* that raises ends the Turn before that.  Everything a language model     *)
(* returns (where a message goes, the tool, the flow, the fields it reads  *)
(* in the text) is a choice over what the schemas allow.                   *)
(*                                                                         *)
(* Tools stand for their kind: searchProducts for the tools that return a  *)
(* list, selectProduct for those that return one product (no argument is   *)
(* required), getOrderStatus for ORDER_TOOLS.  Wilaya and commune names    *)
(* are compared by their _name_key, so a name here is its key.             *)
(***************************************************************************)
EXTENDS Naturals

CONSTANTS
    Flow,             \* bound: flow ids that can be created
    Product, Quantity, Wilaya, Commune, Street,   \* values of the fields
    None,             \* no value, no flow, no Draft
    MaxStalledTurns,  \* MAX_STALLED_TURNS
    MaxTurns,         \* bound: Turns
    MaxFaults,        \* bound: exceptions in a node
    MaxRestarts       \* bound: process deaths

ASSUME NoneAssumption ==
    None \notin Flow \cup Product \cup Quantity \cup Wilaya \cup Commune \cup Street
ASSUME BoundAssumption ==
    /\ MaxStalledTurns \in Nat \ {0}
    /\ {MaxTurns, MaxFaults, MaxRestarts} \subseteq Nat

VARIABLES
    pc,         \* the node that runs next
    notes,      \* conversation_memory of the graph's state
    row,        \* the notes in the store, None: never written
    resolved,   \* resolved_flow_id
    choice,     \* name of the tool in tool_calls, None: none
    needsTool,  \* needs_tool: the reply is phrased by the model
    turns, faults, restarts

vars == <<pc, notes, row, resolved, choice, needsTool, turns, faults, restarts>>

Tool == {"createOrder", "searchProducts", "selectProduct", "getOrderStatus"}
Field == {"product", "quantity", "wilaya", "commune", "address"}
AddressField == {"wilaya", "commune", "address"}
Node == {"idle", "gate", "check", "query", "flow", "extract", "call", "escalate", "reply", "persist"}

Required(tool) ==
    CASE tool = "createOrder" -> Field \ {"address"}
      [] tool = "searchProducts" -> {"product"}
      [] OTHER -> {}

Opt(S) == S \cup {None}
Args ==
    [product : Opt(Product), quantity : Opt(Quantity), wilaya : Opt(Wilaya), commune : Opt(Commune),
     address : Opt(Street)]
Address == [wilaya : Opt(Wilaya), commune : Opt(Commune), address : Opt(Street)]
NoArgs == [k \in Field |-> None]
NoAddress == [k \in AddressField |-> None]

\* A place, and none.
Places == [wilaya : Opt(Wilaya), commune : Opt(Commune)]
NoPlace == [wilaya |-> None, commune |-> None]

\* A ToolCallDraft.  The rest is history: what the last failed call was made from,
\* until a collect for this Draft leaves something else; the place the street in
\* the arguments was given for; the address the last collect for it left in the
\* notes; whether a later one found another there.
NewDraft(tool) ==
    [tool |-> tool, args |-> NoArgs, ready |-> FALSE, attempts |-> 0, error |-> FALSE,
     failedWith |-> None, streetFor |-> NoPlace, seen |-> None, crossed |-> FALSE]

\* ConversationMemory.  typedFor is history: the place the street in the notes was
\* given for, if that is followed.
EmptyNotes ==
    [gi |-> NoAddress, flows |-> {}, active |-> None, draft |-> [f \in Flow |-> None],
     shown |-> [f \in Flow |-> {}], selected |-> None, typedFor |-> NoPlace]

Init ==
    /\ pc = "idle"
    /\ notes = EmptyNotes
    /\ row = None
    /\ resolved = None
    /\ choice = None
    /\ needsTool = FALSE
    /\ turns = 0
    /\ faults = 0
    /\ restarts = 0

-----------------------------------------------------------------------------
(* Drafts and flows.                                                       *)

\* active_flow: the flow the Turn resolved, else the active one, if it exists.
ActiveFlow(n, r) ==
    LET id == IF r # None THEN r ELSE n.active
    IN IF id \in n.flows THEN id ELSE None

DraftAt(n, r) == IF ActiveFlow(n, r) = None THEN None ELSE n.draft[ActiveFlow(n, r)]

Collecting(d) == d # None /\ ~d.ready
Ready(d) == d # None /\ d.ready
IsOrder(d) == d # None /\ d.tool = "createOrder"

HasOpenOrder(n) == IsOrder(DraftAt(n, None))

\* drafts.start: a Draft of the same tool stays.
StartDraft(d, tool) ==
    IF tool = None \/ (d # None /\ d.tool = tool) THEN d ELSE NewDraft(tool)

CloseDraft(n, r) ==
    IF DraftAt(n, r) = None THEN n ELSE [n EXCEPT !.draft[ActiveFlow(n, r)] = None]

\* Mutant: a failed call leaves the Draft ready.
ReopenStaysReady(n, r) ==
    LET d == DraftAt(n, r)
    IN [n EXCEPT !.draft[ActiveFlow(n, r)] = [d EXCEPT !.error = TRUE, !.failedWith = <<d.args, n.gi>>]]

\* Mutant: a failed call is not noted in the Draft.
ReopenWithoutError(n, r) ==
    LET d == DraftAt(n, r)
    IN [n EXCEPT !.draft[ActiveFlow(n, r)] = [d EXCEPT !.ready = FALSE, !.failedWith = <<d.args, n.gi>>]]

ReopenDraft(n, r) ==
    LET d == DraftAt(n, r)
    IN [n EXCEPT !.draft[ActiveFlow(n, r)] =
           [d EXCEPT !.ready = FALSE, !.error = TRUE, !.failedWith = <<d.args, n.gi>>]]

KnownProducts(n) == (UNION {n.shown[f] : f \in Flow} \cup {n.selected}) \ {None}

\* What the model reads in the message, after coerce_args.
Reading(tool) ==
    IF tool = "createOrder" THEN Args ELSE {[NoArgs EXCEPT !["product"] = p] : p \in Opt(Product)}

DropUnknownProduct(n, d, x) ==
    IF IsOrder(d) /\ x["product"] \notin KnownProducts(n) THEN [x EXCEPT !["product"] = None] ELSE x

\* _sync_address: a wilaya or commune that replaces another one.
Moved(gi, x) == {k \in {"wilaya", "commune"} : x[k] # None /\ gi[k] \notin {None, x[k]}}
FixesFailedOrder(d, gi, x) == d.error /\ Moved(gi, x) = {"commune"}
\* Mutant: only a new wilaya drops the street.
DropsStreetOfWilaya(d, gi, x) == IsOrder(d) /\ "wilaya" \in Moved(gi, x) /\ ~FixesFailedOrder(d, gi, x)

DropsStreet(d, gi, x) == IsOrder(d) /\ Moved(gi, x) # {} /\ ~FixesFailedOrder(d, gi, x)

SyncAddress(d, gi, x) ==
    IF ~IsOrder(d) THEN gi
    ELSE [k \in AddressField |->
            IF x[k] # None THEN x[k]
            ELSE IF k = "address" /\ DropsStreet(d, gi, x) THEN None
            ELSE gi[k]]

\* draft.args after the update, _fill_selected_product and _sync_address.
CollectedArgs(n, d, x) ==
    [k \in Field |->
        IF x[k] # None THEN x[k]
        ELSE IF k = "product" /\ IsOrder(d) /\ d.args[k] = None THEN n.selected
        ELSE IF k = "address" /\ DropsStreet(d, n.gi, x) THEN None
        ELSE d.args[k]]

\* _collect_address asks for the address fields still missing; what it reads
\* fills those and no others.
CollectedAddresses(d, gi) ==
    IF IsOrder(d) THEN {g \in Address : \A k \in AddressField : gi[k] # None => g[k] = gi[k]} ELSE {gi}

Missing(tool, args, gi) ==
    {k \in Required(tool) : args[k] = None}
        \cup IF tool = "createOrder" THEN {k \in AddressField : gi[k] = None} ELSE {}

\* The Draft after collect: only a real change is progress, and clears the error.
Collected(d, args, before, after) ==
    LET changed == args # d.args \/ after # before
        error == d.error /\ ~changed
    IN [d EXCEPT !.args = args,
                 !.attempts = IF changed THEN 0 ELSE @ + 1,
                 !.error = error,
                 !.ready = Missing(d.tool, args, after) = {} /\ ~error,
                 !.failedWith = IF @ = <<args, after>> THEN @ ELSE None]

\* The call of a ready Draft: the street of the notes, unless the Draft has one.
ReadyCall(d, gi) ==
    IF IsOrder(d) /\ d.args["address"] = None THEN [d.args EXCEPT !["address"] = gi["address"]] ELSE d.args

\* History: another order changed the address in the notes after this one had
\* collected, and this one collects again.
Crosses(d, gi) == IsOrder(d) /\ (d.crossed \/ d.seen \notin {None, gi})

\* History: where an order with these arguments goes, as far as that is known.
Place(args, gi) == [k \in {"wilaya", "commune"} |-> IF args[k] # None THEN args[k] ELSE gi[k]]

\* History: the place the street in the notes belongs to.  A street given to an
\* order that crosses is not followed further.
TypedFor(n, d, x, args, after) ==
    LET given == \/ x["address"] # None
                 \/ SyncAddress(d, n.gi, x)["address"] = None
                 \/ FixesFailedOrder(d, n.gi, x)
    IN CASE IsOrder(d) /\ (after["address"] = None \/ (given /\ Crosses(d, n.gi))) -> NoPlace
         [] IsOrder(d) /\ after["address"] # None /\ given /\ ~Crosses(d, n.gi) -> Place(args, after)
         [] OTHER -> n.typedFor

\* History: the place the street in a Draft's arguments belongs to.
StreetFor(d, x, args, before, after) ==
    CASE args["address"] = None -> NoPlace
      [] args["address"] # None /\ (x["address"] # None \/ FixesFailedOrder(d, before, x)) -> Place(args, after)
      [] OTHER -> d.streetFor

\* History: what a collect adds to a Draft.
Remember(new, d, x, before, after) ==
    [new EXCEPT !.streetFor = StreetFor(d, x, new.args, before, after),
                !.seen = IF IsOrder(d) THEN after ELSE None,
                !.crossed = Crosses(d, before)]

\* A product tool answered with the products S: a list replaces the list of its
\* flow, and one product (or a list of one) becomes the selected one.
ShowProducts(n, f, tool, S) ==
    IF f = None \/ S = {} THEN {n}
    ELSE LET listed == IF tool = "searchProducts" THEN [n EXCEPT !.shown[f] = S] ELSE n
             picks == IF tool = "selectProduct" \/ \E p \in S : S = {p} THEN S ELSE {None}
         IN {[listed EXCEPT !.selected = p] : p \in picks}

-----------------------------------------------------------------------------
(* The nodes.                                                              *)

Goto(l) == pc' = l

\* hydrate: the stored notes, or what this process has of a Turn that never
\* reached persist.
Hydrate ==
    /\ pc = "idle"
    /\ turns < MaxTurns
    /\ turns' = turns + 1
    /\ notes' = IF row = None THEN notes ELSE row
    /\ resolved' = None
    /\ choice' = None
    /\ needsTool' = FALSE
    /\ Goto("gate")
    /\ UNCHANGED <<row, faults, restarts>>

\* draft_gate: without a Draft to collect for, every message is a new request.
DraftGate ==
    /\ pc = "gate"
    /\ \/ /\ Goto("check")
          /\ UNCHANGED <<notes, needsTool>>
       \/ /\ Collecting(DraftAt(notes, resolved))
          /\ Goto("extract")
          /\ UNCHANGED <<notes, needsTool>>
       \/ /\ Collecting(DraftAt(notes, resolved))
          /\ notes' = CloseDraft(notes, resolved)
          /\ needsTool' = FALSE
          /\ Goto("reply")
    /\ UNCHANGED <<row, resolved, choice, turns, faults, restarts>>

\* check_llm: a direct answer, or a tool (its name may be left out).
CheckLLM ==
    /\ pc = "check"
    /\ \/ Goto("reply") /\ needsTool' = FALSE /\ UNCHANGED choice
       \/ Goto("query") /\ needsTool' = TRUE /\ choice' \in Tool \cup {None}
    /\ UNCHANGED <<notes, row, resolved, turns, faults, restarts>>

\* query_tool: the tool is chosen again, or the request is handed over.  The
\* fast path for buyers is one of the choices.
QueryTool ==
    /\ pc = "query"
    /\ \/ Goto("flow") /\ choice = None /\ UNCHANGED <<choice, needsTool>>
       \/ Goto("flow") /\ choice # None /\ choice' \in Tool /\ UNCHANGED needsTool
       \/ Goto("escalate") /\ choice # None /\ choice' = None /\ needsTool' = FALSE
    /\ UNCHANGED <<notes, row, resolved, turns, faults, restarts>>

\* ORDER_TOOLS, and every other tool while an order is open, run on the side.
RunsOnTheSide ==
    \/ choice = "getOrderStatus"
    \/ choice \notin {None, "createOrder"} /\ HasOpenOrder(notes)

\* flow_route after a flow was resolved.
AfterFlow(n, r) == IF Collecting(DraftAt(n, r)) THEN "extract" ELSE "call"

\* (The tool's name in tool_calls is not read after flow_resolver.)
\* flow_resolver decides nothing about flows: on the side, NO_FLOW_LOOKUP, or a
\* question back to the customer.
KeepFlow ==
    /\ pc = "flow"
    /\ \/ Goto("call")
       \/ ~RunsOnTheSide /\ Goto("reply")
    /\ resolved' = None
    /\ choice' = None
    /\ UNCHANGED <<notes, row, needsTool, turns, faults, restarts>>

CreateFlow(f) ==
    LET n == [notes EXCEPT !.flows = @ \cup {f}, !.active = f, !.draft[f] = StartDraft(None, choice)] IN
    /\ pc = "flow"
    /\ ~RunsOnTheSide
    /\ f \notin notes.flows
    /\ notes' = n
    /\ resolved' = f
    /\ choice' = None
    /\ Goto(AfterFlow(n, f))
    /\ UNCHANGED <<row, needsTool, turns, faults, restarts>>

\* CONTINUE, with the id of a flow or with one that names none (here None).
ContinueFlow(f) ==
    LET n == IF f = None THEN [notes EXCEPT !.active = None]
             ELSE [notes EXCEPT !.active = f, !.draft[f] = StartDraft(@, choice)]
    IN
    /\ pc = "flow"
    /\ ~RunsOnTheSide
    /\ f \in notes.flows \cup {None}
    /\ notes' = n
    /\ resolved' = f
    /\ choice' = None
    /\ Goto(AfterFlow(n, f))
    /\ UNCHANGED <<row, needsTool, turns, faults, restarts>>

\* Mutant: one Turn too late.
StuckLate(new) == Collecting(new) /\ new.attempts > MaxStalledTurns

\* give_up: the Draft has stalled too often.
Stuck(new) == Collecting(new) /\ new.attempts >= MaxStalledTurns

\* extract_tool_args: collect, then give_up when the Draft has stalled too often.
\* What is still missing is asked for (ask_reply), and that is the reply.
ExtractToolArgs ==
    /\ pc = "extract"
    /\ LET f == ActiveFlow(notes, resolved)
           d == notes.draft[f]
       IN \E read \in Reading(d.tool) :
          LET x == DropUnknownProduct(notes, d, read)
          IN \E gi \in CollectedAddresses(d, SyncAddress(d, notes.gi, x)) :
             LET args == CollectedArgs(notes, d, x)
                 new == Remember(Collected(d, args, notes.gi, gi), d, x, notes.gi, gi)
                 stuck == Stuck(new)
             IN /\ notes' = [notes EXCEPT !.gi = gi,
                                          !.draft[f] = IF stuck THEN None ELSE new,
                                          !.typedFor = TypedFor(notes, d, x, args, gi)]
                /\ Goto(IF stuck THEN "escalate" ELSE IF new.ready THEN "call" ELSE "reply")
                /\ needsTool' = (needsTool /\ (stuck \/ new.ready))
    /\ UNCHANGED <<row, resolved, choice, turns, faults, restarts>>

\* calling_tool with a ready order Draft: back answers with the order, or the
\* agent sees an error (a refusal, back down, or an answer lost on the way).  What
\* is sent is ReadyCall of the Draft.
CallOrder ==
    /\ pc = "call"
    /\ IsOrder(DraftAt(notes, resolved)) /\ Ready(DraftAt(notes, resolved))
    /\ \/ notes' = [CloseDraft(notes, resolved) EXCEPT !.selected = None]
       \/ notes' = ReopenDraft(notes, resolved)
    /\ needsTool' = TRUE
    /\ Goto("reply")
    /\ UNCHANGED <<row, resolved, choice, turns, faults, restarts>>

\* calling_tool with a ready Draft of another tool: it is removed whatever the
\* tool answers.
CallOther ==
    LET d == DraftAt(notes, resolved) IN
    /\ pc = "call"
    /\ Ready(d) /\ ~IsOrder(d)
    /\ \E S \in SUBSET Product :
          notes' \in ShowProducts(CloseDraft(notes, resolved), ActiveFlow(notes, resolved), d.tool, S)
    /\ needsTool' = TRUE
    /\ Goto("reply")
    /\ UNCHANGED <<row, resolved, choice, turns, faults, restarts>>

\* calling_tool without a ready Draft: the model makes the calls itself, if any.
\* While the active flow has an order Draft, an answer with createOrder in it is
\* not run at all.  Only the first call of an answer is looked at afterwards.
CallDirectly ==
    /\ pc = "call"
    /\ ~Ready(DraftAt(notes, resolved))
    /\ \/ UNCHANGED notes
       \/ /\ ~HasOpenOrder(notes)
          /\ notes' = [notes EXCEPT !.selected = None]
       \/ \E S \in SUBSET Product, tool \in {"searchProducts", "selectProduct"} :
             notes' \in ShowProducts(notes, ActiveFlow(notes, resolved), tool, S)
    /\ needsTool' = TRUE
    /\ Goto("reply")
    /\ UNCHANGED <<row, resolved, choice, turns, faults, restarts>>

\* escalate: the tool call is best effort, the Turn ends without a reply.
Escalate ==
    /\ pc = "escalate"
    /\ needsTool' = FALSE
    /\ Goto("persist")
    /\ UNCHANGED <<notes, row, resolved, choice, turns, faults, restarts>>

Reply ==
    /\ pc = "reply"
    /\ Goto("persist")
    /\ UNCHANGED <<notes, row, resolved, choice, needsTool, turns, faults, restarts>>

\* persist: the notes are written, and the Turn ends.
Persist ==
    /\ pc = "persist"
    /\ row' = notes
    /\ Goto("idle")
    /\ UNCHANGED <<notes, resolved, choice, needsTool, turns, faults, restarts>>

\* A node raises (the model or the store is down): the Turn is a hand-over and
\* nothing is written.  The graph's checkpoint keeps the last node's notes.
\* (hydrate can raise too, which changes nothing.)
TurnFails ==
    /\ \/ pc = "call" /\ ~Ready(DraftAt(notes, resolved))
       \/ pc = "reply" /\ needsTool
       \/ pc = "persist"
    /\ faults < MaxFaults
    /\ faults' = faults + 1
    /\ Goto("idle")
    /\ UNCHANGED <<notes, row, resolved, choice, needsTool, turns, restarts>>

\* The process dies, in a Turn or between two: its checkpoints are gone.
Restart ==
    /\ restarts < MaxRestarts
    /\ restarts' = restarts + 1
    /\ notes' = EmptyNotes
    /\ Goto("idle")
    /\ UNCHANGED <<row, resolved, choice, needsTool, turns, faults>>

Next ==
    \/ Hydrate \/ DraftGate \/ CheckLLM \/ QueryTool \/ KeepFlow
    \/ \E f \in Flow : CreateFlow(f)
    \/ \E f \in Flow \cup {None} : ContinueFlow(f)
    \/ ExtractToolArgs \/ CallOrder \/ CallOther \/ CallDirectly
    \/ Escalate \/ Reply \/ Persist \/ TurnFails \/ Restart

Spec == Init /\ [][Next]_vars

-----------------------------------------------------------------------------
Drafts ==
    [tool : Tool, args : Args, ready : BOOLEAN, attempts : Nat, error : BOOLEAN,
     failedWith : (Args \X Address) \cup {None}, streetFor : Places, seen : Opt(Address), crossed : BOOLEAN]

Notes ==
    [gi : Address, flows : SUBSET Flow, active : Opt(Flow), draft : [Flow -> Opt(Drafts)],
     shown : [Flow -> SUBSET Product], selected : Opt(Product),
     typedFor : Places]

\* No value, no Draft and no row are told apart from every value, Draft and row.
ASSUME NothingAssumption == None \notin Tool \cup Drafts \cup Notes \cup Address \cup Args \X Address

NotesOK(n) ==
    /\ n \in Notes
    /\ n.active \in Opt(n.flows)
    /\ \A f \in Flow : f \notin n.flows => n.draft[f] = None

\* The notes keep the shape of ConversationMemory: the active flow is one of the
\* flows, and only a flow has a Draft.
TypeOK ==
    /\ pc \in Node
    /\ NotesOK(notes)
    /\ row # None => NotesOK(row)
    /\ resolved \in Opt(Flow)
    /\ choice \in Opt(Tool)
    /\ needsTool \in BOOLEAN
    /\ {turns, faults, restarts} \subseteq Nat

\* A Draft that becomes ready is called in the same Turn and leaves it closed or
\* reopened.  A ready one left in the notes would be sent by whatever message
\* comes next, because calling_tool runs a ready Draft before anything else.
NoReadyDraftAtRest ==
    pc = "idle" => \A f \in Flow : /\ ~Ready(notes.draft[f])
                                   /\ row # None => ~Ready(row.draft[f])

\* models/domain.py: a refused Draft "is not sent again until the customer gives
\* something new".  The step that makes a refused order ready again changes its
\* arguments or the address in the notes.  The address is shared by all flows: once
\* another order has moved it, repeating the refused order's own address moves it back
\* and is such a change, and the order is sent exactly as it was refused.  So is it
\* when the customer repeats the street that so far only the notes had.
FailedDraftWaits ==
    [][\A f \in Flow :
          LET d == notes.draft[f] IN
          d # None /\ d.failedWith # None /\ ~d.ready /\ Ready(notes'.draft[f])
              => <<notes'.draft[f].args, notes'.gi>> # <<d.args, notes.gi>>]_vars

\* drafts.py: after MAX_STALLED_TURNS Turns with nothing new the Draft goes to a
\* human, so no such Draft is kept in the notes.  One Draft at the limit may be
\* kept: another order has completed its address, it was sent without a new word of
\* its own, and back has just refused it.
StalledDraftIsHandedOver ==
    row # None =>
        \A f \in Flow : Collecting(row.draft[f]) =>
            \/ row.draft[f].attempts < MaxStalledTurns
            \/ row.draft[f].attempts = MaxStalledTurns /\ row.draft[f].error

\* The order the active flow is about to send, and the place its street was given
\* for: the Draft's own street if it has one, else the one of the notes.
Sending == pc = "call" /\ IsOrder(DraftAt(notes, resolved)) /\ Ready(DraftAt(notes, resolved))
StreetOf(d) == IF d.args["address"] # None THEN d.streetFor ELSE notes.typedFor
Fits(d) ==
    \A k \in {"wilaya", "commune"} : StreetOf(d)[k] \in {None, ReadyCall(d, notes.gi)[k]}

\* drafts.py: "A new wilaya or commune makes the saved street wrong".  An order is
\* sent with a street that was given for its wilaya and commune, or before there was
\* one (a new commune that fixes a refused order keeps the street).  The notes'
\* address is shared by all flows.  Of an order that collected again after another
\* one had changed that address nothing is said: naming the place the notes already
\* have is no move, so such an order is sent there with its old street.
StreetFitsThePlace ==
    LET d == DraftAt(notes, resolved)
    IN Sending /\ ~d.crossed => Fits(d)
=============================================================================
