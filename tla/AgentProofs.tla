----------------------------- MODULE AgentProofs ----------------------------
(***************************************************************************)
(* Proofs about the agent: what happens inside a Turn (DraftTurn), and the *)
(* guard the Turns run under (TurnGuard).                                  *)
(*                                                                         *)
(* The Drafts are followed for any flows, field values, tools, number of   *)
(* Turns, exceptions and restarts.  The guard keeps its promise for any    *)
(* number of messages, Conversations, processes and threads, and any       *)
(* number of crashes and failed saves, as long as no lock connection drops *)
(* under a running Turn.                                                   *)
(***************************************************************************)
EXTENDS DraftTurn, TurnGuard, TLAPS

USE NoneAssumption, BoundAssumption

\* The notes of a new Conversation have the shape of notes.
LEMMA EmptyNotesOK == NotesOK(EmptyNotes)
<1>1. NoAddress \in Address
  BY DEF NoAddress, Address, AddressField, Opt
<1>2. EmptyNotes \in Notes
  BY <1>1 DEF EmptyNotes, Notes, Opt, Drafts, NoPlace, Places
<1> QED
  BY <1>2 DEF NotesOK, EmptyNotes, Opt

\* A new Draft is a Draft.
LEMMA NewDraftOK ==
    ASSUME NEW tool \in Tool
    PROVE  NewDraft(tool) \in Drafts
<1>1. NoArgs \in Args
  BY DEF NoArgs, Args, Field, Opt
<1> QED
  BY <1>1 DEF NewDraft, Drafts, NoPlace, Places, Opt

\* Whatever the model reads in a message are arguments of the tool.
LEMMA ReadingOK ==
    ASSUME NEW tool \in Tool, NEW x \in Reading(tool)
    PROVE  x \in Args
<1>1. ASSUME NEW p \in Opt(Product) PROVE [NoArgs EXCEPT !["product"] = p] \in Args
  BY <1>1 DEF NoArgs, Args, Field, Opt
<1> QED
  BY <1>1 DEF Reading

\* The active flow is a flow of the notes, or there is none.
LEMMA ActiveFlowOK ==
    ASSUME NEW n, NEW r, NotesOK(n)
    PROVE  /\ ActiveFlow(n, r) \in Opt(n.flows)
           /\ ActiveFlow(n, r) # None => ActiveFlow(n, r) \in Flow
           /\ DraftAt(n, r) \in Opt(Drafts)
  BY DEF ActiveFlow, NotesOK, Notes, Opt, DraftAt

\* Closing a Draft removes the one of the active flow and nothing else.
LEMMA CloseDraftOK ==
    ASSUME NEW n, NEW r, NotesOK(n)
    PROVE  /\ NotesOK(CloseDraft(n, r))
           /\ CloseDraft(n, r).gi = n.gi
           /\ CloseDraft(n, r).typedFor = n.typedFor
           /\ \A f \in Flow : CloseDraft(n, r).draft[f] = IF f = ActiveFlow(n, r) THEN None ELSE n.draft[f]
<1>1. CASE DraftAt(n, r) = None
  BY <1>1, ActiveFlowOK DEF CloseDraft, DraftAt, NotesOK, Notes, Opt
<1>2. CASE DraftAt(n, r) # None
  <2>1. ActiveFlow(n, r) \in Flow
    BY <1>2, ActiveFlowOK DEF DraftAt
  <2>2. CloseDraft(n, r) = [n EXCEPT !.draft = [n.draft EXCEPT ![ActiveFlow(n, r)] = None]]
    BY <1>2 DEF CloseDraft, NotesOK, Notes
  <2> QED
    BY <2>1, <2>2 DEF NotesOK, Notes, Opt
<1> QED
  BY <1>1, <1>2

\* Reopening a Draft marks the one of the active flow as failed and leaves the rest.
LEMMA ReopenDraftOK ==
    ASSUME NEW n, NEW r, NotesOK(n), DraftAt(n, r) # None
    PROVE  /\ NotesOK(ReopenDraft(n, r))
           /\ ReopenDraft(n, r).gi = n.gi
           /\ ReopenDraft(n, r).typedFor = n.typedFor
           /\ \A f \in Flow : ReopenDraft(n, r).draft[f] =
                 IF f = ActiveFlow(n, r)
                 THEN [DraftAt(n, r) EXCEPT !.ready = FALSE, !.error = TRUE,
                                            !.failedWith = <<DraftAt(n, r).args, n.gi>>]
                 ELSE n.draft[f]
<1> DEFINE f == ActiveFlow(n, r)
           d == DraftAt(n, r)
           e == [d EXCEPT !.ready = FALSE, !.error = TRUE, !.failedWith = <<d.args, n.gi>>]
<1>1. f \in Flow /\ f \in n.flows /\ d = n.draft[f] /\ d \in Drafts
  BY ActiveFlowOK DEF DraftAt, Opt
<1>2. n.gi \in Address
  BY DEF NotesOK, Notes
<1>3. e \in Drafts
  BY <1>1, <1>2 DEF Drafts
<1>4. ReopenDraft(n, r) = [n EXCEPT !.draft = [n.draft EXCEPT ![f] = e]]
  BY DEF ReopenDraft, NotesOK, Notes
<1> HIDE DEF f, e, d
<1> SUFFICES /\ NotesOK(ReopenDraft(n, r))
             /\ ReopenDraft(n, r).gi = n.gi
             /\ ReopenDraft(n, r).typedFor = n.typedFor
             /\ \A g \in Flow : ReopenDraft(n, r).draft[g] = IF g = f THEN e ELSE n.draft[g]
  BY DEF f, e, d
<1> QED
  BY <1>1, <1>3, <1>4, NoneAssumption DEF NotesOK, Notes, Opt

\* Showing and selecting products touches neither Drafts nor the address.
LEMMA ShowProductsOK ==
    ASSUME NEW n, NotesOK(n), NEW f \in Opt(Flow), NEW tool, NEW S \in SUBSET Product,
           NEW m \in ShowProducts(n, f, tool, S)
    PROVE  /\ NotesOK(m)
           /\ m.gi = n.gi
           /\ m.typedFor = n.typedFor
           /\ m.draft = n.draft
<1> DEFINE listed == IF tool = "searchProducts" THEN [n EXCEPT !.shown[f] = S] ELSE n
<1>1. CASE f = None \/ S = {}
  BY <1>1 DEF ShowProducts
<1>2. CASE f # None /\ S # {}
  <2>1. f \in Flow
    BY <1>2 DEF Opt
  <2>2. listed \in Notes /\ listed.gi = n.gi /\ listed.typedFor = n.typedFor /\ listed.draft = n.draft
        /\ listed.active = n.active /\ listed.flows = n.flows
    BY <2>1 DEF NotesOK, Notes
  <2>3. PICK p \in S \cup {None} : m = [listed EXCEPT !.selected = p]
    BY <1>2, Zenon DEF ShowProducts
  <2> HIDE DEF listed
  <2>4. m \in Notes /\ m.gi = n.gi /\ m.typedFor = n.typedFor /\ m.draft = n.draft
        /\ m.active = n.active /\ m.flows = n.flows
    BY <2>2, <2>3 DEF Notes, Opt
  <2> QED
    BY <2>4 DEF NotesOK
<1> QED
  BY <1>1, <1>2

\* _sync_address leaves an address.
LEMMA SyncAddressOK ==
    ASSUME NEW d, NEW gi \in Address, NEW x \in Args
    PROVE  SyncAddress(d, gi, x) \in Address
  BY DEF SyncAddress, Address, Args, AddressField, Opt

\* The arguments after a collect are arguments.
LEMMA CollectedArgsOK ==
    ASSUME NEW n, NotesOK(n), NEW d \in Drafts, NEW x \in Args
    PROVE  CollectedArgs(n, d, x) \in Args
<1>1. n.selected \in Opt(Product) /\ d.args \in Args
  BY DEF NotesOK, Notes, Drafts
<1> QED
  BY <1>1 DEF CollectedArgs, Args, Field, Opt

\* A collect resets the counter and the error exactly when something has changed.
LEMMA CollectedOK ==
    ASSUME NEW d \in Drafts, NEW args \in Args, NEW before \in Address, NEW after \in Address,
           NEW c, c = Collected(d, args, before, after)
    PROVE  /\ c \in Drafts
           /\ c.args = args
           /\ c.tool = d.tool
           /\ c.ready => ~c.error
           /\ args # d.args \/ after # before => c.attempts = 0 /\ ~c.error
           /\ args = d.args /\ after = before => c.attempts = d.attempts + 1 /\ c.error = d.error
           /\ c.failedWith \in {None, d.failedWith}
           /\ c.streetFor = d.streetFor /\ c.seen = d.seen /\ c.crossed = d.crossed
<1> DEFINE changed == args # d.args \/ after # before
           error == d.error /\ ~changed
           attempts == IF changed THEN 0 ELSE d.attempts + 1
           ready == Missing(d.tool, args, after) = {} /\ ~error
           failed == IF d.failedWith = <<args, after>> THEN d.failedWith ELSE None
<1>1. changed \in BOOLEAN /\ error \in BOOLEAN /\ ready \in BOOLEAN
  BY Zenon DEF Drafts
<1>2. attempts \in Nat
  BY DEF Drafts
<1>3. failed \in {None, d.failedWith} /\ failed \in (Args \X Address) \cup {None}
  BY DEF Drafts
<1>4. (ready => ~error) /\ (changed => ~error /\ attempts = 0) /\ (~changed => attempts = d.attempts + 1)
  OBVIOUS
<1>5. ~changed => error = d.error
  BY DEF Drafts
<1>6. c = [d EXCEPT !.args = args, !.attempts = attempts, !.error = error, !.ready = ready,
                       !.failedWith = failed]
  BY Zenon DEF Collected
<1>7. (changed <=> args # d.args \/ after # before)
  OBVIOUS
<1> HIDE DEF changed, error, attempts, ready, failed
<1>8. /\ c \in Drafts /\ c.args = args /\ c.tool = d.tool /\ c.ready = ready /\ c.error = error
      /\ c.attempts = attempts /\ c.failedWith = failed
      /\ c.streetFor = d.streetFor /\ c.seen = d.seen /\ c.crossed = d.crossed
  BY <1>1, <1>2, <1>3, <1>6 DEF Drafts
<1> QED
  BY <1>3, <1>4, <1>5, <1>7, <1>8

\* Dropping a product nobody was shown leaves arguments.
LEMMA DropUnknownProductOK ==
    ASSUME NEW n, NEW d, NEW x \in Args
    PROVE  DropUnknownProduct(n, d, x) \in Args
  BY DEF DropUnknownProduct, Args, Opt

\* What a Draft that is kept knows about itself: how often it has stalled, and that
\* what back refused was complete and is still marked as refused.
StallOK(d) ==
    /\ d.attempts <= MaxStalledTurns
    /\ d.attempts = MaxStalledTurns => d.error \/ d.ready
    /\ d.failedWith # None =>
          /\ d.error \/ d.ready
          /\ Missing(d.tool, d.failedWith[1], d.failedWith[2]) = {}

\* The place and the street an order has collected are of the address its last collect
\* left in the notes.
HistoryOK(d) ==
    IsOrder(d) /\ ~d.crossed =>
        IF d.seen = None THEN \A k \in AddressField : d.args[k] = None
        ELSE \A k \in {"wilaya", "commune"} : d.args[k] \in {None, d.seen[k]} /\ d.streetFor[k] \in {None, d.seen[k]}

DraftOK(d) == StallOK(d) /\ HistoryOK(d)

DraftsOK(n) == \A f \in Flow : n.draft[f] # None => DraftOK(n.draft[f])

\* The saved street was given for the wilaya and the commune next to it.
PlaceOK(n) == \A k \in {"wilaya", "commune"} : n.typedFor[k] \in {None, n.gi[k]}

\* Only the Draft that calling_tool is about to send is ready; it is complete, and the
\* notes have the address its collect left.
OnlyTheCalledIsReady ==
    \A f \in Flow : Ready(notes.draft[f]) =>
        /\ pc = "call"
        /\ f = ActiveFlow(notes, resolved)
        /\ Missing(notes.draft[f].tool, notes.draft[f].args, notes.gi) = {}
        /\ IsOrder(notes.draft[f]) => notes.draft[f].seen = notes.gi

DraftInv ==
    /\ TypeOK
    /\ DraftsOK(notes) /\ PlaceOK(notes)
    /\ row # None =>
          /\ DraftsOK(row) /\ PlaceOK(row)
          /\ \A f \in Flow : ~Ready(row.draft[f])
    /\ pc = "extract" => Collecting(DraftAt(notes, resolved))
    /\ OnlyTheCalledIsReady

\* A Draft that stalled too often is stuck, and one that is refused becomes ready only by
\* a change.
LEMMA CollectKeepsStallOK ==
    ASSUME NEW d \in Drafts, StallOK(d), ~d.ready,
           NEW args \in Args, NEW before \in Address, NEW after \in Address,
           NEW c, c = Collected(d, args, before, after)
    PROVE  /\ Stuck(c) \/ StallOK(c)
           /\ c.ready => Missing(c.tool, c.args, after) = {}
           /\ d.failedWith # None /\ c.ready => <<args, after>> # <<d.args, before>>
<1>1. /\ c \in Drafts /\ c.args = args /\ c.tool = d.tool /\ (c.ready => ~c.error)
      /\ args # d.args \/ after # before => c.attempts = 0 /\ ~c.error
      /\ args = d.args /\ after = before => c.attempts = d.attempts + 1 /\ c.error = d.error
      /\ c.failedWith \in {None, d.failedWith}
  BY CollectedOK
<1>2. /\ c.ready => Missing(d.tool, args, after) = {}
      /\ Missing(d.tool, args, after) = {} /\ ~c.error => c.ready
      /\ c.failedWith # None => c.failedWith = <<args, after>>
  <2> DEFINE error == d.error /\ ~(args # d.args \/ after # before)
             ready == Missing(d.tool, args, after) = {} /\ ~error
             failed == IF d.failedWith = <<args, after>> THEN d.failedWith ELSE None
             attempts == IF args # d.args \/ after # before THEN 0 ELSE d.attempts + 1
  <2>1. c = [d EXCEPT !.args = args, !.attempts = attempts, !.error = error, !.ready = ready,
                       !.failedWith = failed]
    BY Zenon DEF Collected
  <2>2. /\ ready <=> Missing(d.tool, args, after) = {} /\ ~error
        /\ failed # None => failed = <<args, after>>
    OBVIOUS
  <2> HIDE DEF error, ready, failed, attempts
  <2> QED
    BY <2>1, <2>2 DEF Drafts
<1>3. StallOK(c) \/ Stuck(c)
  <2>1. c.failedWith # None =>
          /\ c.error \/ c.ready
          /\ Missing(c.tool, c.failedWith[1], c.failedWith[2]) = {}
    <3> SUFFICES ASSUME c.failedWith # None
                 PROVE  (c.error \/ c.ready) /\ Missing(c.tool, c.failedWith[1], c.failedWith[2]) = {}
      OBVIOUS
    <3>1. c.failedWith = d.failedWith /\ c.failedWith = <<args, after>>
      BY <1>1, <1>2
    <3>2. c.failedWith[1] = args /\ c.failedWith[2] = after
      BY <3>1
    <3>3. Missing(d.tool, args, after) = {}
      BY <3>1, <3>2 DEF StallOK
    <3> QED
      BY <1>1, <1>2, <3>2, <3>3
  <2>2. \/ Stuck(c)
        \/ /\ c.attempts <= MaxStalledTurns
           /\ c.attempts = MaxStalledTurns => c.error \/ c.ready
    <3>1. c \in Drafts /\ c # None
      BY <1>1, NothingAssumption
    <3>2. CASE args # d.args \/ after # before
      BY <1>1, <3>2
    <3>3. CASE args = d.args /\ after = before
      BY <1>1, <3>1, <3>3 DEF StallOK, Drafts, Stuck, Collecting
    <3> QED
      BY <3>2, <3>3
  <2> QED
    BY <2>1, <2>2 DEF StallOK
<1>4. d.failedWith # None /\ c.ready => <<args, after>> # <<d.args, before>>
  BY <1>1 DEF StallOK
<1> QED
  BY <1>1, <1>2, <1>3, <1>4

\* What a collect makes of the place in the notes: a place that is named replaces the
\* old one, and nothing else does.
LEMMA PlaceStep ==
    ASSUME NEW gi \in Address, NEW d, NEW x \in Args,
           NEW after \in CollectedAddresses(d, SyncAddress(d, gi, x))
    PROVE  /\ after \in Address
           /\ ~IsOrder(d) => after = gi
           /\ \A k \in {"wilaya", "commune"} :
                 /\ IsOrder(d) /\ x[k] # None => after[k] = x[k]
                 /\ gi[k] # None /\ (x[k] = None \/ Moved(gi, x) = {}) => after[k] = gi[k]
<1> DEFINE s == SyncAddress(d, gi, x)
<1>1. s \in Address
  BY SyncAddressOK
<1>2. CASE ~IsOrder(d)
  BY <1>2 DEF CollectedAddresses, SyncAddress
<1>3. CASE IsOrder(d)
  <2>1. after \in Address /\ \A k \in AddressField : s[k] # None => after[k] = s[k]
    BY <1>3 DEF CollectedAddresses
  <2>2. \A k \in {"wilaya", "commune"} : s[k] = IF x[k] # None THEN x[k] ELSE gi[k]
    BY <1>3 DEF SyncAddress, AddressField
  <2>3. \A k \in {"wilaya", "commune"} : gi[k] # None /\ Moved(gi, x) = {} => x[k] \in {None, gi[k]}
    BY DEF Moved
  <2> HIDE DEF s
  <2> QED
    BY <1>3, <2>1, <2>2, <2>3 DEF AddressField
<1> QED
  BY <1>2, <1>3

\* As long as no other order comes between, an order's arguments name the place the
\* notes have after its collect.
LEMMA OwnPlace ==
    ASSUME NEW n, NotesOK(n), NEW d \in Drafts, HistoryOK(d), IsOrder(d), ~Crosses(d, n.gi), NEW x \in Args,
           NEW after \in CollectedAddresses(d, SyncAddress(d, n.gi, x)), NEW k \in {"wilaya", "commune"}
    PROVE  /\ CollectedArgs(n, d, x)[k] \in {None, after[k]}
           /\ Place(CollectedArgs(n, d, x), after)[k] = after[k]
<1>1. n.gi \in Address
  BY DEF NotesOK, Notes
<1>2. /\ x[k] # None => after[k] = x[k]
      /\ n.gi[k] # None /\ x[k] = None => after[k] = n.gi[k]
  BY <1>1, PlaceStep
<1>3. d.seen \in {None, n.gi} /\ ~d.crossed
  BY DEF Crosses
<1>4. d.args[k] \in {None, n.gi[k]}
  BY <1>3 DEF HistoryOK, AddressField
<1>5. CollectedArgs(n, d, x)[k] = IF x[k] # None THEN x[k] ELSE d.args[k]
  BY DEF CollectedArgs, Field
<1>6. CollectedArgs(n, d, x)[k] \in {None, after[k]}
  BY <1>2, <1>4, <1>5
<1> QED
  BY <1>6 DEF Place

\* A place is a place.
LEMMA PlaceType ==
    ASSUME NEW args \in Args, NEW gi \in Address
    PROVE  Place(args, gi) \in Places
  BY DEF Place, Places, Args, Address

\* A street that stays when nothing new was said of it: no wilaya or commune moved.
LEMMA NothingMoved ==
    ASSUME NEW d, NEW gi, NEW x, IsOrder(d), ~DropsStreet(d, gi, x), ~FixesFailedOrder(d, gi, x)
    PROVE  Moved(gi, x) = {}
  BY DEF DropsStreet

\* The street that is kept belongs to the wilaya and the commune that are kept: when one
\* of them moves, the street goes, unless the Turn gives it anew or fixes a refused order.
LEMMA TypedForOK ==
    ASSUME NEW n, NotesOK(n), PlaceOK(n), NEW d \in Drafts, HistoryOK(d), NEW x \in Args,
           NEW after \in CollectedAddresses(d, SyncAddress(d, n.gi, x))
    PROVE  LET t == TypedFor(n, d, x, CollectedArgs(n, d, x), after)
           IN t \in Places /\ \A k \in {"wilaya", "commune"} : t[k] \in {None, after[k]}
<1> DEFINE s == SyncAddress(d, n.gi, x)
           args == CollectedArgs(n, d, x)
           t == TypedFor(n, d, x, args, after)
<1> SUFFICES t \in Places /\ \A k \in {"wilaya", "commune"} : t[k] \in {None, after[k]}
  BY Zenon
<1>1. n.gi \in Address /\ n.typedFor \in Places
  BY DEF NotesOK, Notes
<1>2. /\ after \in Address /\ (~IsOrder(d) => after = n.gi)
      /\ \A k \in {"wilaya", "commune"} :
            n.gi[k] # None /\ (x[k] = None \/ Moved(n.gi, x) = {}) => after[k] = n.gi[k]
  BY <1>1, PlaceStep
<1>3. args \in Args
  BY CollectedArgsOK
<1>4. \/ t = NoPlace
      \/ t = Place(args, after) /\ IsOrder(d) /\ ~Crosses(d, n.gi)
      \/ /\ t = n.typedFor
         /\ IsOrder(d) => x["address"] = None /\ s["address"] # None /\ ~FixesFailedOrder(d, n.gi, x)
  BY Zenon DEF TypedFor
<1> HIDE DEF t
<1>5. CASE t = NoPlace
  BY <1>5 DEF NoPlace, Places, Opt
<1>6. CASE t = Place(args, after) /\ IsOrder(d) /\ ~Crosses(d, n.gi)
  <2>1. \A k \in {"wilaya", "commune"} : t[k] = after[k]
    BY <1>6, OwnPlace
  <2>2. t \in Places
    BY <1>2, <1>3, <1>6, PlaceType
  <2> QED
    BY <2>1, <2>2
<1>7. CASE t = n.typedFor /\ ~IsOrder(d)
  BY <1>1, <1>2, <1>7 DEF PlaceOK
<1>8. CASE /\ t = n.typedFor /\ IsOrder(d)
           /\ x["address"] = None /\ s["address"] # None /\ ~FixesFailedOrder(d, n.gi, x)
  <2>1. s["address"] = IF DropsStreet(d, n.gi, x) THEN None ELSE n.gi["address"]
    BY <1>8 DEF SyncAddress, AddressField
  <2>2. Moved(n.gi, x) = {}
    BY <1>8, <2>1, NothingMoved
  <2> QED
    BY <1>1, <1>2, <1>8, <2>2 DEF PlaceOK
<1> QED
  BY <1>4, <1>5, <1>6, <1>7, <1>8

\* So does the street an order has in its arguments.
LEMMA StreetForOK ==
    ASSUME NEW n, NotesOK(n), NEW d \in Drafts, HistoryOK(d), NEW x \in Args,
           NEW after \in CollectedAddresses(d, SyncAddress(d, n.gi, x))
    PROVE  LET t == StreetFor(d, x, CollectedArgs(n, d, x), n.gi, after)
           IN /\ t \in Places
              /\ IsOrder(d) /\ ~Crosses(d, n.gi) => \A k \in {"wilaya", "commune"} : t[k] \in {None, after[k]}
<1> DEFINE args == CollectedArgs(n, d, x)
           t == StreetFor(d, x, args, n.gi, after)
<1> SUFFICES /\ t \in Places
             /\ IsOrder(d) /\ ~Crosses(d, n.gi) => \A k \in {"wilaya", "commune"} : t[k] \in {None, after[k]}
  BY Zenon
<1>1. n.gi \in Address /\ d.streetFor \in Places
  BY DEF NotesOK, Notes, Drafts
<1>2. /\ after \in Address
      /\ \A k \in {"wilaya", "commune"} :
            n.gi[k] # None /\ (x[k] = None \/ Moved(n.gi, x) = {}) => after[k] = n.gi[k]
  BY <1>1, PlaceStep
<1>3. args \in Args
  BY CollectedArgsOK
<1>4. \/ t = NoPlace
      \/ t = Place(args, after)
      \/ t = d.streetFor /\ args["address"] # None /\ x["address"] = None /\ ~FixesFailedOrder(d, n.gi, x)
  BY Zenon DEF StreetFor
<1>5. args["address"] = IF x["address"] # None THEN x["address"]
                        ELSE IF DropsStreet(d, n.gi, x) THEN None ELSE d.args["address"]
  BY DEF CollectedArgs, Field
<1> HIDE DEF t, args
<1>6. CASE t = NoPlace
  BY <1>6 DEF NoPlace, Places, Opt
<1>7. CASE t = Place(args, after)
  <2>1. t \in Places
    BY <1>2, <1>3, <1>7, PlaceType
  <2>2. IsOrder(d) /\ ~Crosses(d, n.gi) => \A k \in {"wilaya", "commune"} : t[k] = after[k]
    BY <1>7, OwnPlace DEF args
  <2> QED
    BY <2>1, <2>2
<1>8. CASE t = d.streetFor /\ args["address"] # None /\ x["address"] = None /\ ~FixesFailedOrder(d, n.gi, x)
  <2> SUFFICES ASSUME IsOrder(d), ~Crosses(d, n.gi)
               PROVE  \A k \in {"wilaya", "commune"} : t[k] \in {None, after[k]}
    BY <1>1, <1>8
  <2>1. ~DropsStreet(d, n.gi, x) /\ d.args["address"] # None
    BY <1>5, <1>8
  <2>2. Moved(n.gi, x) = {}
    BY <1>8, <2>1, NothingMoved
  <2>3. d.seen \in {None, n.gi} /\ ~d.crossed
    BY DEF Crosses
  <2>4. d.seen = n.gi
    BY <2>1, <2>3 DEF HistoryOK, AddressField
  <2>5. \A k \in {"wilaya", "commune"} : d.streetFor[k] \in {None, n.gi[k]}
    BY <1>1, <2>3, <2>4, NothingAssumption DEF HistoryOK
  <2> QED
    BY <1>2, <1>8, <2>2, <2>5
<1> QED
  BY <1>4, <1>6, <1>7, <1>8

\* What a collect adds to a Draft for history leaves the Draft as it is, and an order
\* remembers the address of the notes.
LEMMA RememberOK ==
    ASSUME NEW n, NotesOK(n), NEW d \in Drafts, HistoryOK(d), NEW x \in Args,
           NEW after \in CollectedAddresses(d, SyncAddress(d, n.gi, x)),
           NEW c \in Drafts, c.args = CollectedArgs(n, d, x), c.tool = d.tool,
           NEW new, new = Remember(c, d, x, n.gi, after)
    PROVE  /\ new \in Drafts /\ HistoryOK(new)
           /\ new.tool = c.tool /\ new.args = c.args /\ new.ready = c.ready /\ new.attempts = c.attempts
           /\ new.error = c.error /\ new.failedWith = c.failedWith
           /\ IsOrder(new) => new.seen = after
<1> DEFINE t == StreetFor(d, x, c.args, n.gi, after)
           seen == IF IsOrder(d) THEN after ELSE None
           crossed == Crosses(d, n.gi)
<1>1. n.gi \in Address
  BY DEF NotesOK, Notes
<1>2. after \in Address
  BY <1>1, PlaceStep
<1>3. /\ t \in Places
      /\ IsOrder(d) /\ ~crossed => \A k \in {"wilaya", "commune"} : t[k] \in {None, after[k]}
  BY StreetForOK
<1>4. IsOrder(d) /\ ~crossed => \A k \in {"wilaya", "commune"} : c.args[k] \in {None, after[k]}
  BY OwnPlace
<1>5. crossed \in BOOLEAN /\ seen \in Opt(Address)
  <2>1. crossed \in BOOLEAN
    BY Zenon DEF Crosses
  <2> QED
    BY <1>2, <2>1 DEF Opt
<1>6. new = [c EXCEPT !.streetFor = t, !.seen = seen, !.crossed = crossed]
  BY DEF Remember
<1>7. IsOrder(d) => seen = after
  OBVIOUS
<1> HIDE DEF t, seen, crossed
<1>8. /\ new \in Drafts /\ new.streetFor = t /\ new.seen = seen /\ new.crossed = crossed
      /\ new.tool = c.tool /\ new.args = c.args /\ new.ready = c.ready /\ new.attempts = c.attempts
      /\ new.error = c.error /\ new.failedWith = c.failedWith
  BY <1>3, <1>5, <1>6 DEF Drafts
<1>9. IsOrder(new) => IsOrder(d)
  BY <1>8, NothingAssumption DEF IsOrder
<1>10. after # None
  BY <1>2, NothingAssumption
<1>11. HistoryOK(new)
  BY <1>3, <1>4, <1>7, <1>8, <1>9, <1>10 DEF HistoryOK
<1> QED
  BY <1>7, <1>8, <1>9, <1>11

\* drafts.start keeps a Draft that is there or starts an empty one.
LEMMA StartDraftOK ==
    ASSUME NEW d \in Opt(Drafts), d # None => DraftOK(d), ~Ready(d), NEW tool \in Opt(Tool),
           NEW e, e = StartDraft(d, tool)
    PROVE  e \in Opt(Drafts) /\ (e # None => DraftOK(e)) /\ ~Ready(e)
<1>1. CASE tool = None \/ (d # None /\ d.tool = tool)
  BY <1>1 DEF StartDraft
<1>2. CASE ~(tool = None \/ (d # None /\ d.tool = tool))
  <2>1. tool \in Tool /\ e = NewDraft(tool)
    BY <1>2 DEF StartDraft, Opt
  <2>2. e \in Drafts
    BY <2>1, NewDraftOK
  <2> QED
    BY <2>1, <2>2 DEF NewDraft, NoArgs, Field, AddressField, DraftOK, StallOK, HistoryOK, Ready, Opt
<1> QED
  BY <1>1, <1>2

\* The initial notes satisfy DraftInv.
LEMMA DraftInvInit == Init => DraftInv
<1> SUFFICES ASSUME Init PROVE DraftInv
  OBVIOUS
<1>1. notes = EmptyNotes /\ row = None
  BY DEF Init
<1>2. TypeOK
  <2>1. NotesOK(notes)
    BY <1>1, EmptyNotesOK
  <2>2. resolved \in Opt(Flow) /\ choice \in Opt(Tool) /\ {turns, faults, restarts} \subseteq Nat
    BY DEF Init, Opt
  <2>3. pc \in Node /\ needsTool \in BOOLEAN
    BY DEF Init, Node
  <2> QED
    BY <1>1, <2>1, <2>2, <2>3 DEF TypeOK
<1>3. \A f \in Flow : EmptyNotes.draft[f] = None
  BY DEF EmptyNotes
<1>4. PlaceOK(EmptyNotes)
  BY DEF PlaceOK, EmptyNotes, NoPlace
<1> QED
  BY <1>1, <1>2, <1>3, <1>4 DEF Init, DraftInv, DraftsOK, OnlyTheCalledIsReady, Ready

\* A node that leaves the notes alone outside calling_tool keeps DraftInv.
LEMMA RestStep ==
    ASSUME DraftInv, UNCHANGED <<notes, row, resolved>>, TypeOK', pc # "call", pc' # "extract"
    PROVE  DraftInv'
  BY DEF DraftInv, OnlyTheCalledIsReady, DraftsOK, PlaceOK, DraftAt, ActiveFlow

\* The nodes that only route, and the reply, keep DraftInv.
LEMMA QuietSteps ==
    DraftInv /\ (CheckLLM \/ QueryTool \/ Escalate \/ Reply \/ UNCHANGED vars) => DraftInv'
<1> SUFFICES ASSUME DraftInv
             PROVE  (CheckLLM \/ QueryTool \/ Escalate \/ Reply \/ UNCHANGED vars) => DraftInv'
  OBVIOUS
<1>0. TypeOK
  BY DEF DraftInv
<1>1. ASSUME CheckLLM PROVE DraftInv'
  <2>1. TypeOK'
    BY <1>0, <1>1 DEF TypeOK, CheckLLM, Goto, Opt, Node
  <2> QED
    BY <1>1, <2>1, RestStep DEF CheckLLM, Goto
<1>2. ASSUME QueryTool PROVE DraftInv'
  <2>1. TypeOK'
    BY <1>0, <1>2 DEF TypeOK, QueryTool, Goto, Opt, Node
  <2> QED
    BY <1>2, <2>1, RestStep DEF QueryTool, Goto
<1>3. ASSUME Escalate PROVE DraftInv'
  <2>1. TypeOK'
    BY <1>0, <1>3 DEF TypeOK, Escalate, Goto, Opt, Node
  <2> QED
    BY <1>3, <2>1, RestStep DEF Escalate, Goto
<1>4. ASSUME Reply PROVE DraftInv'
  <2>1. TypeOK'
    BY <1>0, <1>4 DEF TypeOK, Reply, Goto, Opt, Node
  <2> QED
    BY <1>4, <2>1, RestStep DEF Reply, Goto
<1>5. ASSUME UNCHANGED vars PROVE DraftInv'
  BY <1>5 DEF vars, DraftInv, TypeOK, OnlyTheCalledIsReady, DraftsOK, PlaceOK, DraftAt, ActiveFlow
<1> QED
  BY <1>1, <1>2, <1>3, <1>4, <1>5

\* A Turn starts from notes without a ready Draft: the row's, or what the last Turn left.
LEMMA HydrateStep == DraftInv /\ Hydrate => DraftInv'
<1> SUFFICES ASSUME DraftInv, Hydrate PROVE DraftInv'
  OBVIOUS
<1>1. /\ notes' \in {notes, row} /\ (row = None => notes' = notes) /\ (notes' = notes \/ row # None)
      /\ row' = row /\ pc' = "gate" /\ pc = "idle" /\ resolved' = None
      /\ choice' = None /\ needsTool' = FALSE /\ turns' = turns + 1 /\ UNCHANGED <<faults, restarts>>
  BY DEF Hydrate, Goto
<1>2. NotesOK(notes') /\ DraftsOK(notes') /\ PlaceOK(notes') /\ \A f \in Flow : ~Ready(notes'.draft[f])
  BY <1>1 DEF DraftInv, TypeOK, OnlyTheCalledIsReady
<1>3. TypeOK'
  <2>1. resolved' \in Opt(Flow) /\ choice' \in Opt(Tool) /\ {turns', faults', restarts'} \subseteq Nat
    BY <1>1 DEF DraftInv, TypeOK, Opt
  <2>2. pc' \in Node /\ needsTool' \in BOOLEAN
    BY <1>1 DEF Node
  <2> QED
    BY <1>1, <1>2, <2>1, <2>2 DEF DraftInv, TypeOK
<1> QED
  BY <1>1, <1>2, <1>3 DEF DraftInv, OnlyTheCalledIsReady, DraftsOK, PlaceOK

\* The gate closes a Draft or sends a collecting one on.
LEMMA DraftGateStep == DraftInv /\ DraftGate => DraftInv'
<1> SUFFICES ASSUME DraftInv, DraftGate PROVE DraftInv'
  OBVIOUS
<1>0. TypeOK /\ pc = "gate" /\ UNCHANGED <<row, resolved, choice, turns, faults, restarts>>
  BY DEF DraftInv, DraftGate
<1>1. CASE /\ pc' \in {"check", "extract"} /\ UNCHANGED <<notes, needsTool>>
           /\ pc' = "extract" => Collecting(DraftAt(notes, resolved))
  <2>1. TypeOK'
    BY <1>0, <1>1 DEF TypeOK, Node
  <2> QED
    BY <1>0, <1>1, <2>1 DEF DraftInv, OnlyTheCalledIsReady, DraftsOK, PlaceOK, DraftAt, ActiveFlow
<1>2. CASE notes' = CloseDraft(notes, resolved) /\ needsTool' = FALSE /\ pc' = "reply"
  <2>1. NotesOK(notes)
    BY <1>0 DEF TypeOK
  <2>2. /\ NotesOK(notes') /\ notes'.gi = notes.gi /\ notes'.typedFor = notes.typedFor
        /\ \A f \in Flow : notes'.draft[f] \in {None, notes.draft[f]}
    BY <1>2, <2>1, CloseDraftOK
  <2>3. DraftsOK(notes') /\ PlaceOK(notes') /\ \A f \in Flow : ~Ready(notes'.draft[f])
    BY <1>0, <2>2 DEF DraftInv, OnlyTheCalledIsReady, DraftsOK, PlaceOK, Ready
  <2>4. TypeOK'
    BY <1>0, <1>2, <2>2 DEF TypeOK, Node
  <2> QED
    BY <1>0, <1>2, <2>3, <2>4 DEF DraftInv, OnlyTheCalledIsReady, DraftsOK, PlaceOK
<1> QED
  BY <1>1, <1>2 DEF DraftGate, Goto

\* Without a decision about flows no Draft changes.
LEMMA KeepFlowStep == DraftInv /\ KeepFlow => DraftInv'
<1> SUFFICES ASSUME DraftInv, KeepFlow PROVE DraftInv'
  OBVIOUS
<1>1. /\ pc = "flow" /\ pc' \in {"call", "reply"} /\ resolved' = None /\ choice' = None
      /\ UNCHANGED <<notes, row, needsTool, turns, faults, restarts>>
  BY DEF KeepFlow, Goto
<1>2. TypeOK'
  BY <1>1 DEF DraftInv, TypeOK, Node, Opt
<1> QED
  BY <1>1, <1>2 DEF DraftInv, OnlyTheCalledIsReady, DraftsOK, PlaceOK

\* A new flow starts with an empty Draft, and none is ready.
LEMMA CreateFlowStep == ASSUME NEW f \in Flow
    PROVE  DraftInv /\ CreateFlow(f) => DraftInv' /\ \A g \in Flow : ~Ready(notes'.draft[g])
<1> SUFFICES ASSUME DraftInv, CreateFlow(f) PROVE DraftInv' /\ \A g \in Flow : ~Ready(notes'.draft[g])
  OBVIOUS
<1> DEFINE e == StartDraft(None, choice)
<1>0. TypeOK /\ pc = "flow" /\ NotesOK(notes) /\ choice \in Opt(Tool)
  BY DEF DraftInv, TypeOK, CreateFlow
<1>1. e \in Opt(Drafts) /\ (e # None => DraftOK(e)) /\ ~Ready(e)
  BY <1>0, StartDraftOK DEF Ready, Opt
<1>2. /\ notes' = [notes EXCEPT !.flows = @ \cup {f}, !.active = f, !.draft[f] = e]
      /\ resolved' = f /\ choice' = None
      /\ pc' = (IF Collecting(DraftAt(notes', f)) THEN "extract" ELSE "call")
      /\ UNCHANGED <<row, needsTool, turns, faults, restarts>>
  BY DEF CreateFlow, AfterFlow, Goto
<1> HIDE DEF e
<1>3. /\ NotesOK(notes') /\ notes'.gi = notes.gi /\ notes'.typedFor = notes.typedFor
      /\ \A g \in Flow : notes'.draft[g] = IF g = f THEN e ELSE notes.draft[g]
  BY <1>0, <1>1, <1>2 DEF NotesOK, Notes, Opt
<1>4. DraftsOK(notes') /\ PlaceOK(notes') /\ \A g \in Flow : ~Ready(notes'.draft[g])
  BY <1>0, <1>1, <1>3 DEF DraftInv, OnlyTheCalledIsReady, DraftsOK, PlaceOK
<1>5. TypeOK'
  BY <1>0, <1>2, <1>3 DEF TypeOK, Node, Opt
<1> QED
  BY <1>2, <1>4, <1>5 DEF DraftInv, OnlyTheCalledIsReady, DraftsOK, PlaceOK

\* A flow that is taken up again keeps its Draft or gets an empty one, and none is ready.
LEMMA ContinueFlowStep == ASSUME NEW f \in Flow \cup {None}
    PROVE  DraftInv /\ ContinueFlow(f) => DraftInv' /\ \A g \in Flow : ~Ready(notes'.draft[g])
<1> SUFFICES ASSUME DraftInv, ContinueFlow(f) PROVE DraftInv' /\ \A g \in Flow : ~Ready(notes'.draft[g])
  OBVIOUS
<1>0. TypeOK /\ pc = "flow" /\ NotesOK(notes) /\ choice \in Opt(Tool) /\ f \in notes.flows \cup {None}
  BY DEF DraftInv, TypeOK, ContinueFlow
<1>2. /\ resolved' = f /\ choice' = None
      /\ pc' = (IF Collecting(DraftAt(notes', f)) THEN "extract" ELSE "call")
      /\ UNCHANGED <<row, needsTool, turns, faults, restarts>>
  BY DEF ContinueFlow, AfterFlow, Goto
<1>3. /\ NotesOK(notes') /\ notes'.gi = notes.gi /\ notes'.typedFor = notes.typedFor
      /\ \A g \in Flow : \/ notes'.draft[g] = notes.draft[g]
                         \/ ~Ready(notes'.draft[g]) /\ (notes'.draft[g] # None => DraftOK(notes'.draft[g]))
  <2>1. CASE f = None
    <3>1. notes' = [notes EXCEPT !.active = None]
      BY <2>1 DEF ContinueFlow
    <3> QED
      BY <1>0, <3>1 DEF NotesOK, Notes, Opt
  <2>2. CASE f # None
    <3> DEFINE e == StartDraft(notes.draft[f], choice)
    <3>1. notes' = [notes EXCEPT !.active = f, !.draft[f] = e]
      BY <2>2 DEF ContinueFlow
    <3>2. f \in Flow /\ notes.draft[f] \in Opt(Drafts) /\ ~Ready(notes.draft[f])
      BY <2>2, <1>0 DEF NotesOK, Notes, DraftInv, OnlyTheCalledIsReady
    <3>3. notes.draft[f] # None => DraftOK(notes.draft[f])
      BY <3>2 DEF DraftInv, DraftsOK
    <3>4. e \in Opt(Drafts) /\ (e # None => DraftOK(e)) /\ ~Ready(e)
      BY <3>2, <3>3, <1>0, StartDraftOK
    <3> HIDE DEF e
    <3> QED
      BY <1>0, <2>2, <3>1, <3>2, <3>4 DEF NotesOK, Notes, Opt
  <2> QED
    BY <2>1, <2>2
<1>4. DraftsOK(notes') /\ PlaceOK(notes') /\ \A g \in Flow : ~Ready(notes'.draft[g])
  BY <1>0, <1>3 DEF DraftInv, OnlyTheCalledIsReady, DraftsOK, PlaceOK
<1>5. TypeOK'
  BY <1>0, <1>2, <1>3 DEF TypeOK, Node, Opt
<1> QED
  BY <1>2, <1>4, <1>5 DEF DraftInv, OnlyTheCalledIsReady, DraftsOK, PlaceOK

\* What extract_tool_args does to the notes: one Draft is collected for, and with it
\* the address.
LEMMA ExtractEffect ==
    ASSUME DraftInv, ExtractToolArgs
    PROVE  LET f == ActiveFlow(notes, resolved) IN
           /\ pc = "extract" /\ f \in Flow /\ notes.draft[f] \in Drafts /\ ~notes.draft[f].ready
           /\ NotesOK(notes') /\ PlaceOK(notes')
           /\ notes'.flows = notes.flows /\ notes'.active = notes.active
           /\ \A g \in Flow \ {f} : notes'.draft[g] = notes.draft[g]
           /\ notes'.draft[f] # None => DraftOK(notes'.draft[f])
           /\ Ready(notes'.draft[f]) =>
                 /\ pc' = "call"
                 /\ Missing(notes'.draft[f].tool, notes'.draft[f].args, notes'.gi) = {}
                 /\ IsOrder(notes'.draft[f]) => notes'.draft[f].seen = notes'.gi
                 /\ notes.draft[f].failedWith # None =>
                       <<notes'.draft[f].args, notes'.gi>> # <<notes.draft[f].args, notes.gi>>
           /\ pc' \in {"escalate", "call", "reply"} /\ needsTool' \in BOOLEAN
           /\ UNCHANGED <<row, resolved, choice, turns, faults, restarts>>
<1> DEFINE f == ActiveFlow(notes, resolved)
           d == notes.draft[f]
<1>0. TypeOK /\ NotesOK(notes) /\ notes \in Notes /\ pc = "extract" /\ Collecting(DraftAt(notes, resolved))
  BY DEF DraftInv, TypeOK, ExtractToolArgs, NotesOK
<1>1. f \in Flow /\ d \in Drafts /\ ~d.ready /\ d # None
  BY <1>0, ActiveFlowOK DEF DraftAt, Collecting, Opt, Notes
<1>2. DraftOK(d) /\ PlaceOK(notes)
  BY <1>1 DEF DraftInv, DraftsOK
<1>3. PICK read \in Reading(d.tool) :
        LET x == DropUnknownProduct(notes, d, read)
        IN \E gi \in CollectedAddresses(d, SyncAddress(d, notes.gi, x)) :
           LET args == CollectedArgs(notes, d, x)
               new == Remember(Collected(d, args, notes.gi, gi), d, x, notes.gi, gi)
               stuck == Stuck(new)
           IN /\ notes' = [notes EXCEPT !.gi = gi,
                                        !.draft[f] = IF stuck THEN None ELSE new,
                                        !.typedFor = TypedFor(notes, d, x, args, gi)]
              /\ pc' = (IF stuck THEN "escalate" ELSE IF new.ready THEN "call" ELSE "reply")
              /\ needsTool' = (needsTool /\ (stuck \/ new.ready))
  BY Zenon DEF ExtractToolArgs, Goto
<1> DEFINE x == DropUnknownProduct(notes, d, read)
           args == CollectedArgs(notes, d, x)
<1>4. PICK gi \in CollectedAddresses(d, SyncAddress(d, notes.gi, x)) :
        LET new == Remember(Collected(d, args, notes.gi, gi), d, x, notes.gi, gi)
            stuck == Stuck(new)
        IN /\ notes' = [notes EXCEPT !.gi = gi,
                                     !.draft[f] = IF stuck THEN None ELSE new,
                                     !.typedFor = TypedFor(notes, d, x, args, gi)]
           /\ pc' = (IF stuck THEN "escalate" ELSE IF new.ready THEN "call" ELSE "reply")
           /\ needsTool' = (needsTool /\ (stuck \/ new.ready))
  BY <1>3, Zenon
<1> DEFINE c == Collected(d, args, notes.gi, gi)
           new == Remember(c, d, x, notes.gi, gi)
           kept == IF Stuck(new) THEN None ELSE new
           typed == TypedFor(notes, d, x, args, gi)
<1>5. /\ notes' = [notes EXCEPT !.gi = gi, !.draft[f] = kept, !.typedFor = typed]
      /\ pc' = (IF Stuck(new) THEN "escalate" ELSE IF new.ready THEN "call" ELSE "reply")
      /\ needsTool' = (needsTool /\ (Stuck(new) \/ new.ready))
  BY <1>4, Zenon
<1>6. x \in Args /\ notes.gi \in Address
  BY <1>0, <1>1, ReadingOK, DropUnknownProductOK DEF Notes, Drafts
<1>7. args \in Args
  BY <1>0, <1>1, <1>6, CollectedArgsOK
<1>h. StallOK(d) /\ HistoryOK(d)
  BY <1>2 DEF DraftOK
<1>8. /\ gi \in Address /\ typed \in Places
      /\ \A k \in {"wilaya", "commune"} : typed[k] \in {None, gi[k]}
  BY <1>0, <1>1, <1>2, <1>6, <1>h, TypedForOK, PlaceStep
<1>c. c \in Drafts /\ c.args = args /\ c.tool = d.tool
  BY <1>1, <1>6, <1>7, <1>8, CollectedOK
<1>9. /\ new \in Drafts /\ HistoryOK(new)
      /\ new.tool = c.tool /\ new.args = args /\ new.ready = c.ready /\ new.attempts = c.attempts
      /\ new.error = c.error /\ new.failedWith = c.failedWith
      /\ IsOrder(new) => new.seen = gi
  <2> HIDE DEF c
  <2> QED
    BY <1>0, <1>1, <1>6, <1>h, <1>c, RememberOK
<1>k. /\ Stuck(c) \/ StallOK(c)
      /\ c.ready => Missing(c.tool, c.args, gi) = {}
      /\ d.failedWith # None /\ c.ready => <<args, gi>> # <<d.args, notes.gi>>
  BY <1>1, <1>6, <1>7, <1>8, <1>h, CollectKeepsStallOK
<1> HIDE DEF c
<1>10. /\ Stuck(new) \/ DraftOK(new)
       /\ new.ready => Missing(new.tool, new.args, gi) = {}
       /\ d.failedWith # None /\ new.ready => <<args, gi>> # <<d.args, notes.gi>>
  <2>1. c # None /\ new # None
    BY <1>c, <1>9, NothingAssumption
  <2> HIDE DEF new
  <2>2. Stuck(c) <=> Stuck(new)
    BY <1>9, <2>1 DEF Stuck, Collecting
  <2>3. StallOK(c) <=> StallOK(new)
    BY <1>9 DEF StallOK
  <2> QED
    BY <1>c, <1>9, <1>k, <2>2, <2>3 DEF DraftOK
<1>11. kept \in Opt(Drafts) /\ (kept # None => kept = new /\ ~Stuck(new))
  BY <1>9 DEF Opt
<1> HIDE DEF f, d, x, args, new, kept, typed
<1>12. /\ notes' \in Notes /\ notes'.gi = gi /\ notes'.typedFor = typed /\ notes'.flows = notes.flows
       /\ notes'.active = notes.active /\ notes'.draft = [notes.draft EXCEPT ![f] = kept]
  BY <1>0, <1>1, <1>5, <1>8, <1>11 DEF Notes
<1>13. notes'.draft[f] = kept /\ \A g \in Flow \ {f} : notes'.draft[g] = notes.draft[g]
  BY <1>0, <1>1, <1>12 DEF Notes
<1>14. f \in notes.flows
  BY <1>1, <1>0 DEF NotesOK, d
<1>15. NotesOK(notes') /\ PlaceOK(notes')
  BY <1>0, <1>8, <1>12, <1>13, <1>14 DEF NotesOK, PlaceOK
<1>16. needsTool' \in BOOLEAN
  BY <1>5, Zenon
<1>17. UNCHANGED <<row, resolved, choice, turns, faults, restarts>>
  BY DEF ExtractToolArgs
<1>18. pc' \in {"escalate", "call", "reply"}
  BY <1>5
<1>19. kept # None => DraftOK(kept)
  BY <1>10, <1>11
<1>20. Ready(kept) => /\ pc' = "call"
                      /\ Missing(kept.tool, kept.args, notes'.gi) = {}
                      /\ IsOrder(kept) => kept.seen = notes'.gi
                      /\ d.failedWith # None => <<kept.args, notes'.gi>> # <<d.args, notes.gi>>
  BY <1>5, <1>9, <1>10, <1>11, <1>12 DEF Ready
<1> QED
  BY <1>0, <1>1, <1>12, <1>13, <1>15, <1>16, <1>17, <1>18, <1>19, <1>20 DEF f, d

\* A collect keeps DraftInv: a Draft it makes ready is called next.
LEMMA ExtractStep == DraftInv /\ ExtractToolArgs => DraftInv'
<1> SUFFICES ASSUME DraftInv, ExtractToolArgs PROVE DraftInv'
  OBVIOUS
<1> DEFINE f == ActiveFlow(notes, resolved)
<1>1. /\ pc = "extract" /\ f \in Flow
      /\ NotesOK(notes') /\ PlaceOK(notes') /\ notes'.flows = notes.flows /\ notes'.active = notes.active
      /\ \A g \in Flow \ {f} : notes'.draft[g] = notes.draft[g]
      /\ notes'.draft[f] # None => DraftOK(notes'.draft[f])
      /\ Ready(notes'.draft[f]) =>
            /\ pc' = "call" /\ Missing(notes'.draft[f].tool, notes'.draft[f].args, notes'.gi) = {}
            /\ IsOrder(notes'.draft[f]) => notes'.draft[f].seen = notes'.gi
      /\ pc' \in {"escalate", "call", "reply"} /\ needsTool' \in BOOLEAN
      /\ UNCHANGED <<row, resolved, choice, turns, faults, restarts>>
  BY ExtractEffect
<1>2. ActiveFlow(notes', resolved') = f
  BY <1>1 DEF ActiveFlow
<1>3. TypeOK'
  BY <1>1 DEF DraftInv, TypeOK, Node
<1>4. DraftsOK(notes')
  BY <1>1 DEF DraftInv, DraftsOK
<1>5. OnlyTheCalledIsReady'
  <2> SUFFICES ASSUME NEW g \in Flow, Ready(notes'.draft[g])
               PROVE  /\ pc' = "call" /\ g = f
                      /\ Missing(notes'.draft[g].tool, notes'.draft[g].args, notes'.gi) = {}
                      /\ IsOrder(notes'.draft[g]) => notes'.draft[g].seen = notes'.gi
    BY <1>2 DEF OnlyTheCalledIsReady
  <2>1. g = f
    BY <1>1 DEF DraftInv, OnlyTheCalledIsReady
  <2> QED
    BY <1>1, <2>1
<1> QED
  BY <1>1, <1>3, <1>4, <1>5 DEF DraftInv

\* After a call no Draft is ready: the one that was is closed or reopened.
LEMMA CalledStep ==
    ASSUME DraftInv, pc' = "reply", needsTool' = TRUE,
           UNCHANGED <<row, resolved, choice, turns, faults, restarts>>,
           NotesOK(notes'), notes'.gi = notes.gi, notes'.typedFor = notes.typedFor, DraftsOK(notes'),
           \A f \in Flow : ~Ready(notes'.draft[f])
    PROVE  DraftInv'
<1>1. TypeOK'
  BY DEF DraftInv, TypeOK, Node
<1> QED
  BY <1>1 DEF DraftInv, OnlyTheCalledIsReady, DraftsOK, PlaceOK

\* A ready order is closed or reopened by its call.
LEMMA CallOrderStep == DraftInv /\ CallOrder => DraftInv'
<1> SUFFICES ASSUME DraftInv, CallOrder PROVE DraftInv'
  OBVIOUS
<1> DEFINE f == ActiveFlow(notes, resolved)
           d == DraftAt(notes, resolved)
           e == [d EXCEPT !.ready = FALSE, !.error = TRUE, !.failedWith = <<d.args, notes.gi>>]
<1>1. /\ NotesOK(notes) /\ DraftsOK(notes) /\ Ready(d) /\ pc' = "reply" /\ needsTool' = TRUE
      /\ UNCHANGED <<row, resolved, choice, turns, faults, restarts>>
  BY DEF DraftInv, TypeOK, CallOrder, Goto
<1>2. d # None /\ f \in Flow /\ d = notes.draft[f] /\ d \in Drafts
  BY <1>1, ActiveFlowOK DEF Ready, DraftAt, Opt
<1>3. DraftOK(d) /\ Missing(d.tool, d.args, notes.gi) = {} /\ \A g \in Flow \ {f} : ~Ready(notes.draft[g])
  BY <1>1, <1>2 DEF DraftInv, DraftsOK, OnlyTheCalledIsReady
<1>4. CASE notes' = [CloseDraft(notes, resolved) EXCEPT !.selected = None]
  <2> DEFINE n == CloseDraft(notes, resolved)
  <2>1. /\ NotesOK(n) /\ n.gi = notes.gi /\ n.typedFor = notes.typedFor
        /\ \A g \in Flow : n.draft[g] = IF g = f THEN None ELSE notes.draft[g]
    BY <1>1, CloseDraftOK
  <2>2. notes' = [n EXCEPT !.selected = None]
    BY <1>4
  <2> HIDE DEF n
  <2>3. /\ NotesOK(notes') /\ notes'.gi = n.gi /\ notes'.typedFor = n.typedFor /\ notes'.draft = n.draft
    BY <2>1, <2>2 DEF NotesOK, Notes, Opt
  <2>4. DraftsOK(notes') /\ \A g \in Flow : ~Ready(notes'.draft[g])
    BY <1>1, <1>3, <2>1, <2>3 DEF DraftsOK, Ready
  <2> QED
    BY <1>1, <2>1, <2>3, <2>4, CalledStep
<1>5. CASE notes' = ReopenDraft(notes, resolved)
  <2>1. /\ NotesOK(notes') /\ notes'.gi = notes.gi /\ notes'.typedFor = notes.typedFor
        /\ \A g \in Flow : notes'.draft[g] = IF g = f THEN e ELSE notes.draft[g]
    BY <1>1, <1>2, <1>5, ReopenDraftOK
  <2>2. /\ e.ready = FALSE /\ e.error = TRUE /\ e.failedWith = <<d.args, notes.gi>>
        /\ e.attempts = d.attempts /\ e.tool = d.tool /\ e.args = d.args
        /\ e.streetFor = d.streetFor /\ e.seen = d.seen /\ e.crossed = d.crossed
    BY <1>2 DEF Drafts
  <2>3. StallOK(e) /\ ~Ready(e)
    BY <1>3, <2>2 DEF DraftOK, StallOK, Ready
  <2>5. HistoryOK(e)
    <3> HIDE DEF e
    <3> QED
      BY <1>2, <1>3, <2>2 DEF DraftOK, HistoryOK, IsOrder
  <2> HIDE DEF e
  <2>4. DraftsOK(notes') /\ \A g \in Flow : ~Ready(notes'.draft[g])
    BY <1>1, <1>3, <2>1, <2>3, <2>5 DEF DraftsOK, DraftOK
  <2> QED
    BY <1>1, <2>1, <2>4, CalledStep
<1> QED
  BY <1>4, <1>5 DEF CallOrder

\* A ready Draft of another tool is removed by its call.
LEMMA CallOtherStep == DraftInv /\ CallOther => DraftInv'
<1> SUFFICES ASSUME DraftInv, CallOther PROVE DraftInv'
  OBVIOUS
<1> DEFINE f == ActiveFlow(notes, resolved)
           d == DraftAt(notes, resolved)
           n == CloseDraft(notes, resolved)
<1>1. /\ NotesOK(notes) /\ DraftsOK(notes) /\ pc' = "reply" /\ needsTool' = TRUE
      /\ UNCHANGED <<row, resolved, choice, turns, faults, restarts>>
  BY DEF DraftInv, TypeOK, CallOther, Goto
<1>2. /\ NotesOK(n) /\ n.gi = notes.gi /\ n.typedFor = notes.typedFor
      /\ \A g \in Flow : n.draft[g] = IF g = f THEN None ELSE notes.draft[g]
  BY <1>1, CloseDraftOK
<1>3. f \in Opt(Flow)
  BY <1>1, ActiveFlowOK DEF Opt
<1>4. PICK S \in SUBSET Product : notes' \in ShowProducts(n, f, d.tool, S)
  BY Zenon DEF CallOther
<1> HIDE DEF n
<1>5. NotesOK(notes') /\ notes'.gi = n.gi /\ notes'.typedFor = n.typedFor /\ notes'.draft = n.draft
  BY <1>2, <1>3, <1>4, ShowProductsOK
<1>6. DraftsOK(notes') /\ \A g \in Flow : ~Ready(notes'.draft[g])
  BY <1>1, <1>2, <1>5 DEF DraftInv, OnlyTheCalledIsReady, DraftsOK, Ready
<1> QED
  BY <1>1, <1>2, <1>5, <1>6, CalledStep

\* Calls the model makes itself leave the Drafts alone.
LEMMA CallDirectlyStep == DraftInv /\ CallDirectly => DraftInv'
<1> SUFFICES ASSUME DraftInv, CallDirectly PROVE DraftInv'
  OBVIOUS
<1> DEFINE f == ActiveFlow(notes, resolved)
<1>1. /\ NotesOK(notes) /\ DraftsOK(notes) /\ ~Ready(DraftAt(notes, resolved))
      /\ pc' = "reply" /\ needsTool' = TRUE
      /\ UNCHANGED <<row, resolved, choice, turns, faults, restarts>>
  BY DEF DraftInv, TypeOK, CallDirectly, Goto
<1>2. f \in Opt(Flow)
  BY <1>1, ActiveFlowOK DEF Opt
<1>3. \A g \in Flow : ~Ready(notes.draft[g])
  BY <1>1 DEF DraftInv, OnlyTheCalledIsReady, DraftAt, Ready
<1>4. /\ NotesOK(notes') /\ notes'.gi = notes.gi
      /\ notes'.typedFor = notes.typedFor /\ notes'.draft = notes.draft
  <2>1. CASE notes' = notes
    BY <1>1, <2>1
  <2>2. CASE notes' = [notes EXCEPT !.selected = None]
    BY <1>1, <2>2 DEF NotesOK, Notes, Opt
  <2>3. CASE \E S \in SUBSET Product, tool \in {"searchProducts", "selectProduct"} :
                notes' \in ShowProducts(notes, f, tool, S)
    BY <1>1, <1>2, <2>3, ShowProductsOK
  <2> QED
    BY <2>1, <2>2, <2>3 DEF CallDirectly
<1>5. DraftsOK(notes') /\ \A g \in Flow : ~Ready(notes'.draft[g])
  BY <1>1, <1>3, <1>4 DEF DraftsOK
<1> QED
  BY <1>1, <1>4, <1>5, CalledStep

\* What is written has no ready Draft.
LEMMA PersistStep == DraftInv /\ Persist => DraftInv'
<1> SUFFICES ASSUME DraftInv, Persist PROVE DraftInv'
  OBVIOUS
<1>1. /\ pc = "persist" /\ row' = notes /\ pc' = "idle"
      /\ UNCHANGED <<notes, resolved, choice, needsTool, turns, faults, restarts>>
  BY DEF Persist, Goto
<1>2. TypeOK'
  BY <1>1 DEF DraftInv, TypeOK, Node
<1> QED
  BY <1>1, <1>2 DEF DraftInv, OnlyTheCalledIsReady, DraftsOK, PlaceOK

\* A node that raises leaves no ready Draft: calling_tool raises only without one.
LEMMA TurnFailsStep == DraftInv /\ TurnFails => DraftInv'
<1> SUFFICES ASSUME DraftInv, TurnFails PROVE DraftInv'
  OBVIOUS
<1>1. /\ (pc = "call" /\ ~Ready(DraftAt(notes, resolved))) \/ pc \in {"reply", "persist"}
      /\ pc' = "idle" /\ faults' = faults + 1
      /\ UNCHANGED <<notes, row, resolved, choice, needsTool, turns, restarts>>
  BY DEF TurnFails, Goto
<1>2. \A f \in Flow : ~Ready(notes.draft[f])
  BY <1>1 DEF DraftInv, OnlyTheCalledIsReady, DraftAt, Ready
<1>3. TypeOK'
  BY <1>1 DEF DraftInv, TypeOK, Node
<1> QED
  BY <1>1, <1>2, <1>3 DEF DraftInv, OnlyTheCalledIsReady, DraftsOK, PlaceOK

\* A process that dies forgets the notes.
LEMMA RestartStep == DraftInv /\ Restart => DraftInv'
<1> SUFFICES ASSUME DraftInv, Restart PROVE DraftInv'
  OBVIOUS
<1>1. /\ notes' = EmptyNotes /\ pc' = "idle" /\ restarts' = restarts + 1
      /\ UNCHANGED <<row, resolved, choice, needsTool, turns, faults>>
  BY DEF Restart, Goto
<1>2. NotesOK(notes') /\ PlaceOK(notes') /\ \A f \in Flow : notes'.draft[f] = None
  <2>1. PlaceOK(EmptyNotes) /\ \A f \in Flow : EmptyNotes.draft[f] = None
    BY DEF PlaceOK, EmptyNotes, NoPlace
  <2> QED
    BY <1>1, <2>1, EmptyNotesOK
<1>3. TypeOK'
  BY <1>1, <1>2 DEF DraftInv, TypeOK, Node
<1> QED
  BY <1>1, <1>2, <1>3 DEF DraftInv, OnlyTheCalledIsReady, DraftsOK, PlaceOK, Ready

\* DraftInv is inductive.
LEMMA DraftInvStep == DraftInv /\ [Next]_vars => DraftInv'
  BY QuietSteps, HydrateStep, DraftGateStep, KeepFlowStep, CreateFlowStep, ContinueFlowStep,
     ExtractStep,
     CallOrderStep, CallOtherStep, CallDirectlyStep, PersistStep, TurnFailsStep, RestartStep DEF Next

\* The notes keep the shape of ConversationMemory.
THEOREM DraftTurnTypes == Spec => []TypeOK
<1>1. DraftInv => TypeOK
  BY DEF DraftInv
<1> QED
  BY <1>1, DraftInvInit, DraftInvStep, PTL DEF Spec

\* Between two Turns no Draft is ready, in the notes or in the store: calling_tool would
\* send it for whatever message comes next.
THEOREM ReadyDraftsAreCalled == Spec => []NoReadyDraftAtRest
<1>1. DraftInv => NoReadyDraftAtRest
  BY DEF DraftInv, OnlyTheCalledIsReady, NoReadyDraftAtRest
<1> QED
  BY <1>1, DraftInvInit, DraftInvStep, PTL DEF Spec

\* No Draft stays in the store beyond MAX_STALLED_TURNS, and one at the limit has just
\* been refused.
THEOREM StalledDraftsLeave == Spec => []StalledDraftIsHandedOver
<1>1. DraftInv => StalledDraftIsHandedOver
  <2> SUFFICES ASSUME DraftInv, row # None, NEW f \in Flow, Collecting(row.draft[f])
               PROVE  \/ row.draft[f].attempts < MaxStalledTurns
                      \/ row.draft[f].attempts = MaxStalledTurns /\ row.draft[f].error
    BY DEF StalledDraftIsHandedOver
  <2>1. DraftOK(row.draft[f]) /\ ~row.draft[f].ready
    BY DEF DraftInv, DraftsOK, Collecting
  <2>2. row.draft[f].attempts \in Nat
    BY DEF DraftInv, TypeOK, NotesOK, Notes, Drafts, Opt, Collecting
  <2> QED
    BY <2>1, <2>2 DEF DraftOK, StallOK
<1> QED
  BY <1>1, DraftInvInit, DraftInvStep, PTL DEF Spec

\* An order that no other one came between is sent with a street given for its own
\* wilaya and commune, whether the street is the Draft's own or the one of the notes.
THEOREM StreetBelongsToThePlace == Spec => []StreetFitsThePlace
<1>1. DraftInv => StreetFitsThePlace
  <2> SUFFICES ASSUME DraftInv, Sending, ~DraftAt(notes, resolved).crossed
               PROVE  Fits(DraftAt(notes, resolved))
    BY DEF StreetFitsThePlace
  <2> DEFINE f == ActiveFlow(notes, resolved)
             d == DraftAt(notes, resolved)
  <2>1. NotesOK(notes) /\ notes.gi \in Address /\ IsOrder(d) /\ Ready(d) /\ ~d.crossed
    BY DEF DraftInv, TypeOK, NotesOK, Notes, Sending
  <2>2. f \in Flow /\ d = notes.draft[f] /\ d # None /\ d \in Drafts
    BY <2>1, ActiveFlowOK DEF Ready, DraftAt, Opt
  <2>3. HistoryOK(d) /\ Missing(d.tool, d.args, notes.gi) = {} /\ d.seen = notes.gi
    BY <2>1, <2>2 DEF DraftInv, DraftsOK, DraftOK, OnlyTheCalledIsReady
  <2> HIDE DEF d, f
  <2>4. ASSUME NEW k \in {"wilaya", "commune"}
        PROVE  /\ d.args[k] = notes.gi[k] /\ d.streetFor[k] \in {None, notes.gi[k]}
               /\ notes.typedFor[k] \in {None, notes.gi[k]} /\ ReadyCall(d, notes.gi)[k] = d.args[k]
    <3>1. d.args[k] # None
      BY <2>1, <2>3 DEF Missing, Required, Field, IsOrder
    <3>2. d.args[k] \in {None, d.seen[k]} /\ d.streetFor[k] \in {None, d.seen[k]}
      BY <2>1, <2>3, NothingAssumption DEF HistoryOK
    <3>3. ReadyCall(d, notes.gi)[k] = d.args[k]
      BY <2>2 DEF ReadyCall, Drafts, Args
    <3> QED
      BY <2>3, <3>1, <3>2, <3>3 DEF DraftInv, PlaceOK
  <2>5. Fits(d)
    BY <2>4 DEF Fits, StreetOf
  <2> QED
    BY <2>5 DEF d
<1> QED
  BY <1>1, DraftInvInit, DraftInvStep, PTL DEF Spec

\* Of a refused order only a collect for it can make it ready again.
LEMMA RefusedStep ==
    ASSUME DraftInv, [Next]_vars, NEW f \in Flow,
           notes.draft[f] # None, notes.draft[f].failedWith # None,
           ~notes.draft[f].ready, Ready(notes'.draft[f])
    PROVE  <<notes'.draft[f].args, notes'.gi>> # <<notes.draft[f].args, notes.gi>>
<1>1. CASE ExtractToolArgs
  BY <1>1, ExtractEffect DEF Ready
<1>2. CASE ~ExtractToolArgs
  <2>1. ~Ready(notes.draft[f])
    BY DEF Ready
  <2>2. DraftInv'
    BY DraftInvStep
  <2>3. pc' = "call"
    BY <2>2 DEF DraftInv, OnlyTheCalledIsReady
  <2>4. CASE UNCHANGED notes
    BY <2>1, <2>4
  <2>5. ASSUME NEW g \in Flow, CreateFlow(g) PROVE FALSE
    BY <2>5, CreateFlowStep
  <2>6. ASSUME NEW g \in Flow \cup {None}, ContinueFlow(g) PROVE FALSE
    BY <2>6, ContinueFlowStep
  <2>7. Hydrate \/ DraftGate \/ CheckLLM \/ QueryTool \/ CallOrder \/ CallOther \/ CallDirectly \/ Escalate \/ Reply
          \/ Persist \/ TurnFails \/ Restart => pc' # "call"
    BY DEF Hydrate, DraftGate, CheckLLM, QueryTool, CallOrder, CallOther, CallDirectly, Escalate,
       Reply, Persist,
       TurnFails, Restart, Goto
  <2>8. KeepFlow \/ UNCHANGED vars => UNCHANGED notes
    BY DEF KeepFlow, vars
  <2> QED
    BY <1>2, <2>3, <2>4, <2>5, <2>6, <2>7, <2>8 DEF Next
<1> QED
  BY <1>1, <1>2

\* A refused order is ready again only after its arguments or the address changed.
THEOREM RefusedDraftsWait == Spec => FailedDraftWaits
<1> DEFINE Waits ==
             \A f \in Flow :
                LET d == notes.draft[f] IN
                d # None /\ d.failedWith # None /\ ~d.ready /\ Ready(notes'.draft[f])
                    => <<notes'.draft[f].args, notes'.gi>> # <<d.args, notes.gi>>
<1>1. DraftInv /\ [Next]_vars => [Waits]_vars
  BY RefusedStep, Zenon
<1> QED
  BY <1>1, DraftInvInit, DraftInvStep, PTL DEF Spec, FailedDraftWaits

-----------------------------------------------------------------------------
(* The guard the Turns run under.                                          *)

USE ConversationOfAssumption, AgentOfAssumption, ResultAssumption, NobodyAssumption, GuardBoundAssumption

\* The thread is inside the with block of run_once.
Inside(t) == at[t] \in {"load", "run", "save", "release"}

\* The invariant that makes the guard work: whoever is inside holds the lock of
\* its Conversation, a Turn in progress has no saved result, and a thread that
\* is about to return holds what is saved.
GuardInv ==
    /\ \A t \in Thread : Inside(t) => holder[Conv(t)] = t
    /\ \A t \in Thread : at[t] \in {"run", "save"} => saved[handling[t]] = NoResult
    /\ \A t \in Thread : at[t] = "release" => saved[handling[t]] = outcome[t]

GuardIInv == GuardTypeOK /\ GuardInv /\ AnswersAreTheSavedResult

\* Thread and process steps preserve the types of all variables of TurnGuard.
LEMMA GuardTypeStep == GuardTypeOK /\ [GuardNext]_guardVars => GuardTypeOK'
<1> SUFFICES ASSUME GuardTypeOK, [GuardNext]_guardVars PROVE GuardTypeOK'
  OBVIOUS
<1> USE DEF GuardTypeOK, PC, Result
<1>1. ASSUME NEW t \in Thread, NEW m \in Message, ProcessMessage(t, m) PROVE GuardTypeOK'
  BY <1>1 DEF ProcessMessage
<1>2. ASSUME NEW t \in Thread, GetMessage(t) PROVE GuardTypeOK'
  BY <1>2 DEF GetMessage
<1>3. ASSUME NEW t \in Thread, Greet(t) PROVE GuardTypeOK'
  BY <1>3 DEF Greet, Leave
<1>4. ASSUME NEW t \in Thread, Hold(t) PROVE GuardTypeOK'
  BY <1>4 DEF Hold, Conv
<1>5. ASSUME NEW t \in Thread, TurnBusy(t) PROVE GuardTypeOK'
  BY <1>5 DEF TurnBusy, Leave
<1>6. ASSUME NEW t \in Thread, HoldFails(t) PROVE GuardTypeOK'
  BY <1>6 DEF HoldFails, Leave, Unlocked
<1>7. ASSUME NEW t \in Thread, LoadSaved(t) PROVE GuardTypeOK'
  BY <1>7 DEF LoadSaved
<1>8. ASSUME NEW t \in Thread, StartTurn(t) PROVE GuardTypeOK'
  BY <1>8 DEF StartTurn
<1>9. ASSUME NEW t \in Thread, RunTurn(t) PROVE GuardTypeOK'
  BY <1>9 DEF RunTurn
<1>10. ASSUME NEW t \in Thread, Save(t) PROVE GuardTypeOK'
  BY <1>10 DEF Save
<1>11. ASSUME NEW t \in Thread, SaveFails(t) PROVE GuardTypeOK'
  BY <1>11 DEF SaveFails, Leave, Unlocked
<1>12. ASSUME NEW t \in Thread, Return(t) PROVE GuardTypeOK'
  BY <1>12 DEF Return, Leave, Unlocked
<1>13. ASSUME NEW a \in Agent, Crash(a) PROVE GuardTypeOK'
  BY <1>13 DEF Crash
<1>14. CASE UNCHANGED guardVars
  BY <1>14 DEF guardVars
<1> QED
  BY <1>1, <1>2, <1>3, <1>4, <1>5, <1>6, <1>7, <1>8, <1>9, <1>10, <1>11, <1>12, <1>13,
     <1>14 DEF GuardNext, Step

\* Every variable of the guard keeps its type.
THEOREM GuardTypeCorrect == GuardSpec => []GuardTypeOK
<1>1. GuardInit => GuardTypeOK
  BY DEF GuardInit, GuardTypeOK, PC, Result
<1> QED
  BY <1>1, GuardTypeStep, PTL DEF GuardSpec

\* No step of Next drops a connection: the lock is the thread's until it leaves, so no
\* other thread can save or start a Turn of its Conversation meanwhile.
LEMMA GuardStep == GuardIInv /\ [GuardNext]_guardVars => GuardInv'
<1> SUFFICES ASSUME GuardIInv, [GuardNext]_guardVars PROVE GuardInv'
  OBVIOUS
<1> USE DEF GuardIInv, GuardTypeOK, GuardInv, Inside, Conv, PC, Result
<1>1. ASSUME NEW t \in Thread, NEW m \in Message, ProcessMessage(t, m) PROVE GuardInv'
  BY <1>1 DEF ProcessMessage
<1>2. ASSUME NEW t \in Thread, GetMessage(t) PROVE GuardInv'
  BY <1>2 DEF GetMessage
<1>3. ASSUME NEW t \in Thread, Greet(t) PROVE GuardInv'
  BY <1>3 DEF Greet, Leave
<1>4. ASSUME NEW t \in Thread, Hold(t) PROVE GuardInv'
  BY <1>4 DEF Hold
<1>5. ASSUME NEW t \in Thread, TurnBusy(t) PROVE GuardInv'
  BY <1>5 DEF TurnBusy, Leave
<1>6. ASSUME NEW t \in Thread, HoldFails(t) PROVE GuardInv'
  BY <1>6 DEF HoldFails, Leave, Unlocked
<1>7. ASSUME NEW t \in Thread, LoadSaved(t) PROVE GuardInv'
  BY <1>7 DEF LoadSaved
<1>8. ASSUME NEW t \in Thread, StartTurn(t) PROVE GuardInv'
  BY <1>8 DEF StartTurn
<1>9. ASSUME NEW t \in Thread, RunTurn(t) PROVE GuardInv'
  BY <1>9 DEF RunTurn
<1>10. ASSUME NEW t \in Thread, Save(t) PROVE GuardInv'
  BY <1>10 DEF Save
<1>11. ASSUME NEW t \in Thread, SaveFails(t) PROVE GuardInv'
  BY <1>11 DEF SaveFails, Leave, Unlocked
<1>12. ASSUME NEW t \in Thread, Return(t) PROVE GuardInv'
  BY <1>12 DEF Return, Leave, Unlocked
<1>13. ASSUME NEW a \in Agent, Crash(a) PROVE GuardInv'
  BY <1>13 DEF Crash
<1>14. CASE UNCHANGED guardVars
  BY <1>14 DEF guardVars
<1> QED
  BY <1>1, <1>2, <1>3, <1>4, <1>5, <1>6, <1>7, <1>8, <1>9, <1>10, <1>11, <1>12, <1>13,
     <1>14 DEF GuardNext, Step

\* Only Save writes the store, and it writes rows that no answer was given for;
\* only Return gives an answer, and it gives the saved row.
LEMMA AnswerStep == GuardIInv /\ [GuardNext]_guardVars => AnswersAreTheSavedResult'
<1> SUFFICES ASSUME GuardIInv, [GuardNext]_guardVars PROVE AnswersAreTheSavedResult'
  OBVIOUS
<1> USE DEF GuardIInv, GuardTypeOK, GuardInv, AnswersAreTheSavedResult, Result, PC
<1>1. ASSUME NEW t \in Thread, NEW m \in Message, ProcessMessage(t, m) PROVE AnswersAreTheSavedResult'
  BY <1>1 DEF ProcessMessage
<1>2. ASSUME NEW t \in Thread, GetMessage(t) PROVE AnswersAreTheSavedResult'
  BY <1>2 DEF GetMessage
<1>3. ASSUME NEW t \in Thread, Greet(t) PROVE AnswersAreTheSavedResult'
  BY <1>3 DEF Greet, Leave
<1>4. ASSUME NEW t \in Thread, Hold(t) PROVE AnswersAreTheSavedResult'
  BY <1>4 DEF Hold
<1>5. ASSUME NEW t \in Thread, TurnBusy(t) PROVE AnswersAreTheSavedResult'
  BY <1>5 DEF TurnBusy, Leave
<1>6. ASSUME NEW t \in Thread, HoldFails(t) PROVE AnswersAreTheSavedResult'
  BY <1>6 DEF HoldFails, Leave, Unlocked
<1>7. ASSUME NEW t \in Thread, LoadSaved(t) PROVE AnswersAreTheSavedResult'
  BY <1>7 DEF LoadSaved
<1>8. ASSUME NEW t \in Thread, StartTurn(t) PROVE AnswersAreTheSavedResult'
  BY <1>8 DEF StartTurn
<1>9. ASSUME NEW t \in Thread, RunTurn(t) PROVE AnswersAreTheSavedResult'
  BY <1>9 DEF RunTurn
<1>10. ASSUME NEW t \in Thread, Save(t) PROVE AnswersAreTheSavedResult'
  BY <1>10 DEF Save
<1>11. ASSUME NEW t \in Thread, SaveFails(t) PROVE AnswersAreTheSavedResult'
  BY <1>11 DEF SaveFails, Leave, Unlocked
<1>12. ASSUME NEW t \in Thread, Return(t) PROVE AnswersAreTheSavedResult'
  BY <1>12 DEF Return, Leave, Unlocked
<1>13. ASSUME NEW a \in Agent, Crash(a) PROVE AnswersAreTheSavedResult'
  BY <1>13 DEF Crash
<1>14. CASE UNCHANGED guardVars
  BY <1>14 DEF guardVars
<1> QED
  BY <1>1, <1>2, <1>3, <1>4, <1>5, <1>6, <1>7, <1>8, <1>9, <1>10, <1>11, <1>12, <1>13,
     <1>14 DEF GuardNext, Step

\* The inductive invariant holds in every reachable state.
THEOREM GuardInductive == GuardSpec => []GuardIInv
<1>1. GuardInit => GuardIInv
  BY DEF GuardInit, GuardIInv, GuardTypeOK, GuardInv, Inside, AnswersAreTheSavedResult, PC, Result
<1>2. GuardIInv /\ [GuardNext]_guardVars => GuardIInv'
  BY GuardTypeStep, GuardStep, AnswerStep DEF GuardIInv
<1> QED
  BY <1>1, <1>2, PTL DEF GuardSpec

\* turn_guard.py's first promise: only one Turn at a time per Conversation.
THEOREM MutualExclusion == GuardSpec => []OneTurnPerConversation
<1>1. GuardIInv => OneTurnPerConversation
  BY DEF GuardIInv, GuardInv, Inside, OneTurnPerConversation
<1> QED
  BY <1>1, GuardInductive, PTL

\* turn_guard.py's second promise: every answer about a message is its saved
\* result, however often back asks and whatever crashes in between.
THEOREM FirstResult == GuardSpec => []AnswersAreTheSavedResult
<1>1. GuardIInv => AnswersAreTheSavedResult
  BY DEF GuardIInv
<1> QED
  BY <1>1, GuardInductive, PTL

\* The guard implements TurnOnce: Save decides, Return answers, and every other
\* step leaves the decided results and the answers alone.
THEOREM Refinement == GuardSpec => ImplementsTurnOnce
<1> SUFFICES GuardSpec => Promise!Spec
  BY DEF ImplementsTurnOnce
<1>1. GuardInit => Promise!Init
  BY DEF GuardInit, Promise!Init
<1>2. GuardIInv /\ [GuardNext]_guardVars => [Promise!Next]_<<saved, answered>>
  <2> SUFFICES ASSUME GuardIInv, [GuardNext]_guardVars PROVE [Promise!Next]_<<saved, answered>>
    OBVIOUS
  <2> USE DEF GuardIInv, GuardTypeOK, GuardInv
  <2>1. ASSUME NEW t \in Thread, Save(t) PROVE Promise!Decide(handling[t]) /\ handling[t] \in Message
    <3>1. handling[t] \in Message /\ outcome[t] \in Result /\ saved[handling[t]] = NoResult
      BY <2>1 DEF Save, PC
    <3> QED
      BY <2>1, <3>1 DEF Save, Promise!Decide
  <2>2. ASSUME NEW t \in Thread, Return(t) PROVE Promise!Answer(handling[t]) /\ handling[t] \in Message
    <3>1. handling[t] \in Message /\ outcome[t] # NoResult /\ saved[handling[t]] = outcome[t]
      BY <2>2 DEF Return, PC
    <3> QED
      BY <2>2, <3>1 DEF Return, Promise!Answer
  <2>3. ASSUME NEW t \in Thread, \/ Step(t) /\ ~Save(t) /\ ~Return(t)
                                 \/ HoldFails(t) \/ SaveFails(t)
                                 \/ \E m \in Message : ProcessMessage(t, m)
        PROVE UNCHANGED <<saved, answered>>
    BY <2>3 DEF Step, ProcessMessage, GetMessage, Greet, Hold, TurnBusy, HoldFails, LoadSaved,
                StartTurn, RunTurn, SaveFails
  <2>4. ASSUME \/ \E a \in Agent : Crash(a)
               \/ UNCHANGED guardVars
        PROVE UNCHANGED <<saved, answered>>
    BY <2>4 DEF Crash, guardVars
  <2> QED
    BY <2>1, <2>2, <2>3, <2>4 DEF GuardNext, Promise!Next
<1> QED
  BY <1>1, <1>2, GuardInductive, PTL DEF GuardSpec, Promise!Spec, Promise!vars

\* The account of Turns: every Turn of a message is saved, running, or lost.
TurnsAreAccountedFor ==
    \A m \in Message :
        /\ saved[m] # NoResult => turnsOf[m] = lost[m] + 1
        /\ \A t \in Thread : InTurn(t, m) => turnsOf[m] = lost[m] + 1
        /\ saved[m] = NoResult /\ (\A t \in Thread : ~InTurn(t, m)) => turnsOf[m] = lost[m]

\* Under the lock a Turn starts when no other Turn of the message is running or
\* saved, and a fault that ends it leaves no other behind.
LEMMA AccountStep == GuardIInv /\ TurnsAreAccountedFor /\ [GuardNext]_guardVars => TurnsAreAccountedFor'
<1> SUFFICES ASSUME GuardIInv, TurnsAreAccountedFor, [GuardNext]_guardVars PROVE TurnsAreAccountedFor'
  OBVIOUS
<1> USE DEF GuardIInv, GuardTypeOK, GuardInv, TurnsAreAccountedFor, InTurn, PC, Result
<1>1. ASSUME NEW t \in Thread, NEW m \in Message, ProcessMessage(t, m) PROVE TurnsAreAccountedFor'
  BY <1>1 DEF ProcessMessage
<1>2. ASSUME NEW t \in Thread, GetMessage(t) PROVE TurnsAreAccountedFor'
  BY <1>2 DEF GetMessage
<1>3. ASSUME NEW t \in Thread, Greet(t) PROVE TurnsAreAccountedFor'
  BY <1>3 DEF Greet, Leave
<1>4. ASSUME NEW t \in Thread, Hold(t) PROVE TurnsAreAccountedFor'
  BY <1>4 DEF Hold
<1>5. ASSUME NEW t \in Thread, TurnBusy(t) PROVE TurnsAreAccountedFor'
  BY <1>5 DEF TurnBusy, Leave
<1>6. ASSUME NEW t \in Thread, HoldFails(t) PROVE TurnsAreAccountedFor'
  BY <1>6 DEF HoldFails, Leave
<1>7. ASSUME NEW t \in Thread, LoadSaved(t) PROVE TurnsAreAccountedFor'
  BY <1>7 DEF LoadSaved
<1>8. ASSUME NEW t \in Thread, StartTurn(t) PROVE TurnsAreAccountedFor'
  BY <1>8 DEF StartTurn, Inside, Conv
<1>9. ASSUME NEW t \in Thread, RunTurn(t) PROVE TurnsAreAccountedFor'
  BY <1>9 DEF RunTurn
<1>10. ASSUME NEW t \in Thread, Save(t) PROVE TurnsAreAccountedFor'
  BY <1>10 DEF Save
<1>11. ASSUME NEW t \in Thread, SaveFails(t) PROVE TurnsAreAccountedFor'
  BY <1>11 DEF SaveFails, Leave, Inside, Conv
<1>12. ASSUME NEW t \in Thread, Return(t) PROVE TurnsAreAccountedFor'
  BY <1>12 DEF Return, Leave
<1>13. ASSUME NEW a \in Agent, Crash(a) PROVE TurnsAreAccountedFor'
  BY <1>13 DEF Crash, Inside, Conv
<1>14. CASE UNCHANGED guardVars
  BY <1>14 DEF guardVars
<1> QED
  BY <1>1, <1>2, <1>3, <1>4, <1>5, <1>6, <1>7, <1>8, <1>9, <1>10, <1>11, <1>12, <1>13,
     <1>14 DEF GuardNext, Step

\* turn_guard.py: "not a second run".  A message gets a further Turn only for
\* each Turn a fault cut short, and none once its result is saved.
THEOREM TurnsOnlyAfterFaults == GuardSpec => []NoNeedlessTurn
<1>1. GuardInit => TurnsAreAccountedFor
  BY DEF GuardInit, TurnsAreAccountedFor, InTurn
<1>2. GuardIInv /\ TurnsAreAccountedFor => NoNeedlessTurn
  <2> SUFFICES ASSUME GuardIInv, TurnsAreAccountedFor, NEW m \in Message
               PROVE turnsOf[m] <= lost[m] + 1 /\ (saved[m] # NoResult => turnsOf[m] = lost[m] + 1)
    BY DEF NoNeedlessTurn
  <2>1. turnsOf[m] \in Nat /\ lost[m] \in Nat
    BY DEF GuardIInv, GuardTypeOK
  <2>2. turnsOf[m] = lost[m] \/ turnsOf[m] = lost[m] + 1
    BY DEF TurnsAreAccountedFor, InTurn
  <2> QED
    BY <2>1, <2>2 DEF TurnsAreAccountedFor, InTurn
<1> QED
  BY <1>1, <1>2, AccountStep, GuardInductive, PTL DEF GuardSpec
=============================================================================
