-------------------------- MODULE SessionLifecycle --------------------------
(***************************************************************************)
(* One WhatsApp session of the OpenWA bridge: SessionService and the       *)
(* whatsapp-web.js adapter (OpenWA/src/modules/session/session.service.ts, *)
(* engine/adapters/whatsapp-web-js.adapter.ts).                            *)
(*                                                                         *)
(* start, stop, forceKill, delete and the reconnect timer are operations   *)
(* that await the database, the engine's initialize() and its teardown;    *)
(* each await ends a step.  The map this.engines says which engine is live *)
(* and is the only thing the callbacks of an engine look at.  Status       *)
(* updates reach the database in the order they are issued.                *)
(***************************************************************************)
EXTENDS Naturals

CONSTANTS
    Op,            \* operations that can run at once
    MaxEngines,    \* bound: engine instances that can be created
    None,          \* no engine, no reconnect state
    MaxReconnects, \* maxAttempts of the session's reconnect configuration
    MaxRequests,   \* bound: start, stop, forceKill and delete requests
    MaxDrops,      \* bound: disconnects reported by WhatsApp
    MaxFaults      \* bound: failing launches, logins and removals, restarts

ASSUME BoundAssumption == {MaxEngines, MaxReconnects, MaxRequests, MaxDrops, MaxFaults} \subseteq Nat

\* Engine instances, in the order engineFactory makes them.
Engine == 1 .. MaxEngines
ASSUME NoneAssumption == None \notin Engine

VARIABLES
    row,       \* status column of the session, "GONE" once the row is removed
    live,      \* this.engines.get(id)
    stopping,  \* this.stoppingSessions.has(id)
    starting,  \* this.initializingSessions.has(id)
    rec,       \* this.reconnectStates.get(id)
    stray,     \* is a timer of a replaced reconnect state still running?
    op,        \* op[o]: what operation o does, where it stands, the engine it handles
    client,    \* client[e]: the browser client of engine e
    est,       \* est[e]: this.status of the adapter
    tearing,   \* engines whose teardown has begun
    overtaken, \* history: did a teardown end after another engine had taken the slot?
    strayed,   \* history: engines launched out of the map, or that lost their place
               \* in it to another's teardown or start
    lateReady, \* history: is the row's READY the word of an engine in teardown?
    requests, drops, faults

tableVars == <<live, stopping, starting, rec, stray>>
engineVars == <<client, est, tearing>>
histVars == <<overtaken, strayed, lateReady>>
boundVars == <<requests, drops, faults>>
vars == <<row, tableVars, op, engineVars, histVars, boundVars>>

EngineStatus == {"DISCONNECTED", "INITIALIZING", "QR_READY", "AUTHENTICATING", "READY", "FAILED"}
ClientState == {"unborn", "none", "opening", "open", "failed", "closed"}
Kind == {"start", "stop", "delete", "reconnect"}
PC == {"hook", "write", "init", "undo", "down", "old", "remove"}
Idle == [kind |-> None, pc |-> "idle", eng |-> None]
Reconnect == [attempts : 0 .. MaxReconnects, timer : BOOLEAN]

Init ==
    /\ row = "DISCONNECTED"
    /\ live = None
    /\ stopping = FALSE
    /\ starting = FALSE
    /\ rec = None
    /\ stray = FALSE
    /\ op = [o \in Op |-> Idle]
    /\ client = [e \in Engine |-> "unborn"]
    /\ est = [e \in Engine |-> "DISCONNECTED"]
    /\ tearing = {}
    /\ overtaken = FALSE /\ strayed = {} /\ lateReady = FALSE
    /\ requests = 0 /\ drops = 0 /\ faults = 0

-----------------------------------------------------------------------------
\* An UPDATE of the row; it touches nothing once the row is removed.
Written(s) == IF row = "GONE" THEN row ELSE s

\* Mutant of Heard: no look at the map, every engine's callbacks count.
HeardAnyway(e) == TRUE

\* isLiveEngine: the callbacks of any other engine do nothing.
Heard(e) == live = e

\* setStatus: the adapter's own status, and the row through onStateChanged.
SetStatus(e, s) ==
    /\ est' = [est EXCEPT ![e] = s]
    /\ row' = IF Heard(e) THEN Written(s) ELSE row

Request ==
    /\ row # "GONE"
    /\ requests < MaxRequests
    /\ requests' = requests + 1

Fault ==
    /\ faults < MaxFaults
    /\ faults' = faults + 1

HasClient(e) == client[e] \in {"opening", "open", "failed"}

\* There is a live engine and its teardown has a client to wait for; that of an
\* engine without one is over in the same tick.
MustWait == live # None /\ HasClient(live)

\* beginClientTeardown for the live engine, awaited by operation o.
BeginTeardown(o, k, l) ==
    /\ tearing' = tearing \cup {live}
    /\ SetStatus(live, "DISCONNECTED")
    /\ op' = [op EXCEPT ![o] = [kind |-> k, pc |-> l, eng |-> live]]

\* What is in the map besides e loses its place there, and nobody tears it down.
Strays(e) == strayed' = strayed \cup ({live} \ {e, None})

\* The teardown of e is over, and another engine may have taken the slot by now.
Overtake(e) ==
    /\ overtaken' = (overtaken \/ live \notin {e, None})
    /\ Strays(e)
    /\ UNCHANGED lateReady

\* initializeEngine up to its first await: a new engine takes the slot.
Register(o, k) ==
    \E e \in Engine :
        /\ \A f \in Engine : client[f] = "unborn" <=> f >= e
        /\ client' = [client EXCEPT ![e] = "none"]
        /\ live' = e
        /\ op' = [op EXCEPT ![o] = [kind |-> k, pc |-> "write", eng |-> e]]
        /\ row' = Written("INITIALIZING")

\* What scheduleReconnect makes of the reconnect state, and of the status s the
\* engine has just reported.
Scheduled ==
    IF rec = None \/ rec.attempts >= MaxReconnects THEN rec
    ELSE [attempts |-> rec.attempts + 1, timer |-> TRUE]
AfterSchedule(s) ==
    IF rec # None /\ rec.attempts >= MaxReconnects THEN "FAILED" ELSE s

Goto(o, l) == op' = [op EXCEPT ![o].pc = l]
Finish(o) == op' = [op EXCEPT ![o] = Idle]

-----------------------------------------------------------------------------
(* start() *)

\* Only an id that has no engine and is not starting passes the checks; the
\* reservation and the stop mark change in the same tick.
Start(o) ==
    /\ op[o] = Idle
    /\ Request
    /\ live = None /\ ~starting
    /\ starting' = TRUE
    /\ stopping' = FALSE
    /\ op' = [op EXCEPT ![o] = [kind |-> "start", pc |-> "hook", eng |-> None]]
    /\ UNCHANGED <<row, live, rec, stray, engineVars, drops, faults, histVars>>

\* The session:starting hook is through: a fresh reconnect state replaces the
\* old one (whose timer is not cleared), and the engine is made.
StartEngine(o) ==
    /\ op[o].pc = "hook"
    /\ stray' = (stray \/ (rec # None /\ rec.timer))
    /\ rec' = [attempts |-> 0, timer |-> FALSE]
    /\ Register(o, "start")
    /\ Strays(None)
    /\ UNCHANGED <<stopping, starting, est, tearing, overtaken, lateReady, boundVars>>

\* INITIALIZING is written; engine.initialize() begins.
Launch(o) ==
    /\ op[o].pc = "write"
    /\ Goto(o, "init")
    /\ client' = [client EXCEPT ![op[o].eng] = "opening"]
    /\ SetStatus(op[o].eng, "INITIALIZING")
    /\ strayed' = IF live = op[o].eng THEN strayed ELSE strayed \cup {op[o].eng}
    /\ UNCHANGED <<tableVars, tearing, overtaken, lateReady, boundVars>>

\* initialize() throws, by itself or because its client was closed meanwhile.
\* onError ends all reconnecting if the engine is live.  start() passes the error
\* on and frees its reservation; a reconnect schedules the next one.  The engine
\* stays in the map.
LaunchFails(o) ==
    LET e == op[o].eng IN
    /\ op[o].pc = "init"
    /\ \/ client[e] = "opening" /\ Fault /\ client' = [client EXCEPT ![e] = "failed"]
       \/ client[e] = "closed" /\ UNCHANGED <<faults, client>>
    /\ est' = [est EXCEPT ![e] = "FAILED"]
    /\ row' = IF Heard(e) THEN Written("FAILED")
              ELSE IF op[o].kind = "reconnect" THEN Written(AfterSchedule(row)) ELSE row
    /\ rec' = IF Heard(e) THEN None ELSE IF op[o].kind = "reconnect" THEN Scheduled ELSE rec
    /\ starting' = (starting /\ op[o].kind # "start")
    /\ Finish(o)
    /\ UNCHANGED <<live, stopping, stray, tearing, requests, drops, histVars>>

\* Mutant of LaunchDone: no second look at the stop mark after initialize().
LaunchDoneUnguarded(o) ==
    /\ op[o].pc = "init"
    /\ client[op[o].eng] = "opening"
    /\ client' = [client EXCEPT ![op[o].eng] = "open"]
    /\ starting' = (starting /\ op[o].kind # "start")
    /\ Finish(o)
    /\ UNCHANGED <<row, est, tearing, live, stopping, rec, stray, histVars, boundVars>>

\* initialize() is through.  A stop that landed meanwhile takes the engine in the
\* map down again.
LaunchDone(o) ==
    /\ op[o].pc = "init"
    /\ client[op[o].eng] = "opening"
    /\ client' = [client EXCEPT ![op[o].eng] = "open"]
    /\ IF stopping /\ MustWait
       THEN BeginTeardown(o, op[o].kind, "undo") /\ UNCHANGED <<live, starting>>
       ELSE /\ live' = IF stopping THEN None ELSE live
            /\ starting' = (starting /\ op[o].kind # "start")
            /\ Finish(o)
            /\ UNCHANGED <<row, est, tearing>>
    /\ UNCHANGED <<stopping, rec, stray, histVars, boundVars>>

-----------------------------------------------------------------------------
(* stop(), forceKill() and delete() *)

Cancelled ==
    /\ stopping' = TRUE
    /\ rec' = None

Stop(o) ==
    /\ op[o] = Idle
    /\ Request
    /\ Cancelled
    /\ IF MustWait
       THEN BeginTeardown(o, "stop", "down") /\ UNCHANGED live
       ELSE live' = None /\ row' = "DISCONNECTED" /\ UNCHANGED <<op, est, tearing>>
    /\ UNCHANGED <<starting, stray, client, drops, faults, histVars>>

Delete(o) ==
    /\ op[o] = Idle
    /\ Request
    /\ Cancelled
    /\ IF MustWait
       THEN BeginTeardown(o, "delete", "down") /\ UNCHANGED live
       ELSE /\ live' = None
            /\ op' = [op EXCEPT ![o] = [kind |-> "delete", pc |-> "remove", eng |-> None]]
            /\ UNCHANGED <<row, est, tearing>>
    /\ UNCHANGED <<starting, stray, client, drops, faults, histVars>>

\* The row goes, or the transaction fails; the stop mark goes in both cases.
Remove(o) ==
    /\ op[o].pc = "remove"
    /\ \/ row' = "GONE" /\ UNCHANGED faults
       \/ Fault /\ UNCHANGED row
    /\ stopping' = FALSE
    /\ Finish(o)
    /\ UNCHANGED <<live, starting, rec, stray, engineVars, requests, drops, histVars>>

\* Mutant of TeardownOver: a raw await of destroy(), without the ten seconds.
TeardownAwaited(e) == ~HasClient(e)

\* teardownEngineSafely resolves, closed client or not: after ten seconds at most.
TeardownOver(e) == TRUE

\* Whatever is in the map when the teardown is over leaves it.
TornDown(o) ==
    /\ op[o].pc \in {"undo", "down"}
    /\ TeardownOver(op[o].eng)
    /\ live' = None
    /\ Overtake(op[o].eng)
    /\ row' = IF op[o].kind = "stop" THEN Written("DISCONNECTED") ELSE row
    /\ IF op[o].kind = "delete" THEN Goto(o, "remove") ELSE Finish(o)
    /\ starting' = (starting /\ op[o].kind # "start")
    /\ UNCHANGED <<stopping, rec, stray, engineVars, boundVars>>

-----------------------------------------------------------------------------
(* The reconnect timer and executeReconnect() *)

TimerFires(o) ==
    /\ op[o] = Idle
    /\ \/ stray /\ stray' = FALSE /\ UNCHANGED rec
       \/ rec # None /\ rec.timer /\ rec' = [rec EXCEPT !.timer = FALSE] /\ UNCHANGED stray
    /\ \/ stopping /\ UNCHANGED <<row, live, op, engineVars>>
       \/ ~stopping /\ MustWait /\ BeginTeardown(o, "reconnect", "old") /\ UNCHANGED <<live, client>>
       \/ ~stopping /\ ~MustWait /\ Register(o, "reconnect") /\ UNCHANGED <<est, tearing>>
    /\ UNCHANGED <<stopping, starting, histVars, boundVars>>

\* The old engine is down (or given up on): the next one takes its place.
Replace(o) ==
    /\ op[o].pc = "old"
    /\ TeardownOver(op[o].eng)
    /\ Overtake(op[o].eng)
    /\ Register(o, "reconnect")
    /\ UNCHANGED <<stopping, starting, rec, stray, est, tearing, boundVars>>

-----------------------------------------------------------------------------
(* The browser client of an engine.  It goes on reporting while destroy() is  *)
(* awaited, and for ever when destroy() hangs; only the authenticated event  *)
(* asks whether the adapter is in teardown.                                  *)

Up(e) == client[e] \in {"opening", "open"}

Qr(e) ==
    /\ Up(e)
    /\ est[e] \in {"INITIALIZING", "DISCONNECTED"}
    /\ SetStatus(e, "QR_READY")
    /\ UNCHANGED <<tableVars, op, client, tearing, histVars, boundVars>>

Authenticated(e) ==
    /\ Up(e) /\ e \notin tearing
    /\ est[e] \notin {"AUTHENTICATING", "READY", "FAILED"}
    /\ SetStatus(e, "AUTHENTICATING")
    /\ UNCHANGED <<tableVars, op, client, tearing, histVars, boundVars>>

\* The ready event, or the reconcile probe that found it was missed.  The status
\* is all it looks at: after a late QR code it gets through in a teardown too.
Ready(e) ==
    /\ Up(e)
    /\ est[e] \notin {"READY", "DISCONNECTED", "FAILED"}
    /\ SetStatus(e, "READY")
    /\ rec' = IF Heard(e) /\ rec # None THEN [rec EXCEPT !.attempts = 0] ELSE rec
    /\ lateReady' = IF Heard(e) THEN live = e /\ e \in tearing ELSE lateReady
    /\ UNCHANGED <<live, stopping, starting, stray, op, client, tearing, overtaken, strayed, boundVars>>

\* The disconnected event, or a login that hung and was wiped (the client goes).
Disconnected(e) ==
    /\ Up(e)
    /\ drops < MaxDrops
    /\ drops' = drops + 1
    /\ \/ UNCHANGED client
       \/ est[e] = "AUTHENTICATING" /\ client' = [client EXCEPT ![e] = "closed"]
    /\ est' = [est EXCEPT ![e] = "DISCONNECTED"]
    /\ rec' = IF Heard(e) THEN Scheduled ELSE rec
    /\ row' = IF Heard(e) THEN Written(AfterSchedule("DISCONNECTED")) ELSE row
    /\ UNCHANGED <<live, stopping, starting, stray, op, tearing, requests, faults, histVars>>

\* auth_failure: terminal, so a pending reconnect is cancelled.
AuthFailure(e) ==
    /\ Up(e)
    /\ Fault
    /\ SetStatus(e, "FAILED")
    /\ rec' = IF Heard(e) THEN None ELSE rec
    /\ UNCHANGED <<live, stopping, starting, stray, op, client, tearing, requests, drops, histVars>>

\* destroy() got through to the browser; it may also hang for good.
ClientCloses(e) ==
    /\ e \in tearing /\ HasClient(e)
    /\ client' = [client EXCEPT ![e] = "closed"]
    /\ UNCHANGED <<row, tableVars, op, est, tearing, histVars, boundVars>>

\* The bridge restarts.  Engines, tables and timers are gone, and onModuleInit
\* resets the rows that claim a running engine.
Restart ==
    /\ Fault
    /\ row' = IF row \in {"READY", "INITIALIZING", "QR_READY", "AUTHENTICATING"} THEN "DISCONNECTED" ELSE row
    /\ live' = None
    /\ stopping' = FALSE
    /\ starting' = FALSE
    /\ rec' = None
    /\ stray' = FALSE
    /\ op' = [o \in Op |-> Idle]
    /\ client' = [e \in Engine |-> IF client[e] = "unborn" THEN "unborn" ELSE "closed"]
    /\ UNCHANGED <<est, tearing, requests, drops, histVars>>

-----------------------------------------------------------------------------
Continue(o) ==
    \/ StartEngine(o) \/ Launch(o) \/ LaunchDone(o) \/ LaunchFails(o)
    \/ Remove(o) \/ TornDown(o) \/ Replace(o)

ClientStep(e) ==
    \/ Qr(e) \/ Authenticated(e) \/ Ready(e) \/ Disconnected(e) \/ AuthFailure(e) \/ ClientCloses(e)

Next ==
    \/ \E o \in Op : Start(o) \/ Stop(o) \/ Delete(o) \/ TimerFires(o) \/ Continue(o)
    \/ \E e \in Engine : ClientStep(e)
    \/ Restart

Spec == Init /\ [][Next]_vars

\* What the service awaits is answered, and its timers fire.  Requests, the
\* client and faults are not fair: a browser may hang in destroy() for good.
FairSpec ==
    /\ Spec
    /\ \A o \in Op : WF_vars(Continue(o))
    /\ WF_vars(\E o \in Op : TimerFires(o))

-----------------------------------------------------------------------------
\* The variables have their types.
TypeOK ==
    /\ row \in EngineStatus \cup {"GONE"}
    /\ live \in Engine \cup {None}
    /\ {stopping, starting, stray, overtaken, lateReady} \subseteq BOOLEAN
    /\ rec \in Reconnect \cup {None}
    /\ \A o \in Op : op[o] = Idle \/ op[o] \in [kind : Kind, pc : PC, eng : Engine \cup {None}]
    /\ client \in [Engine -> ClientState]
    /\ est \in [Engine -> EngineStatus]
    /\ tearing \subseteq Engine /\ strayed \subseteq Engine
    /\ live # None => client[live] # "unborn"
    /\ {requests, drops, faults} \subseteq Nat

\* session.service.ts, isLiveEngine: a late callback of a superseded engine must
\* not change a session that belongs to another engine or to none.  A session
\* that says READY has a live engine, and that engine is ready, unless
\* another engine's teardown took it out of the map (overtaken) or the engine said
\* so when its own teardown had begun (lateReady): a QR code drawn late lifts its
\* DISCONNECTED, and the ready event after it is not refused.
ReadyMeansLive ==
    row = "READY" /\ ~overtaken /\ ~lateReady => live # None /\ est[live] = "READY"

Quiet == \A o \in Op : op[o] = Idle

\* stop(): the mark is set "so an in-flight reconnect can't resurrect it".  When
\* everything in flight has ended and the stop was the last word, no engine runs,
\* in the map or out of it, that is not being torn down, however start, stop and
\* reconnect overlapped; only those that had lost their place in the map before
\* they were launched or torn down (strayed).  A stop between the registration of an
\* engine and its launch makes one: the second look at the mark finds the map empty.
StopWins ==
    Quiet /\ stopping => \A e \in Engine : Up(e) => e \in tearing \cup strayed

\* executeReconnect(): a hung teardown must not stall the reconnect.  A dropped
\* session with a reconnect scheduled moves on, unless the reconnect is called
\* off: by stop, delete or a restart.
DropIsFollowedUp ==
    (row = "DISCONNECTED" /\ rec # None /\ rec.timer) ~> (row # "DISCONNECTED" \/ rec = None \/ stopping)
=============================================================================
