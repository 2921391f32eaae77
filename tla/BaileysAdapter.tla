----------------------------- MODULE BaileysAdapter -----------------------------
(***************************************************************************)
(* The second WhatsApp engine of OpenWA: the life of its socket with the   *)
(* adapter's own reconnects, the gate inbound messages pass, and the store *)
(* of recent messages that replies, forwards and reactions look up.        *)
(*                                                                         *)
(* The adapter is one event loop: an action is what runs between two       *)
(* awaits.  SessionLifecycle models who calls it; here one adapter is      *)
(* initialized once and stopped or logged out at any moment, before        *)
(* initialize() included: the service registers an engine, awaits the      *)
(* database, and initializes it.                                           *)
(***************************************************************************)
EXTENDS Naturals, Sequences, FiniteSets

CONSTANTS
    In, Out,         \* messages of others, messages sent through the API
    MaxSlots,        \* ConcurrencyLimiter.max
    Limit,           \* BAILEYS_MESSAGE_STORE_LIMIT
    MaxReconnects,   \* MAX_RECONNECT_ATTEMPTS
    MaxDrops,        \* bound: closed connections and rendered QR codes
    MaxFaults        \* bound: steps that throw

ASSUME AdapterAssumption ==
    /\ In \cap Out = {} /\ IsFiniteSet(In) /\ IsFiniteSet(Out)
    /\ MaxSlots \in Nat \ {0} /\ Limit \in Nat \ {0}
    /\ {MaxReconnects, MaxDrops, MaxFaults} \subseteq Nat

VARIABLES
    begun,                  \* was initialize() called?
    status, sock,           \* this.status; this.sock, 0 for null
    conn, wired,            \* the connection of each socket; sockets with our listeners
    closing, connecting,    \* intentionalClose, and a connectInner that awaits
    timer, attempts,        \* reconnectTimer, reconnectAttempts
    leaving,                \* where logout awaits
    qr,                     \* a QR code is being rendered
    reached, waiting, woken, running, active,   \* the inbound gate
    sent,                   \* messages the API sent
    store, clock, puts, cut, \* createdAt of the stored rows; puts under way, their cutoff
    last,                   \* ghost: the last put of each message
    drops, faults

socketVars == <<begun, status, sock, conn, wired, closing, connecting, timer, attempts, leaving, qr>>
gateVars == <<reached, waiting, woken, running, active>>
storeVars == <<store, clock, puts, cut, last>>
vars == <<socketVars, gateVars, sent, storeVars, drops, faults>>

Msg == In \cup Out
Sock == 1 .. MaxDrops + 1
EngineStatus == {"DISCONNECTED", "INITIALIZING", "QR_READY", "READY", "FAILED"}
Put == Msg \X {"sent", "echo"}
MaxClock == 2 * Cardinality(Msg)

Init ==
    /\ begun = FALSE /\ status = "DISCONNECTED" /\ sock = 0
    /\ conn = [s \in Sock |-> "none"] /\ wired = {}
    /\ closing = FALSE /\ connecting = FALSE
    /\ timer = FALSE /\ attempts = 0 /\ leaving = "no"
    /\ qr = FALSE
    /\ reached = {} /\ waiting = <<>> /\ woken = {} /\ running = {} /\ active = 0
    /\ sent = {}
    /\ store = [m \in Msg |-> 0] /\ clock = 0
    /\ puts = [p \in Put |-> "none"] /\ cut = [p \in Put |-> 0] /\ last = [m \in Msg |-> 0]
    /\ drops = 0 /\ faults = 0

Event == drops < MaxDrops /\ drops' = drops + 1 /\ UNCHANGED faults
Fault == faults < MaxFaults /\ faults' = faults + 1 /\ UNCHANGED drops
NoFault == UNCHANGED <<drops, faults>>

Alive(s) == conn[s] \in {"up", "open"}
Ended == IF sock = 0 THEN conn ELSE [conn EXCEPT ![sock] = "closed"]

-------------------------------------------------------------------------------
(* The socket. *)

\* connect: of initialize, or of the reconnect timer.
Connect == connecting' = TRUE /\ status' = "INITIALIZING"

\* initialize: the mark of a stop that came before it is taken off.
Initialize ==
    /\ ~begun
    /\ begun' = TRUE
    /\ closing' = FALSE
    /\ Connect
    /\ NoFault
    /\ UNCHANGED <<sock, conn, wired, timer, attempts, leaving, qr, gateVars, sent, storeVars>>

\* Mutant: the stop that ran during the awaits is not looked at.
MayOpenAlways == TRUE

\* The resurrect-after-stop guard behind the awaits of connectInner.
MayOpen == ~closing

\* The previous socket's listeners are taken off before the new one is made.
Unwired == wired \ {sock}

\* The awaits of connectInner are over; a new socket reports "connecting" at once.
ConnectInner ==
    /\ connecting
    /\ connecting' = FALSE
    /\ IF MayOpen
       THEN LET n == CHOOSE s \in Sock : conn[s] = "none" /\ \A t \in 1 .. s - 1 : conn[t] # "none"
            IN /\ sock' = n
               /\ conn' = [Ended EXCEPT ![n] = "up"]
               /\ wired' = Unwired \cup {n}
               /\ status' = "INITIALIZING"
       ELSE UNCHANGED <<sock, conn, wired, status>>
    /\ NoFault
    /\ UNCHANGED <<begun, closing, timer, attempts, leaving, qr, gateVars, sent, storeVars>>

\* Loading the credentials or the version throws.
ConnectFails ==
    /\ connecting
    /\ Fault
    /\ connecting' = FALSE /\ status' = "FAILED"
    /\ UNCHANGED <<begun, sock, conn, wired, closing, timer, attempts, leaving, qr, gateVars, sent, storeVars>>

\* connection.update with a QR code: it is rendered first, and published after.
Qr ==
    /\ sock # 0 /\ conn[sock] = "up" /\ ~qr
    /\ Event
    /\ qr' = TRUE
    /\ UNCHANGED <<begun, status, sock, conn, wired, closing, connecting, timer, attempts, leaving,
                   gateVars, sent, storeVars>>

QrRendered ==
    /\ qr
    /\ qr' = FALSE /\ status' = "QR_READY"
    /\ NoFault
    /\ UNCHANGED <<begun, sock, conn, wired, closing, connecting, timer, attempts, leaving, gateVars, sent, storeVars>>

\* The status an opened connection sets.
Opened == "READY"

\* connection.update "open".
Open(s) ==
    /\ s \in wired /\ conn[s] = "up"
    /\ conn' = [conn EXCEPT ![s] = "open"]
    /\ attempts' = 0 /\ status' = Opened
    /\ NoFault
    /\ UNCHANGED <<begun, sock, wired, closing, connecting, timer, leaving, qr, gateVars, sent, storeVars>>

\* The reconnect attempts are exhausted.
GivenUp == attempts >= MaxReconnects

\* connection.update "close" of a connection that was lost: stopped on purpose,
\* logged out, given up, or tried again after the backoff.  The status stays
\* what it was until the timer fires.
Close(s, loggedOut) ==
    /\ s \in wired /\ Alive(s)
    /\ Event
    /\ conn' = [conn EXCEPT ![s] = "closed"]
    /\ CASE closing -> status' = "DISCONNECTED" /\ UNCHANGED <<sock, attempts, timer>>
         [] ~closing /\ loggedOut -> status' = "DISCONNECTED" /\ sock' = 0 /\ UNCHANGED <<attempts, timer>>
         [] ~closing /\ ~loggedOut /\ GivenUp ->
                status' = "FAILED" /\ UNCHANGED <<sock, attempts, timer>>
         [] OTHER -> attempts' = attempts + 1 /\ timer' = TRUE /\ UNCHANGED <<status, sock>>
    /\ UNCHANGED <<begun, wired, closing, connecting, leaving, qr, gateVars, sent, storeVars>>

\* The callback of a pending timer.
Fired == timer

ReconnectTimer ==
    /\ Fired
    /\ timer' = FALSE
    /\ IF closing \/ connecting THEN UNCHANGED <<connecting, status>> ELSE Connect
    /\ NoFault
    /\ UNCHANGED <<begun, sock, conn, wired, closing, attempts, leaving, qr, gateVars, sent, storeVars>>

\* disconnect, destroy and forceDestroy.
Disconnect ==
    /\ closing' = TRUE /\ timer' = FALSE
    /\ conn' = Ended /\ sock' = 0 /\ status' = "DISCONNECTED"
    /\ NoFault
    /\ UNCHANGED <<begun, wired, connecting, attempts, leaving, qr, gateVars, sent, storeVars>>

\* logout awaits the socket, if there is one, then the store, then the files of the
\* credentials.
Logout ==
    /\ leaving = "no"
    /\ closing' = TRUE /\ timer' = FALSE
    /\ IF sock = 0 THEN leaving' = "store" /\ status' = "DISCONNECTED"
       ELSE leaving' = "socket" /\ UNCHANGED status
    /\ NoFault
    /\ UNCHANGED <<begun, sock, conn, wired, connecting, attempts, qr, gateVars, sent, storeVars>>

LogoutEnds ==
    /\ leaving = "socket"
    /\ leaving' = "store"
    /\ conn' = Ended /\ sock' = 0 /\ status' = "DISCONNECTED"
    /\ NoFault
    /\ UNCHANGED <<begun, wired, closing, connecting, timer, attempts, qr, gateVars, sent, storeVars>>

ClearSession ==
    /\ leaving = "store"
    /\ leaving' = "no"
    /\ store' = [m \in Msg |-> 0] /\ last' = [m \in Msg |-> 0]
    /\ NoFault
    /\ UNCHANGED <<begun, status, sock, conn, wired, closing, connecting, timer, attempts, qr,
                   gateVars, sent, clock, puts, cut>>

-------------------------------------------------------------------------------
(* Messages. *)

\* put of the message store: the row gets a new createdAt, then the oldest go.
StartPut(p) == puts' = [puts EXCEPT ![p] = "write"]

\* sendTextMessage, sendContent and the other sends: ensureReady, the socket,
\* and the row, not awaited.
Send(m) ==
    /\ m \notin sent
    /\ status = "READY" /\ sock # 0 /\ conn[sock] = "open"
    /\ sent' = sent \cup {m}
    /\ StartPut(<<m, "sent">>)
    /\ NoFault
    /\ UNCHANGED <<socketVars, gateVars, store, clock, cut, last>>

\* messages.upsert: ConcurrencyLimiter.run takes a slot or waits.
Arrive(m) ==
    /\ m \notin reached /\ m \in In \cup sent
    /\ \E s \in wired : conn[s] = "open"
    /\ reached' = reached \cup {m}
    /\ IF active < MaxSlots
       THEN active' = active + 1 /\ running' = running \cup {m} /\ UNCHANGED waiting
       ELSE waiting' = Append(waiting, m) /\ UNCHANGED <<active, running>>
    /\ NoFault
    /\ UNCHANGED <<socketVars, woken, sent, storeVars>>

\* Mutant: the slot is given back although a waiter takes it.
SlotsReleased == active - 1

\* The slot passes to the next waiter, or is given back.
SlotsAfter == IF waiting = <<>> THEN active - 1 ELSE active

\* processInboundMessage ends: with a put, or, for a revoke, a reaction or an
\* error, without one.
Processed(m) ==
    /\ m \in running
    /\ StartPut(<<m, "echo">>) \/ UNCHANGED puts
    /\ NoFault
    /\ running' = running \ {m}
    /\ active' = SlotsAfter
    /\ IF waiting = <<>> THEN UNCHANGED <<waiting, woken>>
       ELSE waiting' = Tail(waiting) /\ woken' = woken \cup {Head(waiting)}
    /\ UNCHANGED <<socketVars, reached, sent, store, clock, cut, last>>

\* The promise of the waiter resolves in a later turn of the event loop.
Wake(m) ==
    /\ m \in woken
    /\ woken' = woken \ {m} /\ running' = running \cup {m}
    /\ NoFault
    /\ UNCHANGED <<socketVars, reached, waiting, active, sent, storeVars>>

\* repo.upsert.
Write(p) ==
    /\ puts[p] = "write"
    /\ clock' = clock + 1
    /\ store' = [store EXCEPT ![p[1]] = clock + 1]
    /\ last' = [last EXCEPT ![p[1]] = clock + 1]
    /\ puts' = [puts EXCEPT ![p] = "find"]
    /\ NoFault
    /\ UNCHANGED <<socketVars, gateVars, sent, cut>>

Stored == {m \in Msg : store[m] > 0}
Newer(m) == {n \in Stored : store[n] > store[m]}

\* Mutant: one row too few is skipped.
IsCutoffEarly(m) == m \in Stored /\ Cardinality(Newer(m)) = Limit - 1

\* The row behind the newest Limit ones.
IsCutoff(m) == m \in Stored /\ Cardinality(Newer(m)) = Limit

\* enforceLimit looks the cutoff up ...
FindCutoff(p) ==
    /\ puts[p] = "find"
    /\ \/ \E m \in Msg :
              IsCutoff(m) /\ cut' = [cut EXCEPT ![p] = store[m]] /\ puts' = [puts EXCEPT ![p] = "evict"]
       \/ (\A m \in Msg : ~IsCutoff(m)) /\ puts' = [puts EXCEPT ![p] = "none"] /\ UNCHANGED cut
    /\ NoFault
    /\ UNCHANGED <<socketVars, gateVars, sent, store, clock, last>>

\* ... and deletes the rows that are not newer than it.
Evict(p) ==
    /\ puts[p] = "evict"
    /\ store' = [m \in Msg |-> IF store[m] <= cut[p] THEN 0 ELSE store[m]]
    /\ puts' = [puts EXCEPT ![p] = "none"] /\ cut' = [cut EXCEPT ![p] = 0]
    /\ NoFault
    /\ UNCHANGED <<socketVars, gateVars, sent, clock, last>>

\* A statement of put throws (a deleted session row included): logged, not retried.
PutFails(p) ==
    /\ puts[p] # "none"
    /\ Fault
    /\ puts' = [puts EXCEPT ![p] = "none"] /\ cut' = [cut EXCEPT ![p] = 0]
    /\ UNCHANGED <<socketVars, gateVars, sent, store, clock, last>>

-------------------------------------------------------------------------------
(* The specification. *)

Resting ==
    /\ ~connecting /\ ~timer /\ ~qr /\ leaving = "no"
    /\ running \cup woken = {}
    /\ \A p \in Put : puts[p] = "none"

\* The socket is stopped, given up, failed or open: WhatsApp may have no more to say.
Idle == Resting /\ UNCHANGED vars

Next ==
    \/ Initialize \/ ConnectInner \/ ConnectFails \/ ReconnectTimer
    \/ Qr \/ QrRendered \/ Disconnect \/ Logout \/ LogoutEnds \/ ClearSession
    \/ \E s \in Sock : Open(s) \/ (\E b \in BOOLEAN : Close(s, b))
    \/ \E m \in Out : Send(m)
    \/ \E m \in Msg : Arrive(m) \/ Processed(m) \/ Wake(m)
    \/ \E p \in Put : Write(p) \/ FindCutoff(p) \/ Evict(p) \/ PutFails(p)
    \/ Idle

Spec == Init /\ [][Next]_vars

-------------------------------------------------------------------------------
(* Properties. *)

\* The variables have their types, and at most MaxReconnects closes are counted.
TypeOK ==
    /\ status \in EngineStatus /\ sock \in Sock \cup {0}
    /\ conn \in [Sock -> {"none", "up", "open", "closed"}] /\ wired \subseteq Sock
    /\ {begun, closing, connecting, timer, qr} \subseteq BOOLEAN
    /\ attempts \in 0 .. MaxReconnects /\ leaving \in {"no", "socket", "store"}
    /\ reached \cup woken \cup running \subseteq Msg /\ waiting \in Seq(Msg)
    /\ active \in 0 .. MaxSlots /\ sent \subseteq Out
    /\ store \in [Msg -> 0 .. MaxClock] /\ last \in [Msg -> 0 .. MaxClock]
    /\ puts \in [Put -> {"none", "write", "find", "evict"}] /\ cut \in [Put -> 0 .. MaxClock]
    /\ clock \in 0 .. MaxClock /\ drops \in 0 .. MaxDrops /\ faults \in 0 .. MaxFaults

\* Once stopped or logged out, the adapter has no live socket, whatever connect,
\* timer or event was under way (the resurrect-after-stop guard of connectInner).
\* An initialize that comes after the stop takes the mark off: that connection is the
\* one case in which the guard fails to keep a stopped session down.
StopIsFinal == closing /\ leaving # "socket" => \A s \in Sock : ~Alive(s)

\* ConcurrencyLimiter: its count is the messages that hold a slot, those woken
\* and not yet running included, never more than MaxSlots; nobody waits while a
\* slot is free.
SlotsKept ==
    /\ active = Cardinality(running \cup woken) /\ active <= MaxSlots
    /\ waiting # <<>> => active = MaxSlots

\* The store keeps the newest Limit messages, with puts, evictions and a logout
\* interleaved: no eviction by an old cutoff takes one of them.
NewestKept ==
    \A m \in Msg :
        last[m] > 0 /\ Cardinality({n \in Msg : last[n] > last[m]}) < Limit => store[m] = last[m]
===============================================================================
