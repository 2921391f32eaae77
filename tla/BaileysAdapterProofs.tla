------------------------ MODULE BaileysAdapterProofs ------------------------
(***************************************************************************)
(* The Baileys adapter for any number of messages, slots and reconnects,   *)
(* any store limit and any number of dropped connections and failures: a   *)
(* adapter marked as stopped has no live socket, the limiter counts its    *)
(* slots exactly, and the store keeps the newest messages.                 *)
(***************************************************************************)
EXTENDS BaileysAdapter, FiniteSetTheorems, TLAPS

-----------------------------------------------------------------------------
(* The socket.                                                             *)

SocketType ==
    /\ status \in EngineStatus /\ sock \in Sock \cup {0}
    /\ conn \in [Sock -> {"none", "up", "open", "closed"}] /\ wired \subseteq Sock
    /\ closing \in BOOLEAN /\ connecting \in BOOLEAN /\ timer \in BOOLEAN /\ qr \in BOOLEAN
    /\ attempts \in 0 .. MaxReconnects /\ leaving \in {"no", "socket", "store"}
    /\ drops \in 0 .. MaxDrops /\ faults \in 0 .. MaxFaults

\* Sockets are made in order, each one but the first after a lost connection.
UsedUpTo(k) ==
    /\ \A s \in Sock : conn[s] # "none" <=> s <= k
    /\ k + (IF connecting THEN 1 ELSE 0) + (IF timer THEN 1 ELSE 0) <= drops + 1
    /\ timer => k > 0

\* Only the current socket can be live.
OneSocket ==
    /\ \A s \in Sock : Alive(s) => s = sock
    /\ sock # 0 => conn[sock] # "none"

\* Before initialize there is nothing but perhaps a stop.
Unbegun == ~begun => ~connecting /\ ~timer /\ \A s \in Sock : conn[s] = "none"

SocketInv ==
    /\ SocketType /\ Unbegun
    /\ \E k \in 0 .. MaxDrops + 1 : UsedUpTo(k)
    /\ OneSocket
    /\ StopIsFinal

-----------------------------------------------------------------------------
(* The inbound gate.                                                       *)

\* The messages a sequence of waiters holds.
Waiters == {waiting[i] : i \in 1 .. Len(waiting)}

\* A message waits, is woken or runs, once and in one place.
GateInv ==
    /\ reached \subseteq Msg /\ running \subseteq reached /\ woken \subseteq reached
    /\ waiting \in Seq(reached)
    /\ \A i, j \in 1 .. Len(waiting) : waiting[i] = waiting[j] => i = j
    /\ running \cap woken = {} /\ Waiters \cap (running \cup woken) = {}
    /\ active \in Nat
    /\ SlotsKept

-----------------------------------------------------------------------------
(* The message store.                                                      *)

StoreType ==
    /\ store \in [Msg -> Nat] /\ last \in [Msg -> Nat] /\ clock \in Nat
    /\ puts \in [Put -> {"none", "write", "find", "evict"}] /\ cut \in [Put -> Nat]

\* Messages put after m.
After(m) == {n \in Msg : last[n] > last[m]}

\* A row is the last put of its message or gone; a cutoff under way spares every
\* message with fewer than Limit newer ones, however old the cutoff is.
StoreInv ==
    /\ StoreType
    /\ \A m \in Msg : store[m] \in {0, last[m]} /\ last[m] <= clock
    /\ \A p \in Put : cut[p] <= clock
    /\ \A p \in Put, m \in Msg :
           puts[p] = "evict" /\ last[m] > 0 /\ last[m] <= cut[p] => Cardinality(After(m)) >= Limit
    /\ NewestKept

IInv == SocketInv /\ GateInv /\ StoreInv
-----------------------------------------------------------------------------
(* Steps of the socket.                                                    *)

\* There is an unused socket for a connectInner under way, and it takes the next.
LEMMA NextSocket ==
    ASSUME SocketInv, connecting, NEW k \in 0 .. MaxDrops + 1, UsedUpTo(k)
    PROVE  /\ k + 1 \in Sock
           /\ (CHOOSE s \in Sock : conn[s] = "none" /\ \A t \in 1 .. s - 1 : conn[t] # "none") = k + 1
<1>1. k + 1 \in Sock /\ Sock \subseteq Nat /\ k \in Nat
  BY AdapterAssumption DEF SocketInv, SocketType, UsedUpTo, Sock
<1>2. ASSUME NEW s \in Sock
      PROVE  (conn[s] = "none" /\ \A t \in 1 .. s - 1 : conn[t] # "none") <=> s = k + 1
  <2>1. \A t \in 1 .. s - 1 : t \in Sock
    BY AdapterAssumption DEF Sock
  <2>2. CASE s = k + 1
    BY <1>1, <2>1, <2>2 DEF UsedUpTo
  <2>3. CASE s <= k
    BY <1>1, <2>3 DEF UsedUpTo
  <2>4. CASE s > k + 1
    <3>1. k + 1 \in 1 .. s - 1 /\ conn[k + 1] = "none"
      BY <1>1, <2>4 DEF UsedUpTo, Sock
    <3> QED
      BY <1>1, <2>4, <3>1
  <2> QED
    BY <1>1, <2>2, <2>3, <2>4
<1> QED
  BY <1>1, <1>2

\* Every handler of the socket keeps the adapter to one live socket, and to none
\* once it is stopped.
LEMMA SocketStep == SocketInv /\ [Next]_vars => SocketInv'
<1> SUFFICES ASSUME SocketInv, [Next]_vars PROVE SocketInv'
  OBVIOUS
<1>k. PICK k \in 0 .. MaxDrops + 1 : UsedUpTo(k)
  BY DEF SocketInv
<1>b. /\ MaxDrops \in Nat /\ MaxFaults \in Nat /\ MaxReconnects \in Nat /\ k \in Nat
      /\ Sock \subseteq Nat /\ 0 \notin Sock
  BY AdapterAssumption DEF Sock
<1> USE DEF SocketInv, SocketType, OneSocket, Unbegun, StopIsFinal, Alive, EngineStatus, Event, Fault, NoFault
<1>1. ASSUME Initialize PROVE SocketInv'
  <2>1. k = 0
    <3>1. 1 \in Sock /\ conn[1] = "none"
      BY <1>1, <1>b DEF Initialize, Sock
    <3> QED
      BY <1>k, <1>b, <3>1 DEF UsedUpTo
  <2>2. UsedUpTo(k)'
    BY <1>1, <1>k, <1>b, <2>1 DEF Initialize, Connect, UsedUpTo
  <2> QED
    BY <1>1, <1>b, <2>2 DEF Initialize, Connect
<1>2. ASSUME ConnectInner PROVE SocketInv'
  <2>1. CASE MayOpen
    <3>1. k + 1 \in Sock /\ sock' = k + 1 /\ wired' = Unwired \cup {k + 1} /\ status' = "INITIALIZING"
          /\ conn' = [Ended EXCEPT ![k + 1] = "up"]
      BY <1>2, <1>k, <2>1, NextSocket DEF ConnectInner
    <3>2. \A s \in Sock : conn'[s] = IF s = k + 1 THEN "up" ELSE IF s = sock THEN "closed" ELSE conn[s]
      <4>1. CASE sock = 0
        BY <1>b, <3>1, <4>1 DEF Ended
      <4>2. CASE sock \in Sock
        BY <1>b, <3>1, <4>2 DEF Ended
      <4> QED
        BY <4>1, <4>2
    <3>3. conn' \in [Sock -> {"none", "up", "open", "closed"}]
      BY <3>1 DEF Ended
    <3>4. UsedUpTo(k + 1)' /\ k + 1 \in 0 .. MaxDrops + 1
      BY <1>2, <1>k, <1>b, <3>1, <3>2 DEF ConnectInner, UsedUpTo, Sock
    <3> QED
      BY <1>2, <1>b, <2>1, <3>1, <3>2, <3>3, <3>4 DEF ConnectInner, MayOpen, Unwired
  <2>2. CASE ~MayOpen
    <3>1. UsedUpTo(k)'
      BY <1>2, <1>k, <1>b, <2>2 DEF ConnectInner, UsedUpTo
    <3> QED
      BY <1>2, <1>b, <2>2, <3>1 DEF ConnectInner
  <2> QED
    BY <2>1, <2>2
<1>3. ASSUME ConnectFails PROVE SocketInv'
  <2>1. UsedUpTo(k)'
    BY <1>3, <1>k, <1>b DEF ConnectFails, UsedUpTo
  <2>2. faults' \in 0 .. MaxFaults
    BY <1>3, <1>b DEF ConnectFails
  <2> QED
    BY <1>3, <2>1, <2>2 DEF ConnectFails
<1>4. ASSUME Qr PROVE SocketInv'
  <2>1. UsedUpTo(k)'
    BY <1>4, <1>k, <1>b DEF Qr, UsedUpTo
  <2> QED
    BY <1>4, <1>b, <2>1 DEF Qr
<1>5. ASSUME QrRendered PROVE SocketInv'
  <2>1. UsedUpTo(k)'
    BY <1>5, <1>k, <1>b DEF QrRendered, UsedUpTo
  <2> QED
    BY <1>5, <1>b, <2>1 DEF QrRendered
<1>6. ASSUME NEW s \in Sock, Open(s) PROVE SocketInv'
  <2>1. UsedUpTo(k)'
    BY <1>6, <1>k, <1>b DEF Open, Opened, UsedUpTo
  <2> QED
    BY <1>6, <1>b, <2>1 DEF Open, Opened
<1>7. ASSUME NEW s \in Sock, NEW b \in BOOLEAN, Close(s, b) PROVE SocketInv'
  <2>1. UsedUpTo(k)'
    BY <1>7, <1>k, <1>b DEF Close, GivenUp, UsedUpTo
  <2>2. drops' \in 0 .. MaxDrops /\ attempts' \in 0 .. MaxReconnects
    BY <1>7, <1>b DEF Close, GivenUp
  <2>3. /\ status' \in EngineStatus /\ sock' \in {sock, 0} /\ timer' \in BOOLEAN
        /\ conn' = [conn EXCEPT ![s] = "closed"]
        /\ UNCHANGED <<wired, closing, connecting, leaving, qr, faults>>
    BY <1>7 DEF Close
  <2>4. \A t \in Sock : ~Alive(t)'
    BY <1>7, <2>3 DEF Close
  <2>5. begun /\ UNCHANGED begun
    BY <1>7 DEF Close
  <2> QED
    BY <2>1, <2>2, <2>3, <2>4, <2>5
<1>8. ASSUME ReconnectTimer PROVE SocketInv'
  <2>1. UsedUpTo(k)'
    BY <1>8, <1>k, <1>b DEF ReconnectTimer, Fired, Connect, UsedUpTo
  <2> QED
    BY <1>8, <1>b, <2>1 DEF ReconnectTimer, Fired, Connect
<1>9. ASSUME Disconnect PROVE SocketInv'
  <2>1. UsedUpTo(k)'
    BY <1>9, <1>k, <1>b DEF Disconnect, Ended, UsedUpTo
  <2> QED
    BY <1>9, <1>b, <2>1 DEF Disconnect, Ended
<1>10. ASSUME Logout PROVE SocketInv'
  <2>1. UsedUpTo(k)'
    BY <1>10, <1>k, <1>b DEF Logout, UsedUpTo
  <2> QED
    BY <1>10, <1>b, <2>1 DEF Logout
<1>11. ASSUME LogoutEnds PROVE SocketInv'
  <2>1. UsedUpTo(k)'
    BY <1>11, <1>k, <1>b DEF LogoutEnds, Ended, UsedUpTo
  <2> QED
    BY <1>11, <1>b, <2>1 DEF LogoutEnds, Ended
<1>12. ASSUME ClearSession PROVE SocketInv'
  <2>1. UsedUpTo(k)'
    BY <1>12, <1>k, <1>b DEF ClearSession, UsedUpTo
  <2> QED
    BY <1>12, <1>b, <2>1 DEF ClearSession
<1>13. ASSUME UNCHANGED socketVars, UNCHANGED drops, faults' \in 0 .. MaxFaults PROVE SocketInv'
  BY <1>13, <1>k DEF socketVars, UsedUpTo
<1>14. ASSUME NEW m \in Msg, Send(m) \/ Arrive(m) \/ Processed(m) \/ Wake(m) PROVE SocketInv'
  BY <1>13, <1>14 DEF Send, Arrive, Processed, Wake
<1>15. ASSUME NEW p \in Put, Write(p) \/ FindCutoff(p) \/ Evict(p) \/ PutFails(p) PROVE SocketInv'
  BY <1>13, <1>15, <1>b DEF Write, FindCutoff, Evict, PutFails
<1>16. CASE UNCHANGED vars
  BY <1>13, <1>16 DEF vars
<1> QED
  BY <1>1, <1>2, <1>3, <1>4, <1>5, <1>6, <1>7, <1>8, <1>9, <1>10, <1>11, <1>12, <1>14, <1>15, <1>16
     DEF Next, Idle, Msg

-----------------------------------------------------------------------------
(* Steps of the inbound gate.                                              *)

\* There are finitely many messages, so what is counted is finite.
LEMMA MsgFinite == IsFiniteSet(Msg) /\ \A S \in SUBSET Msg : IsFiniteSet(S) /\ Cardinality(S) \in Nat
<1>1. IsFiniteSet(Msg)
  BY AdapterAssumption, FS_Union DEF Msg
<1> QED
  BY <1>1, FS_Subset, FS_CardinalityType

\* The first waiter holds no slot yet, and leaves the queue for good.
LEMMA FirstWaiter ==
    ASSUME GateInv, waiting # <<>>
    PROVE  /\ Head(waiting) \in reached \ (running \cup woken)
           /\ Tail(waiting) \in Seq(reached)
           /\ Len(Tail(waiting)) = Len(waiting) - 1 /\ Len(waiting) \in Nat \ {0}
           /\ \A i \in 1 .. Len(waiting) - 1 : Tail(waiting)[i] = waiting[i + 1]
           /\ \A i \in 1 .. Len(waiting) - 1 : Tail(waiting)[i] # Head(waiting)
<1>1. Len(waiting) \in Nat \ {0} /\ Head(waiting) = waiting[1]
  BY DEF GateInv
<1>2. /\ Tail(waiting) \in Seq(reached) /\ Len(Tail(waiting)) = Len(waiting) - 1
      /\ \A i \in 1 .. Len(waiting) - 1 : Tail(waiting)[i] = waiting[i + 1]
  BY DEF GateInv
<1>3. 1 \in 1 .. Len(waiting) /\ waiting[1] \in reached /\ waiting[1] \in Waiters
  BY <1>1 DEF GateInv, Waiters
<1>4. Head(waiting) \in reached \ (running \cup woken)
  BY <1>1, <1>3 DEF GateInv
<1>5. \A i \in 1 .. Len(waiting) - 1 : waiting[i + 1] # waiting[1]
  BY <1>1, <1>3 DEF GateInv
<1> QED
  BY <1>1, <1>2, <1>4, <1>5

\* run, its end and the wake of a waiter keep the count of the slots.
LEMMA GateStep == GateInv /\ [Next]_vars => GateInv'
<1> SUFFICES ASSUME GateInv, [Next]_vars PROVE GateInv'
  OBVIOUS
<1> DEFINE Held == running \cup woken
<1>h. Held \subseteq Msg /\ IsFiniteSet(Held) /\ active = Cardinality(Held) /\ MaxSlots \in Nat \ {0}
  <2>1. Held \subseteq Msg /\ active = Cardinality(Held)
    BY DEF GateInv, SlotsKept
  <2> QED
    BY <2>1, MsgFinite, AdapterAssumption
<1>1. ASSUME NEW m \in Msg, Arrive(m) PROVE GateInv'
  <2>1. m \notin Held /\ m \notin Waiters /\ m \notin reached /\ reached' = reached \cup {m} /\ UNCHANGED woken
    BY <1>1 DEF Arrive, GateInv, Waiters
  <2>2. CASE active < MaxSlots
    <3>1. waiting = <<>> /\ waiting' = <<>> /\ active' = active + 1 /\ running' = running \cup {m}
      BY <1>1, <2>2, <1>h DEF Arrive, GateInv, SlotsKept
    <3>2. Held' = Held \cup {m}
      BY <2>1, <3>1
    <3>3. Cardinality(Held') = active + 1
      BY <1>h, <2>1, <3>2, FS_AddElement
    <3>4. Waiters' = {}
      BY <3>1 DEF Waiters
    <3> QED
      BY <1>h, <2>1, <2>2, <3>1, <3>3, <3>4 DEF GateInv, SlotsKept
  <2>3. CASE ~(active < MaxSlots)
    <3>1. waiting' = Append(waiting, m) /\ UNCHANGED <<active, running>>
      BY <1>1, <2>3 DEF Arrive
    <3>2. waiting' \in Seq(reached') /\ Len(waiting') = Len(waiting) + 1 /\ Len(waiting) \in Nat
      BY <2>1, <3>1 DEF GateInv
    <3>3. \A i \in 1 .. Len(waiting') : waiting'[i] = IF i = Len(waiting) + 1 THEN m ELSE waiting[i]
      BY <2>1, <3>1, <3>2 DEF GateInv
    <3>4. Waiters' = Waiters \cup {m} /\ \A i \in 1 .. Len(waiting) : waiting[i] # m
      BY <2>1, <3>2, <3>3 DEF Waiters
    <3>5. \A i, j \in 1 .. Len(waiting') : waiting'[i] = waiting'[j] => i = j
      BY <3>2, <3>3, <3>4 DEF GateInv
    <3>6. SlotsKept'
      BY <1>h, <2>1, <2>3, <3>1 DEF GateInv, SlotsKept
    <3> QED
      BY <2>1, <3>1, <3>2, <3>4, <3>5, <3>6 DEF GateInv
  <2> QED
    BY <2>2, <2>3
<1>2. ASSUME NEW m \in Msg, Processed(m) PROVE GateInv'
  <2>1. m \in running /\ m \in Held /\ m \notin woken /\ running' = running \ {m} /\ UNCHANGED reached
    BY <1>2 DEF Processed, GateInv
  <2>2. IsFiniteSet(Held \ {m}) /\ Cardinality(Held \ {m}) = active - 1
    BY <1>h, <2>1, FS_RemoveElement
  <2>3. CASE waiting = <<>>
    <3>1. active' = active - 1 /\ UNCHANGED <<waiting, woken>>
      BY <1>2, <2>3 DEF Processed, SlotsAfter
    <3>2. Held' = Held \ {m}
      BY <2>1, <3>1
    <3>3. active' = Cardinality(Held') /\ Cardinality(Held') \in Nat
      <4>1. Held' \subseteq Msg
        BY <1>h, <3>2
      <4> QED
        BY <2>2, <3>1, <3>2, <4>1, MsgFinite
    <3>4. SlotsKept' /\ active' \in Nat
      BY <1>h, <2>3, <3>1, <3>3 DEF GateInv, SlotsKept
    <3> QED
      BY <2>1, <2>3, <3>1, <3>4 DEF GateInv, Waiters
  <2>4. CASE waiting # <<>>
    <3>1. active' = active /\ waiting' = Tail(waiting) /\ woken' = woken \cup {Head(waiting)}
      BY <1>2, <2>4 DEF Processed, SlotsAfter
    <3>2. Held' = (Held \ {m}) \cup {Head(waiting)} /\ Head(waiting) \notin Held
      BY <2>1, <2>4, <3>1, FirstWaiter
    <3>3. Cardinality(Held') = active
      <4> DEFINE Rest == Held \ {m}
      <4>1. IsFiniteSet(Rest) /\ Cardinality(Rest) = active - 1 /\ Head(waiting) \notin Rest
        BY <2>2, <3>2
      <4> HIDE DEF Rest
      <4>2. Cardinality(Rest \cup {Head(waiting)}) = (active - 1) + 1
        BY <4>1, FS_AddElement
      <4>3. Held' = Rest \cup {Head(waiting)}
        BY <3>2 DEF Rest
      <4>4. Cardinality(Held') = (active - 1) + 1
        BY <4>2, <4>3, Zenon
      <4> QED
        BY <4>4 DEF GateInv
    <3>4. SlotsKept'
      BY <2>4, <3>1, <3>3 DEF GateInv, SlotsKept
    <3>5. Waiters' \subseteq Waiters \ {Head(waiting)}
      BY <2>4, <3>1, FirstWaiter DEF Waiters
    <3>6. \A i, j \in 1 .. Len(waiting') : waiting'[i] = waiting'[j] => i = j
      <4>1. ASSUME NEW i \in 1 .. Len(waiting'), NEW j \in 1 .. Len(waiting'), waiting'[i] = waiting'[j]
            PROVE  i = j
        <5>1. /\ i + 1 \in 1 .. Len(waiting) /\ j + 1 \in 1 .. Len(waiting)
              /\ waiting[i + 1] = waiting[j + 1]
          BY <2>4, <3>1, <4>1, FirstWaiter
        <5> QED
          BY <5>1 DEF GateInv
      <4> QED
        BY <4>1
    <3>7. Head(waiting) \in reached /\ waiting' \in Seq(reached)
      BY <2>4, <3>1, FirstWaiter
    <3> QED
      BY <2>1, <3>1, <3>2, <3>4, <3>5, <3>6, <3>7 DEF GateInv
  <2> QED
    BY <2>3, <2>4
<1>3. ASSUME NEW m \in Msg, Wake(m) PROVE GateInv'
  <2>1. UNCHANGED <<reached, waiting, active>> /\ Held' = Held /\ Waiters' = Waiters
    BY <1>3 DEF Wake, Waiters
  <2> QED
    BY <1>3, <2>1 DEF Wake, GateInv, SlotsKept
<1>4. ASSUME UNCHANGED gateVars PROVE GateInv'
  BY <1>4 DEF gateVars, GateInv, SlotsKept, Waiters
<1> QED
  BY <1>1, <1>2, <1>3, <1>4
     DEF Next, Idle, vars, Initialize, ConnectInner, ConnectFails, ReconnectTimer, Qr, QrRendered, Disconnect,
         Logout, LogoutEnds, ClearSession, Open, Close, Send, Write, FindCutoff, Evict, PutFails

-----------------------------------------------------------------------------
(* Steps of the message store.                                             *)

\* A larger set of messages has at least as many.
LEMMA MoreMessages ==
    ASSUME NEW S \in SUBSET Msg, NEW T \in SUBSET S
    PROVE  Cardinality(T) <= Cardinality(S) /\ Cardinality(T) \in Nat /\ Cardinality(S) \in Nat
<1>1. IsFiniteSet(S) /\ T \in SUBSET Msg
  BY MsgFinite
<1> QED
  BY <1>1, MsgFinite, FS_Subset

\* No put, cutoff, eviction or logout takes one of the newest Limit messages.
LEMMA StoreStep == StoreInv /\ [Next]_vars => StoreInv'
<1> SUFFICES ASSUME StoreInv, [Next]_vars PROVE StoreInv'
  OBVIOUS
<1>l. Limit \in Nat \ {0}
  BY AdapterAssumption
<1>1. ASSUME UNCHANGED <<store, clock, cut, last>>,
             puts' \in [Put -> {"none", "write", "find", "evict"}],
             \A p \in Put : puts'[p] = "evict" => puts[p] = "evict"
      PROVE StoreInv'
  BY <1>1 DEF StoreInv, StoreType, After, NewestKept
<1>2. ASSUME NEW m \in Msg, NEW kind \in {"sent", "echo"}, StartPut(<<m, kind>>),
             UNCHANGED <<store, clock, cut, last>>
      PROVE StoreInv'
  <2>1. <<m, kind>> \in Put
    BY <1>2 DEF Put
  <2> QED
    BY <1>1, <1>2, <2>1 DEF StartPut, StoreInv, StoreType
<1>3. ASSUME NEW m \in Out, Send(m) PROVE StoreInv'
  BY <1>2, <1>3 DEF Send, Msg
<1>4. ASSUME NEW m \in Msg, Processed(m) PROVE StoreInv'
  BY <1>1, <1>2, <1>4 DEF Processed, StoreInv, StoreType
<1>5. ASSUME ClearSession PROVE StoreInv'
  <2>1. /\ store' = [m \in Msg |-> 0] /\ last' = [m \in Msg |-> 0] /\ UNCHANGED <<clock, puts, cut>>
    BY <1>5 DEF ClearSession
  <2> QED
    BY <2>1 DEF StoreInv, StoreType, After, NewestKept
<1>6. ASSUME NEW p \in Put, Write(p) PROVE StoreInv'
  <2>1. p[1] \in Msg
    BY DEF Put
  <2>2. /\ clock' = clock + 1 /\ UNCHANGED cut
        /\ store' = [store EXCEPT ![p[1]] = clock + 1] /\ last' = [last EXCEPT ![p[1]] = clock + 1]
        /\ puts' = [puts EXCEPT ![p] = "find"]
    BY <1>6 DEF Write
  <2>3. StoreType'
    BY <2>1, <2>2 DEF StoreInv, StoreType
  <2>4. ASSUME NEW m \in Msg, m # p[1]
        PROVE  /\ store'[m] = store[m] /\ last'[m] = last[m] /\ After(m) \subseteq After(m)'
               /\ Cardinality(After(m)) <= Cardinality(After(m)') /\ Cardinality(After(m)) \in Nat
               /\ Cardinality(After(m)') \in Nat
    <3>1. store'[m] = store[m] /\ last'[m] = last[m]
      BY <2>1, <2>2, <2>4 DEF StoreInv, StoreType
    <3>2. After(m) \subseteq After(m)' /\ After(m)' \subseteq Msg
      BY <2>1, <2>2, <3>1 DEF StoreInv, StoreType, After
    <3> QED
      BY <3>1, <3>2, MoreMessages
  <2>5. store'[p[1]] = clock + 1 /\ last'[p[1]] = clock + 1
    BY <2>1, <2>2 DEF StoreInv, StoreType
  <2>6. \A m \in Msg : store'[m] \in {0, last'[m]} /\ last'[m] <= clock'
    BY <2>2, <2>4, <2>5 DEF StoreInv, StoreType
  <2>7. \A q \in Put : cut'[q] <= clock'
    BY <2>2 DEF StoreInv, StoreType
  <2>8. ASSUME NEW q \in Put, NEW m \in Msg, puts'[q] = "evict", last'[m] > 0, last'[m] <= cut'[q]
        PROVE  Cardinality(After(m)') >= Limit
    <3>1. puts[q] = "evict" /\ cut'[q] = cut[q] /\ cut[q] <= clock
      BY <2>2, <2>8 DEF StoreInv, StoreType
    <3>2. m # p[1]
      BY <2>5, <2>8, <3>1 DEF StoreInv, StoreType
    <3> QED
      BY <1>l, <2>4, <2>8, <3>1, <3>2 DEF StoreInv
  <2>9. NewestKept'
    <3>1. \A m \in Msg : last[m] > 0 /\ Cardinality(After(m)) < Limit => store[m] = last[m]
      BY DEF StoreInv, NewestKept, After
    <3>2. ASSUME NEW m \in Msg, last'[m] > 0, Cardinality(After(m)') < Limit PROVE store'[m] = last'[m]
      <4>1. CASE m = p[1]
        BY <2>5, <4>1
      <4>2. CASE m # p[1]
        BY <1>l, <2>4, <3>1, <3>2, <4>2
      <4> QED
        BY <4>1, <4>2
    <3> QED
      BY <3>2 DEF NewestKept, After
  <2> QED
    BY <2>3, <2>6, <2>7, <2>8, <2>9 DEF StoreInv
<1>7. ASSUME NEW p \in Put, FindCutoff(p) PROVE StoreInv'
  <2>1. CASE \A m \in Msg : ~IsCutoff(m)
    BY <1>1, <1>7, <2>1 DEF FindCutoff, StoreInv, StoreType
  <2>2. CASE \E m \in Msg : IsCutoff(m)
    <3>1. PICK x \in Msg : /\ IsCutoff(x) /\ cut' = [cut EXCEPT ![p] = store[x]]
                           /\ puts' = [puts EXCEPT ![p] = "evict"] /\ UNCHANGED <<store, clock, last>>
      BY <1>7, <2>2 DEF FindCutoff
    <3>2. ASSUME NEW m \in Msg, last[m] > 0, last[m] <= store[x] PROVE Cardinality(After(m)) >= Limit
      <4>1. Newer(x) \subseteq After(m) /\ After(m) \subseteq Msg
        BY <3>2 DEF Newer, Stored, After, StoreInv, StoreType
      <4>2. Cardinality(Newer(x)) = Limit
        BY <3>1 DEF IsCutoff
      <4> QED
        BY <1>l, <4>1, <4>2, MoreMessages
    <3>3. StoreType' /\ \A q \in Put : cut'[q] <= clock'
      BY <3>1 DEF StoreInv, StoreType
    <3>4. ASSUME NEW q \in Put, NEW m \in Msg, puts'[q] = "evict", last[m] > 0, last[m] <= cut'[q]
          PROVE  Cardinality(After(m)) >= Limit
      BY <3>1, <3>2, <3>4 DEF StoreInv, StoreType
    <3> QED
      BY <3>1, <3>3, <3>4 DEF StoreInv, After, NewestKept
  <2> QED
    BY <2>1, <2>2
<1>8. ASSUME NEW p \in Put, Evict(p) PROVE StoreInv'
  <2>1. /\ store' = [m \in Msg |-> IF store[m] <= cut[p] THEN 0 ELSE store[m]] /\ puts[p] = "evict"
        /\ puts' = [puts EXCEPT ![p] = "none"] /\ cut' = [cut EXCEPT ![p] = 0] /\ UNCHANGED <<clock, last>>
    BY <1>8 DEF Evict
  <2>2. StoreType' /\ (\A q \in Put : cut'[q] <= clock') /\ \A m \in Msg : store'[m] \in {0, last'[m]}
    BY <2>1 DEF StoreInv, StoreType
  <2>3. ASSUME NEW m \in Msg, last[m] > 0, Cardinality(After(m)) < Limit PROVE store'[m] = last[m]
    <3>1. store[m] = last[m] /\ Cardinality(After(m)) \in Nat
      BY <2>3, MsgFinite DEF StoreInv, NewestKept, After
    <3>2. ~(last[m] <= cut[p])
      BY <1>l, <2>1, <2>3, <3>1 DEF StoreInv
    <3> QED
      BY <2>1, <3>1, <3>2
  <2>4. NewestKept'
    BY <2>1, <2>3 DEF NewestKept, After
  <2>5. ASSUME NEW q \in Put, NEW m \in Msg, puts'[q] = "evict", last[m] > 0, last[m] <= cut'[q]
        PROVE  Cardinality(After(m)) >= Limit
    BY <2>1, <2>5 DEF StoreInv, StoreType
  <2> QED
    BY <2>1, <2>2, <2>4, <2>5 DEF StoreInv, After
<1>9. ASSUME NEW p \in Put, PutFails(p) PROVE StoreInv'
  <2>1. /\ puts' = [puts EXCEPT ![p] = "none"] /\ cut' = [cut EXCEPT ![p] = 0]
        /\ UNCHANGED <<store, clock, last>>
    BY <1>9 DEF PutFails
  <2> QED
    BY <2>1 DEF StoreInv, StoreType, After, NewestKept
<1>10. ASSUME UNCHANGED storeVars PROVE StoreInv'
  BY <1>1, <1>10 DEF storeVars, StoreInv, StoreType
<1> QED
  BY <1>3, <1>4, <1>5, <1>6, <1>7, <1>8, <1>9, <1>10
     DEF Next, Idle, vars, Initialize, ConnectInner, ConnectFails, ReconnectTimer, Qr, QrRendered, Disconnect,
         Logout, LogoutEnds, Open, Close, Arrive, Wake

-----------------------------------------------------------------------------
\* The inductive invariant holds in every reachable state.
THEOREM Inductive == Spec => []IInv
<1>1. Init => IInv
  <2> SUFFICES ASSUME Init PROVE IInv
    OBVIOUS
  <2>1. SocketInv
    <3>1. MaxDrops \in Nat /\ MaxFaults \in Nat /\ MaxReconnects \in Nat /\ 0 \in 0 .. MaxDrops + 1
      BY AdapterAssumption
    <3>2. UsedUpTo(0)
      BY <3>1 DEF Init, UsedUpTo, Sock
    <3>3. SocketType
      <4>1. attempts \in 0 .. MaxReconnects /\ drops \in 0 .. MaxDrops /\ faults \in 0 .. MaxFaults
        BY <3>1 DEF Init
      <4>2. closing \in BOOLEAN /\ connecting \in BOOLEAN /\ timer \in BOOLEAN /\ qr \in BOOLEAN
        BY DEF Init
      <4>3. conn \in [Sock -> {"none", "up", "open", "closed"}] /\ wired \subseteq Sock
        BY DEF Init
      <4> QED
        BY <4>1, <4>2, <4>3 DEF Init, SocketType, EngineStatus
    <3>4. OneSocket /\ Unbegun /\ StopIsFinal
      BY DEF Init, OneSocket, Unbegun, StopIsFinal, Alive
    <3> QED
      BY <3>1, <3>2, <3>3, <3>4 DEF SocketInv
  <2>2. GateInv
    <3>1. running \cup woken = {} /\ Cardinality(running \cup woken) = 0 /\ active = 0 /\ waiting = <<>>
      BY FS_EmptySet DEF Init
    <3>2. SlotsKept
      BY <3>1, AdapterAssumption DEF SlotsKept
    <3> QED
      BY <3>1, <3>2 DEF Init, GateInv, Waiters
  <2>3. StoreInv
    BY DEF Init, StoreInv, StoreType, After, NewestKept
  <2> QED
    BY <2>1, <2>2, <2>3 DEF IInv
<1>2. IInv /\ [Next]_vars => IInv'
  BY SocketStep, GateStep, StoreStep DEF IInv
<1> QED
  BY <1>1, <1>2, PTL DEF Spec

\* The resurrect-after-stop guard works: while the mark of a stop or logout stands,
\* the adapter has no live socket, whatever connect, timer or event was under way.
THEOREM StoppedForGood == Spec => []StopIsFinal
<1>1. IInv => StopIsFinal
  BY DEF IInv, SocketInv
<1> QED
  BY <1>1, Inductive, PTL

\* ConcurrencyLimiter never runs more than max tasks, and never lets one wait beside
\* a free slot.
THEOREM LimiterIsExact == Spec => []SlotsKept
<1>1. IInv => SlotsKept
  BY DEF IInv, GateInv
<1> QED
  BY <1>1, Inductive, PTL

\* enforceLimit, run by several puts at once and across a logout, only deletes rows
\* that Limit newer messages have pushed out.
THEOREM NewestSurvive == Spec => []NewestKept
<1>1. IInv => NewestKept
  BY DEF IInv, StoreInv
<1> QED
  BY <1>1, Inductive, PTL
=============================================================================
