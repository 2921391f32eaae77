------------------------ MODULE SessionLifecycleProofs ------------------------
(***************************************************************************)
(* A session of the bridge, for any number of operations at once, engines, *)
(* reconnects, requests, drops and faults: a session that says READY has a *)
(* ready engine in the map, and a stop is the last word.                   *)
(***************************************************************************)
EXTENDS SessionLifecycle, TLAPS

USE BoundAssumption, NoneAssumption

-----------------------------------------------------------------------------
(* The inductive invariant.                                                *)

OpRow == [kind : Kind, pc : PC, eng : Engine \cup {None}]

\* An operation that launches has a registered engine; one that waits for a
\* teardown waits for an engine whose teardown has begun.
OpInv ==
    /\ op \in [Op -> OpRow \cup {Idle}]
    /\ \A o \in Op : op[o].pc \in {"write", "init"} => op[o].eng \in Engine /\ client[op[o].eng] # "unborn"
    /\ \A o \in Op : op[o].pc \in {"undo", "down", "old"} => op[o].eng \in tearing

\* An engine that was never made has reported nothing and was never launched.
EngineInv ==
    \A e \in Engine :
        client[e] = "unborn" => est[e] = "DISCONNECTED" /\ e \notin tearing \cup strayed

\* The row's READY is the word of the engine in the map, and its teardown has not
\* begun; so it has a running client, and what leaves the map without a teardown
\* is not ready.
ReadyInv ==
    /\ row = "READY" /\ ~overtaken /\ ~lateReady =>
          live # None /\ est[live] = "READY" /\ live \notin tearing
    /\ live # None /\ est[live] = "READY" /\ live \notin tearing => Up(live)

\* A running engine that is not being torn down and has not strayed is the one in
\* the map.
MapInv == \A e \in Engine : Up(e) => e \in tearing \cup strayed \cup {live}

\* Such an engine of a stopped session is being launched, by the operation that
\* will look at the stop mark when the launch is through.
StopInv ==
    stopping /\ live # None /\ Up(live) /\ live \notin tearing \cup strayed =>
        \E o \in Op : op[o].pc = "init" /\ op[o].eng = live

IInv == TypeOK /\ OpInv /\ EngineInv /\ ReadyInv /\ MapInv /\ StopInv

-----------------------------------------------------------------------------
\* A new engine takes the slot: it was never made, so it has reported nothing.
LEMMA Registering ==
    ASSUME IInv, NEW o \in Op, NEW k \in Kind, Register(o, k)
    PROVE  /\ row' # "READY" /\ live' \in Engine /\ est[live'] = "DISCONNECTED"
           /\ client' = [client EXCEPT ![live'] = "none"]
           /\ op' = [op EXCEPT ![o] = [kind |-> k, pc |-> "write", eng |-> live']]
<1>1. PICK e \in Engine :
        /\ \A f \in Engine : client[f] = "unborn" <=> f >= e
        /\ client' = [client EXCEPT ![e] = "none"] /\ live' = e
        /\ op' = [op EXCEPT ![o] = [kind |-> k, pc |-> "write", eng |-> e]]
        /\ row' = Written("INITIALIZING")
  BY DEF Register
<1>2. client[e] = "unborn"
  BY <1>1 DEF Engine
<1> QED
  BY <1>1, <1>2 DEF Written, IInv, EngineInv

-----------------------------------------------------------------------------
(* The steps.                                                              *)

\* No operation, timer, client event or restart leaves the invariant.
LEMMA Step == IInv /\ [Next]_vars => IInv'
<1> SUFFICES ASSUME IInv, [Next]_vars PROVE IInv'
  OBVIOUS
<1>1. ASSUME NEW o \in Op, Start(o) PROVE IInv'
  <2>1. OpInv'
    BY <1>1 DEF Start, Request, tableVars, engineVars, histVars, boundVars, IInv, TypeOK, OpInv, OpRow,
       Kind, PC, Idle
  <2>2. TypeOK'
    <3>1. (row \in EngineStatus \cup {"GONE"})' /\ (live \in Engine \cup {None})' /\ (rec \in Reconnect \cup {None})'
      BY <1>1 DEF Start, Request, tableVars, engineVars, histVars, boundVars, IInv, TypeOK, OpInv,
         EngineStatus, Reconnect
    <3>2. ({stopping, starting, stray, overtaken, lateReady} \subseteq BOOLEAN)'
      BY <1>1 DEF Start, Request, tableVars, engineVars, histVars, boundVars, IInv, TypeOK
    <3>3. /\ (client \in [Engine -> ClientState])' /\ (est \in [Engine -> EngineStatus])' /\ (tearing \subseteq Engine /\ strayed \subseteq Engine)'
          /\ (live # None => client[live] # "unborn")'
      BY <1>1 DEF Start, Request, tableVars, engineVars, histVars, boundVars, IInv, TypeOK, OpInv,
         EngineStatus, ClientState
    <3>4. ({requests, drops, faults} \subseteq Nat)'
      BY <1>1 DEF Start, Request, tableVars, engineVars, histVars, boundVars, IInv, TypeOK
    <3>5. (\A u \in Op : op[u] = Idle \/ op[u] \in [kind : Kind, pc : PC, eng : Engine \cup {None}])'
      BY <2>1 DEF OpInv, OpRow
    <3> QED
      BY <3>1, <3>2, <3>3, <3>4, <3>5 DEF TypeOK
  <2>3. EngineInv'
    BY <1>1 DEF Start, Request, tableVars, engineVars, histVars, boundVars, IInv, TypeOK, OpInv, EngineInv
  <2>4. ReadyInv'
    BY <1>1 DEF Start, Request, tableVars, engineVars, histVars, boundVars, IInv, TypeOK, OpInv, OpRow,
       EngineInv, ReadyInv, Up, Idle
  <2>5. StopInv'
    BY <1>1 DEF Start, Request, tableVars, engineVars, histVars, boundVars, IInv, TypeOK, OpInv, StopInv,
       Up, Idle
  <2>6. MapInv'
    BY <1>1 DEF Start, Request, tableVars, engineVars, histVars, boundVars, IInv, TypeOK, OpInv, MapInv,
       Up, Idle
  <2> QED
    BY <2>1, <2>2, <2>3, <2>4, <2>5, <2>6 DEF IInv
<1>2. ASSUME NEW o \in Op, Stop(o) PROVE IInv'
  <2>1. OpInv'
    BY <1>2 DEF Stop, Request, Cancelled, BeginTeardown, MustWait, HasClient, SetStatus, Written,
       Heard, tableVars, engineVars, histVars, boundVars, IInv, TypeOK, OpInv, OpRow, Kind, PC, Idle
  <2>2. TypeOK'
    BY <1>2 DEF Stop, Request, Cancelled, BeginTeardown, MustWait, HasClient, SetStatus, Written,
       Heard, tableVars, engineVars, histVars, boundVars, IInv, TypeOK, OpInv, OpRow, EngineStatus,
       ClientState, Kind, PC, Idle, Reconnect
  <2>3. EngineInv'
    BY <1>2 DEF Stop, Request, Cancelled, BeginTeardown, MustWait, HasClient, SetStatus, Written,
       Heard, tableVars, engineVars, histVars, boundVars, IInv, TypeOK, OpInv, EngineInv
  <2>4. ReadyInv'
    BY <1>2 DEF Stop, Request, Cancelled, BeginTeardown, MustWait, HasClient, SetStatus, Written,
       Heard, tableVars, engineVars, histVars, boundVars, IInv, TypeOK, OpInv, OpRow, EngineInv, ReadyInv,
       Up, Idle
  <2>5. StopInv'
    BY <1>2 DEF Stop, Request, Cancelled, BeginTeardown, MustWait, HasClient, SetStatus, Written,
       Heard, tableVars, engineVars, histVars, boundVars, IInv, TypeOK, OpInv, StopInv, Up, Idle
  <2>6. MapInv'
    BY <1>2 DEF Stop, Request, Cancelled, BeginTeardown, MustWait, HasClient, SetStatus, Written,
       Heard, tableVars, engineVars, histVars, boundVars, IInv, TypeOK, OpInv, MapInv, Up, Idle
  <2> QED
    BY <2>1, <2>2, <2>3, <2>4, <2>5, <2>6 DEF IInv
<1>3. ASSUME NEW o \in Op, Delete(o) PROVE IInv'
  <2>1. OpInv'
    BY <1>3 DEF Delete, Request, Cancelled, BeginTeardown, MustWait, HasClient, SetStatus,
       Written, Heard, tableVars, engineVars, histVars, boundVars, IInv, TypeOK, OpInv, OpRow, Kind, PC,
       Idle
  <2>2. TypeOK'
    BY <1>3 DEF Delete, Request, Cancelled, BeginTeardown, MustWait, HasClient, SetStatus,
       Written, Heard, tableVars, engineVars, histVars, boundVars, IInv, TypeOK, OpInv, OpRow, EngineStatus,
       ClientState, Kind, PC, Idle, Reconnect
  <2>3. EngineInv'
    BY <1>3 DEF Delete, Request, Cancelled, BeginTeardown, MustWait, HasClient, SetStatus,
       Written, Heard, tableVars, engineVars, histVars, boundVars, IInv, TypeOK, OpInv, EngineInv
  <2>4. ReadyInv'
    BY <1>3 DEF Delete, Request, Cancelled, BeginTeardown, MustWait, HasClient, SetStatus,
       Written, Heard, tableVars, engineVars, histVars, boundVars, IInv, TypeOK, OpInv, OpRow, EngineInv,
       ReadyInv, Up, Idle
  <2>5. StopInv'
    BY <1>3 DEF Delete, Request, Cancelled, BeginTeardown, MustWait, HasClient, SetStatus,
       Written, Heard, tableVars, engineVars, histVars, boundVars, IInv, TypeOK, OpInv, StopInv, Up, Idle
  <2>6. MapInv'
    BY <1>3 DEF Delete, Request, Cancelled, BeginTeardown, MustWait, HasClient, SetStatus,
       Written, Heard, tableVars, engineVars, histVars, boundVars, IInv, TypeOK, OpInv, MapInv, Up, Idle
  <2> QED
    BY <2>1, <2>2, <2>3, <2>4, <2>5, <2>6 DEF IInv
<1>4. ASSUME NEW o \in Op, TimerFires(o) PROVE IInv'
  <2>1. OpInv'
    BY <1>4 DEF TimerFires, BeginTeardown, MustWait, HasClient, Register, SetStatus, Written,
       Heard, tableVars, engineVars, histVars, boundVars, IInv, TypeOK, OpInv, OpRow, Kind, PC, Idle
  <2>2. TypeOK'
    <3>1. (row \in EngineStatus \cup {"GONE"})' /\ (live \in Engine \cup {None})' /\ (rec \in Reconnect \cup {None})'
      BY <1>4 DEF TimerFires, BeginTeardown, MustWait, HasClient, Register, SetStatus, Written,
         Heard, tableVars, engineVars, histVars, boundVars, IInv, TypeOK, OpInv, EngineStatus, Reconnect
    <3>2. ({stopping, starting, stray, overtaken, lateReady} \subseteq BOOLEAN)'
      BY <1>4 DEF TimerFires, BeginTeardown, MustWait, HasClient, Register, SetStatus, Written,
         Heard, tableVars, engineVars, histVars, boundVars, IInv, TypeOK
    <3>3. /\ (client \in [Engine -> ClientState])' /\ (est \in [Engine -> EngineStatus])' /\ (tearing \subseteq Engine /\ strayed \subseteq Engine)'
          /\ (live # None => client[live] # "unborn")'
      BY <1>4 DEF TimerFires, BeginTeardown, MustWait, HasClient, Register, SetStatus, Written,
         Heard, tableVars, engineVars, histVars, boundVars, IInv, TypeOK, OpInv, EngineStatus, ClientState
    <3>4. ({requests, drops, faults} \subseteq Nat)'
      BY <1>4 DEF TimerFires, BeginTeardown, MustWait, HasClient, Register, SetStatus, Written,
         Heard, tableVars, engineVars, histVars, boundVars, IInv, TypeOK
    <3>5. (\A u \in Op : op[u] = Idle \/ op[u] \in [kind : Kind, pc : PC, eng : Engine \cup {None}])'
      BY <2>1 DEF OpInv, OpRow
    <3> QED
      BY <3>1, <3>2, <3>3, <3>4, <3>5 DEF TypeOK
  <2>3. EngineInv'
    BY <1>4 DEF TimerFires, BeginTeardown, MustWait, HasClient, Register, SetStatus, Written,
       Heard, tableVars, engineVars, histVars, boundVars, IInv, TypeOK, OpInv, EngineInv
  <2>4. ReadyInv'
    <3>1. CASE Register(o, "reconnect") /\ UNCHANGED <<est, tearing>>
      <4>1. row' # "READY" /\ live' \in Engine /\ est[live'] = "DISCONNECTED" /\ est' = est
        BY <3>1, Registering DEF Kind
      <4> QED
        BY <4>1 DEF ReadyInv
    <3>2. CASE MustWait /\ BeginTeardown(o, "reconnect", "old") /\ UNCHANGED <<live, client>>
      BY <3>2 DEF BeginTeardown, MustWait, SetStatus, Heard, Written, IInv, TypeOK, ReadyInv,
         Up
    <3>3. CASE UNCHANGED <<row, live, op, engineVars>>
      BY <1>4, <3>3 DEF TimerFires, engineVars, histVars, IInv, ReadyInv, Up
    <3> QED
      BY <1>4, <3>1, <3>2, <3>3 DEF TimerFires
  <2>5. StopInv'
    BY <1>4 DEF TimerFires, BeginTeardown, MustWait, HasClient, Register, SetStatus, Written,
       Heard, tableVars, engineVars, histVars, boundVars, IInv, TypeOK, OpInv, StopInv, Up, Idle
  <2>6. MapInv'
    BY <1>4 DEF TimerFires, BeginTeardown, MustWait, HasClient, Register, SetStatus, Written,
       Heard, tableVars, engineVars, histVars, boundVars, IInv, TypeOK, OpInv, MapInv, Up, Idle
  <2> QED
    BY <2>1, <2>2, <2>3, <2>4, <2>5, <2>6 DEF IInv
<1>5. ASSUME NEW o \in Op, StartEngine(o) PROVE IInv'
  <2>1. OpInv'
    BY <1>5 DEF StartEngine, Strays, Register, Written, tableVars, engineVars, histVars, boundVars, IInv, TypeOK,
       OpInv, OpRow, Kind, PC, Idle
  <2>2. TypeOK'
    BY <1>5 DEF StartEngine, Strays, Register, Written, tableVars, engineVars, histVars, boundVars, IInv, TypeOK,
       OpInv, OpRow, EngineStatus, ClientState, Kind, PC, Idle, Reconnect
  <2>3. EngineInv'
    BY <1>5 DEF StartEngine, Strays, Register, Written, tableVars, engineVars, histVars, boundVars, IInv, TypeOK,
       OpInv, EngineInv
  <2>4. ReadyInv'
    <3>1. row' # "READY" /\ live' \in Engine /\ est[live'] = "DISCONNECTED" /\ est' = est
      BY <1>5, Registering DEF StartEngine, Strays, Kind
    <3> QED
      BY <3>1 DEF ReadyInv
  <2>5. StopInv'
    BY <1>5 DEF StartEngine, Strays, Register, Written, tableVars, engineVars, histVars, boundVars, IInv, TypeOK,
       OpInv, StopInv, Up, Idle
  <2>6. MapInv'
    BY <1>5 DEF StartEngine, Strays, Register, Written, tableVars, engineVars, histVars, boundVars, IInv, TypeOK,
       OpInv, MapInv, Up, Idle
  <2> QED
    BY <2>1, <2>2, <2>3, <2>4, <2>5, <2>6 DEF IInv
<1>6. ASSUME NEW o \in Op, Launch(o) PROVE IInv'
  <2>1. OpInv'
    BY <1>6 DEF Launch, Goto, SetStatus, Written, Heard, tableVars, engineVars, histVars, boundVars, IInv,
       TypeOK, OpInv, OpRow, Kind, PC, Idle
  <2>2. TypeOK'
    BY <1>6 DEF Launch, Goto, SetStatus, Written, Heard, tableVars, engineVars, histVars, boundVars, IInv,
       TypeOK, OpInv, OpRow, EngineStatus, ClientState, Kind, PC, Idle, Reconnect
  <2>3. EngineInv'
    BY <1>6 DEF Launch, Goto, SetStatus, Written, Heard, tableVars, engineVars, histVars, boundVars, IInv,
       TypeOK, OpInv, EngineInv
  <2>4. ReadyInv'
    BY <1>6 DEF Launch, Goto, SetStatus, Written, Heard, tableVars, engineVars, histVars, boundVars, IInv,
       TypeOK, OpInv, OpRow, EngineInv, ReadyInv, Up, Idle
  <2>5. StopInv'
    BY <1>6 DEF Launch, Goto, SetStatus, Written, Heard, tableVars, engineVars, histVars, boundVars, IInv,
       TypeOK, OpInv, StopInv, Up, Idle
  <2>6. MapInv'
    BY <1>6 DEF Launch, Goto, SetStatus, Written, Heard, tableVars, engineVars, histVars, boundVars, IInv,
       TypeOK, OpInv, MapInv, Up, Idle
  <2> QED
    BY <2>1, <2>2, <2>3, <2>4, <2>5, <2>6 DEF IInv
<1>7. ASSUME NEW o \in Op, LaunchDone(o) PROVE IInv'
  <2>1. OpInv'
    BY <1>7 DEF LaunchDone, BeginTeardown, MustWait, HasClient, SetStatus, Written, Heard, Finish,
       tableVars, engineVars, histVars, boundVars, IInv, TypeOK, OpInv, OpRow, Kind, PC, Idle
  <2>2. TypeOK'
    <3>1. (row \in EngineStatus \cup {"GONE"})' /\ (live \in Engine \cup {None})' /\ (rec \in Reconnect \cup {None})'
      BY <1>7 DEF LaunchDone, BeginTeardown, MustWait, HasClient, SetStatus, Written, Heard,
         Finish, tableVars, engineVars, histVars, boundVars, IInv, TypeOK, OpInv, EngineStatus, Reconnect
    <3>2. ({stopping, starting, stray, overtaken, lateReady} \subseteq BOOLEAN)'
      BY <1>7 DEF LaunchDone, BeginTeardown, MustWait, HasClient, SetStatus, Written, Heard,
         Finish, tableVars, engineVars, histVars, boundVars, IInv, TypeOK
    <3>3. /\ (client \in [Engine -> ClientState])' /\ (est \in [Engine -> EngineStatus])' /\ (tearing \subseteq Engine /\ strayed \subseteq Engine)'
          /\ (live # None => client[live] # "unborn")'
      BY <1>7 DEF LaunchDone, BeginTeardown, MustWait, HasClient, SetStatus, Written, Heard,
         Finish, tableVars, engineVars, histVars, boundVars, IInv, TypeOK, OpInv, EngineStatus, ClientState
    <3>4. ({requests, drops, faults} \subseteq Nat)'
      BY <1>7 DEF LaunchDone, BeginTeardown, MustWait, HasClient, SetStatus, Written, Heard,
         Finish, tableVars, engineVars, histVars, boundVars, IInv, TypeOK
    <3>5. (\A u \in Op : op[u] = Idle \/ op[u] \in [kind : Kind, pc : PC, eng : Engine \cup {None}])'
      BY <2>1 DEF OpInv, OpRow
    <3> QED
      BY <3>1, <3>2, <3>3, <3>4, <3>5 DEF TypeOK
  <2>3. EngineInv'
    BY <1>7 DEF LaunchDone, BeginTeardown, MustWait, HasClient, SetStatus, Written, Heard, Finish,
       tableVars, engineVars, histVars, boundVars, IInv, TypeOK, OpInv, EngineInv
  <2>4. ReadyInv'
    BY <1>7 DEF LaunchDone, BeginTeardown, MustWait, HasClient, SetStatus, Written, Heard, Finish,
       tableVars, engineVars, histVars, boundVars, IInv, TypeOK, OpInv, OpRow, EngineInv, ReadyInv,
       Up, Idle
  <2>5. StopInv'
    BY <1>7 DEF LaunchDone, BeginTeardown, MustWait, HasClient, SetStatus, Written, Heard, Finish,
       tableVars, engineVars, histVars, boundVars, IInv, TypeOK, OpInv, StopInv, Up, Idle
  <2>6. MapInv'
    BY <1>7 DEF LaunchDone, BeginTeardown, MustWait, HasClient, SetStatus, Written, Heard, Finish,
       tableVars, engineVars, histVars, boundVars, IInv, TypeOK, OpInv, MapInv, Up, Idle
  <2> QED
    BY <2>1, <2>2, <2>3, <2>4, <2>5, <2>6 DEF IInv
<1>8. ASSUME NEW o \in Op, LaunchFails(o) PROVE IInv'
  <2>1. OpInv'
    BY <1>8 DEF LaunchFails, Fault, Heard, Written, Scheduled, AfterSchedule, Finish, tableVars,
       engineVars, histVars, boundVars, IInv, TypeOK, OpInv, OpRow, Kind, PC, Idle
  <2>2. TypeOK'
    BY <1>8 DEF LaunchFails, Fault, Heard, Written, Scheduled, AfterSchedule, Finish, tableVars,
       engineVars, histVars, boundVars, IInv, TypeOK, OpInv, OpRow, EngineStatus, ClientState, Kind, PC,
       Idle, Reconnect
  <2>3. EngineInv'
    BY <1>8 DEF LaunchFails, Fault, Heard, Written, Scheduled, AfterSchedule, Finish, tableVars,
       engineVars, histVars, boundVars, IInv, TypeOK, OpInv, EngineInv
  <2>4. ReadyInv'
    BY <1>8 DEF LaunchFails, Fault, Heard, Written, Scheduled, AfterSchedule, Finish, tableVars,
       engineVars, histVars, boundVars, IInv, TypeOK, OpInv, OpRow, EngineInv, ReadyInv, Up,
       Idle
  <2>5. StopInv'
    BY <1>8 DEF LaunchFails, Fault, Heard, Written, Scheduled, AfterSchedule, Finish, tableVars,
       engineVars, histVars, boundVars, IInv, TypeOK, OpInv, StopInv, Up, Idle
  <2>6. MapInv'
    BY <1>8 DEF LaunchFails, Fault, Heard, Written, Scheduled, AfterSchedule, Finish, tableVars,
       engineVars, histVars, boundVars, IInv, TypeOK, OpInv, MapInv, Up, Idle
  <2> QED
    BY <2>1, <2>2, <2>3, <2>4, <2>5, <2>6 DEF IInv
<1>9. ASSUME NEW o \in Op, Remove(o) PROVE IInv'
  <2>1. OpInv'
    BY <1>9 DEF Remove, Fault, Finish, tableVars, engineVars, histVars, boundVars, IInv, TypeOK, OpInv,
       OpRow, Kind, PC, Idle
  <2>2. TypeOK'
    <3>1. (row \in EngineStatus \cup {"GONE"})' /\ (live \in Engine \cup {None})' /\ (rec \in Reconnect \cup {None})'
      BY <1>9 DEF Remove, Fault, Finish, tableVars, engineVars, histVars, boundVars, IInv, TypeOK, OpInv,
         EngineStatus, Reconnect
    <3>2. ({stopping, starting, stray, overtaken, lateReady} \subseteq BOOLEAN)'
      BY <1>9 DEF Remove, Fault, Finish, tableVars, engineVars, histVars, boundVars, IInv, TypeOK
    <3>3. /\ (client \in [Engine -> ClientState])' /\ (est \in [Engine -> EngineStatus])' /\ (tearing \subseteq Engine /\ strayed \subseteq Engine)'
          /\ (live # None => client[live] # "unborn")'
      BY <1>9 DEF Remove, Fault, Finish, tableVars, engineVars, histVars, boundVars, IInv, TypeOK, OpInv,
         EngineStatus, ClientState
    <3>4. ({requests, drops, faults} \subseteq Nat)'
      BY <1>9 DEF Remove, Fault, Finish, tableVars, engineVars, histVars, boundVars, IInv, TypeOK
    <3>5. (\A u \in Op : op[u] = Idle \/ op[u] \in [kind : Kind, pc : PC, eng : Engine \cup {None}])'
      BY <2>1 DEF OpInv, OpRow
    <3> QED
      BY <3>1, <3>2, <3>3, <3>4, <3>5 DEF TypeOK
  <2>3. EngineInv'
    BY <1>9 DEF Remove, Fault, Finish, tableVars, engineVars, histVars, boundVars, IInv, TypeOK, OpInv,
       EngineInv
  <2>4. ReadyInv'
    BY <1>9 DEF Remove, Fault, Finish, tableVars, engineVars, histVars, boundVars, IInv, TypeOK, OpInv,
       OpRow, EngineInv, ReadyInv, Up, Idle
  <2>5. StopInv'
    BY <1>9 DEF Remove, Fault, Finish, tableVars, engineVars, histVars, boundVars, IInv, TypeOK, OpInv,
       StopInv, Up, Idle
  <2>6. MapInv'
    BY <1>9 DEF Remove, Fault, Finish, tableVars, engineVars, histVars, boundVars, IInv, TypeOK, OpInv,
       MapInv, Up, Idle
  <2> QED
    BY <2>1, <2>2, <2>3, <2>4, <2>5, <2>6 DEF IInv
<1>10. ASSUME NEW o \in Op, TornDown(o) PROVE IInv'
  <2>1. OpInv'
    BY <1>10 DEF TornDown, Overtake, Strays, TeardownOver, Written, Goto, Finish, tableVars, engineVars, histVars, boundVars,
       IInv, TypeOK, OpInv, OpRow, Kind, PC, Idle
  <2>2. TypeOK'
    BY <1>10 DEF TornDown, Overtake, Strays, TeardownOver, Written, Goto, Finish, tableVars, engineVars, histVars, boundVars,
       IInv, TypeOK, OpInv, OpRow, EngineStatus, ClientState, Kind, PC, Idle, Reconnect
  <2>3. EngineInv'
    BY <1>10 DEF TornDown, Overtake, Strays, TeardownOver, Written, Goto, Finish, tableVars, engineVars, histVars, boundVars,
       IInv, TypeOK, OpInv, EngineInv
  <2>4. ReadyInv'
    BY <1>10 DEF TornDown, Overtake, Strays, TeardownOver, Written, Goto, Finish, tableVars, engineVars, histVars, boundVars,
       IInv, TypeOK, OpInv, OpRow, EngineInv, ReadyInv, Up, Idle
  <2>5. StopInv'
    BY <1>10 DEF TornDown, Overtake, Strays, TeardownOver, Written, Goto, Finish, tableVars, engineVars, histVars, boundVars,
       IInv, TypeOK, OpInv, StopInv, Up, Idle
  <2>6. MapInv'
    BY <1>10 DEF TornDown, Overtake, Strays, TeardownOver, Written, Goto, Finish, tableVars, engineVars, histVars, boundVars,
       IInv, TypeOK, OpInv, MapInv, Up, Idle
  <2> QED
    BY <2>1, <2>2, <2>3, <2>4, <2>5, <2>6 DEF IInv
<1>11. ASSUME NEW o \in Op, Replace(o) PROVE IInv'
  <2>1. OpInv'
    BY <1>11 DEF Replace, Overtake, Strays, TeardownOver, Register, Written, tableVars, engineVars, histVars, boundVars, IInv,
       TypeOK, OpInv, OpRow, Kind, PC, Idle
  <2>2. TypeOK'
    BY <1>11 DEF Replace, Overtake, Strays, TeardownOver, Register, Written, tableVars, engineVars, histVars, boundVars, IInv,
       TypeOK, OpInv, OpRow, EngineStatus, ClientState, Kind, PC, Idle, Reconnect
  <2>3. EngineInv'
    BY <1>11 DEF Replace, Overtake, Strays, TeardownOver, Register, Written, tableVars, engineVars, histVars, boundVars, IInv,
       TypeOK, OpInv, EngineInv
  <2>4. ReadyInv'
    <3>1. row' # "READY" /\ live' \in Engine /\ est[live'] = "DISCONNECTED" /\ est' = est
      BY <1>11, Registering DEF Replace, Overtake, Strays, Kind
    <3> QED
      BY <3>1 DEF ReadyInv
  <2>5. StopInv'
    BY <1>11 DEF Replace, Overtake, Strays, TeardownOver, Register, Written, tableVars, engineVars, histVars, boundVars, IInv,
       TypeOK, OpInv, StopInv, Up, Idle
  <2>6. MapInv'
    BY <1>11 DEF Replace, Overtake, Strays, TeardownOver, Register, Written, tableVars, engineVars, histVars, boundVars, IInv,
       TypeOK, OpInv, MapInv, Up, Idle
  <2> QED
    BY <2>1, <2>2, <2>3, <2>4, <2>5, <2>6 DEF IInv
<1>12. ASSUME NEW e \in Engine, Qr(e) PROVE IInv'
  <2>1. OpInv'
    BY <1>12 DEF Qr, SetStatus, Written, Heard, Up, tableVars, engineVars, histVars, boundVars, IInv,
       TypeOK, OpInv, OpRow, Kind, PC, Idle
  <2>2. TypeOK'
    BY <1>12 DEF Qr, SetStatus, Written, Heard, Up, tableVars, engineVars, histVars, boundVars, IInv,
       TypeOK, OpInv, OpRow, EngineStatus, ClientState, Kind, PC, Idle, Reconnect
  <2>3. EngineInv'
    BY <1>12 DEF Qr, SetStatus, Written, Heard, Up, tableVars, engineVars, histVars, boundVars, IInv,
       TypeOK, OpInv, EngineInv
  <2>4. ReadyInv'
    BY <1>12 DEF Qr, SetStatus, Written, Heard, Up, tableVars, engineVars, histVars, boundVars, IInv,
       TypeOK, OpInv, OpRow, EngineInv, ReadyInv, Up, Idle
  <2>5. StopInv'
    BY <1>12 DEF Qr, SetStatus, Written, Heard, Up, tableVars, engineVars, histVars, boundVars, IInv,
       TypeOK, OpInv, StopInv, Up, Idle
  <2>6. MapInv'
    BY <1>12 DEF Qr, SetStatus, Written, Heard, Up, tableVars, engineVars, histVars, boundVars, IInv,
       TypeOK, OpInv, MapInv, Up, Idle
  <2> QED
    BY <2>1, <2>2, <2>3, <2>4, <2>5, <2>6 DEF IInv
<1>13. ASSUME NEW e \in Engine, Authenticated(e) PROVE IInv'
  <2>1. OpInv'
    BY <1>13 DEF Authenticated, SetStatus, Written, Heard, Up, tableVars, engineVars, histVars, boundVars,
       IInv, TypeOK, OpInv, OpRow, Kind, PC, Idle
  <2>2. TypeOK'
    BY <1>13 DEF Authenticated, SetStatus, Written, Heard, Up, tableVars, engineVars, histVars, boundVars,
       IInv, TypeOK, OpInv, OpRow, EngineStatus, ClientState, Kind, PC, Idle, Reconnect
  <2>3. EngineInv'
    BY <1>13 DEF Authenticated, SetStatus, Written, Heard, Up, tableVars, engineVars, histVars, boundVars,
       IInv, TypeOK, OpInv, EngineInv
  <2>4. ReadyInv'
    BY <1>13 DEF Authenticated, SetStatus, Written, Heard, Up, tableVars, engineVars, histVars, boundVars,
       IInv, TypeOK, OpInv, OpRow, EngineInv, ReadyInv, Up, Idle
  <2>5. StopInv'
    BY <1>13 DEF Authenticated, SetStatus, Written, Heard, Up, tableVars, engineVars, histVars, boundVars,
       IInv, TypeOK, OpInv, StopInv, Up, Idle
  <2>6. MapInv'
    BY <1>13 DEF Authenticated, SetStatus, Written, Heard, Up, tableVars, engineVars, histVars, boundVars,
       IInv, TypeOK, OpInv, MapInv, Up, Idle
  <2> QED
    BY <2>1, <2>2, <2>3, <2>4, <2>5, <2>6 DEF IInv
<1>14. ASSUME NEW e \in Engine, Ready(e) PROVE IInv'
  <2>1. OpInv'
    BY <1>14 DEF Ready, SetStatus, Written, Heard, Up, tableVars, engineVars, histVars, boundVars, IInv,
       TypeOK, OpInv, OpRow, Kind, PC, Idle
  <2>2. TypeOK'
    <3>1. lateReady' \in BOOLEAN
      BY <1>14, Zenon DEF Ready, IInv, TypeOK
    <3>2. (row \in EngineStatus \cup {"GONE"} /\ est \in [Engine -> EngineStatus] /\ rec \in Reconnect \cup {None})'
      BY <1>14 DEF Ready, SetStatus, Written, Heard, IInv, TypeOK, EngineStatus, Reconnect
    <3> QED
      BY <1>14, <3>1, <3>2 DEF Ready, boundVars, IInv, TypeOK
  <2>3. EngineInv'
    BY <1>14 DEF Ready, SetStatus, Written, Heard, Up, tableVars, engineVars, histVars, boundVars, IInv,
       TypeOK, OpInv, EngineInv
  <2>4. ReadyInv'
    BY <1>14 DEF Ready, SetStatus, Written, Heard, Up, tableVars, engineVars, histVars, boundVars, IInv,
       TypeOK, OpInv, OpRow, EngineInv, ReadyInv, Up, Idle
  <2>5. StopInv'
    BY <1>14 DEF Ready, SetStatus, Written, Heard, Up, tableVars, engineVars, histVars, boundVars, IInv,
       TypeOK, OpInv, StopInv, Up, Idle
  <2>6. MapInv'
    BY <1>14 DEF Ready, SetStatus, Written, Heard, Up, tableVars, engineVars, histVars, boundVars, IInv,
       TypeOK, OpInv, MapInv, Up, Idle
  <2> QED
    BY <2>1, <2>2, <2>3, <2>4, <2>5, <2>6 DEF IInv
<1>15. ASSUME NEW e \in Engine, Disconnected(e) PROVE IInv'
  <2>1. OpInv'
    BY <1>15 DEF Disconnected, Written, Heard, Scheduled, AfterSchedule, Up, tableVars,
       engineVars, histVars, boundVars, IInv, TypeOK, OpInv, OpRow, Kind, PC, Idle
  <2>2. TypeOK'
    BY <1>15 DEF Disconnected, Written, Heard, Scheduled, AfterSchedule, Up, tableVars,
       engineVars, histVars, boundVars, IInv, TypeOK, OpInv, OpRow, EngineStatus, ClientState, Kind, PC,
       Idle, Reconnect
  <2>3. EngineInv'
    BY <1>15 DEF Disconnected, Written, Heard, Scheduled, AfterSchedule, Up, tableVars,
       engineVars, histVars, boundVars, IInv, TypeOK, OpInv, EngineInv
  <2>4. ReadyInv'
    BY <1>15 DEF Disconnected, Written, Heard, Scheduled, AfterSchedule, Up, tableVars,
       engineVars, histVars, boundVars, IInv, TypeOK, OpInv, OpRow, EngineInv, ReadyInv, Up,
       Idle
  <2>5. StopInv'
    BY <1>15 DEF Disconnected, Written, Heard, Scheduled, AfterSchedule, Up, tableVars,
       engineVars, histVars, boundVars, IInv, TypeOK, OpInv, StopInv, Up, Idle
  <2>6. MapInv'
    BY <1>15 DEF Disconnected, Written, Heard, Scheduled, AfterSchedule, Up, tableVars,
       engineVars, histVars, boundVars, IInv, TypeOK, OpInv, MapInv, Up, Idle
  <2> QED
    BY <2>1, <2>2, <2>3, <2>4, <2>5, <2>6 DEF IInv
<1>16. ASSUME NEW e \in Engine, AuthFailure(e) PROVE IInv'
  <2>1. OpInv'
    BY <1>16 DEF AuthFailure, SetStatus, Written, Heard, Fault, Up, tableVars, engineVars, histVars,
       boundVars, IInv, TypeOK, OpInv, OpRow, Kind, PC, Idle
  <2>2. TypeOK'
    BY <1>16 DEF AuthFailure, SetStatus, Written, Heard, Fault, Up, tableVars, engineVars, histVars,
       boundVars, IInv, TypeOK, OpInv, OpRow, EngineStatus, ClientState, Kind, PC, Idle, Reconnect
  <2>3. EngineInv'
    BY <1>16 DEF AuthFailure, SetStatus, Written, Heard, Fault, Up, tableVars, engineVars, histVars,
       boundVars, IInv, TypeOK, OpInv, EngineInv
  <2>4. ReadyInv'
    BY <1>16 DEF AuthFailure, SetStatus, Written, Heard, Fault, Up, tableVars, engineVars, histVars,
       boundVars, IInv, TypeOK, OpInv, OpRow, EngineInv, ReadyInv, Up, Idle
  <2>5. StopInv'
    BY <1>16 DEF AuthFailure, SetStatus, Written, Heard, Fault, Up, tableVars, engineVars, histVars,
       boundVars, IInv, TypeOK, OpInv, StopInv, Up, Idle
  <2>6. MapInv'
    BY <1>16 DEF AuthFailure, SetStatus, Written, Heard, Fault, Up, tableVars, engineVars, histVars,
       boundVars, IInv, TypeOK, OpInv, MapInv, Up, Idle
  <2> QED
    BY <2>1, <2>2, <2>3, <2>4, <2>5, <2>6 DEF IInv
<1>17. ASSUME NEW e \in Engine, ClientCloses(e) PROVE IInv'
  <2>1. OpInv'
    BY <1>17 DEF ClientCloses, HasClient, tableVars, engineVars, histVars, boundVars, IInv, TypeOK, OpInv,
       OpRow, Kind, PC, Idle
  <2>2. TypeOK'
    BY <1>17 DEF ClientCloses, HasClient, tableVars, engineVars, histVars, boundVars, IInv, TypeOK, OpInv,
       OpRow, EngineStatus, ClientState, Kind, PC, Idle, Reconnect
  <2>3. EngineInv'
    BY <1>17 DEF ClientCloses, HasClient, tableVars, engineVars, histVars, boundVars, IInv, TypeOK, OpInv,
       EngineInv
  <2>4. ReadyInv'
    BY <1>17 DEF ClientCloses, HasClient, tableVars, engineVars, histVars, boundVars, IInv, TypeOK, OpInv,
       OpRow, EngineInv, ReadyInv, Up, Idle
  <2>5. StopInv'
    BY <1>17 DEF ClientCloses, HasClient, tableVars, engineVars, histVars, boundVars, IInv, TypeOK, OpInv,
       StopInv, Up, Idle
  <2>6. MapInv'
    BY <1>17 DEF ClientCloses, HasClient, tableVars, engineVars, histVars, boundVars, IInv, TypeOK, OpInv,
       MapInv, Up, Idle
  <2> QED
    BY <2>1, <2>2, <2>3, <2>4, <2>5, <2>6 DEF IInv
<1>18. ASSUME Restart PROVE IInv'
  <2>1. OpInv'
    BY <1>18 DEF Restart, Fault, tableVars, engineVars, histVars, boundVars, IInv, TypeOK, OpInv, OpRow,
       Kind, PC, Idle
  <2>2. TypeOK'
    <3>1. (row \in EngineStatus \cup {"GONE"})' /\ (live \in Engine \cup {None})' /\ (rec \in Reconnect \cup {None})'
      BY <1>18 DEF Restart, Fault, tableVars, engineVars, histVars, boundVars, IInv, TypeOK, OpInv,
         EngineStatus, Reconnect
    <3>2. ({stopping, starting, stray, overtaken, lateReady} \subseteq BOOLEAN)'
      BY <1>18 DEF Restart, Fault, tableVars, engineVars, histVars, boundVars, IInv, TypeOK
    <3>3. /\ (client \in [Engine -> ClientState])' /\ (est \in [Engine -> EngineStatus])' /\ (tearing \subseteq Engine /\ strayed \subseteq Engine)'
          /\ (live # None => client[live] # "unborn")'
      BY <1>18 DEF Restart, Fault, tableVars, engineVars, histVars, boundVars, IInv, TypeOK, OpInv,
         EngineStatus, ClientState
    <3>4. ({requests, drops, faults} \subseteq Nat)'
      BY <1>18 DEF Restart, Fault, tableVars, engineVars, histVars, boundVars, IInv, TypeOK
    <3>5. (\A u \in Op : op[u] = Idle \/ op[u] \in [kind : Kind, pc : PC, eng : Engine \cup {None}])'
      BY <2>1 DEF OpInv, OpRow
    <3> QED
      BY <3>1, <3>2, <3>3, <3>4, <3>5 DEF TypeOK
  <2>3. EngineInv'
    BY <1>18 DEF Restart, Fault, tableVars, engineVars, histVars, boundVars, IInv, TypeOK, OpInv, EngineInv
  <2>4. ReadyInv'
    BY <1>18 DEF Restart, Fault, tableVars, engineVars, histVars, boundVars, IInv, TypeOK, OpInv, OpRow,
       EngineInv, ReadyInv, Up, Idle
  <2>5. StopInv'
    BY <1>18 DEF Restart, Fault, tableVars, engineVars, histVars, boundVars, IInv, TypeOK, OpInv, StopInv,
       Up, Idle
  <2>6. MapInv'
    BY <1>18 DEF Restart, Fault, tableVars, engineVars, histVars, boundVars, IInv, TypeOK, OpInv, MapInv,
       Up, Idle
  <2> QED
    BY <2>1, <2>2, <2>3, <2>4, <2>5, <2>6 DEF IInv
<1>19. CASE UNCHANGED vars
  BY <1>19 DEF vars, tableVars, engineVars, histVars, boundVars, IInv, TypeOK, OpInv, EngineInv, ReadyInv,
     MapInv, StopInv, Up
<1> QED
  BY <1>1, <1>2, <1>3, <1>4, <1>5, <1>6, <1>7, <1>8, <1>9, <1>10, <1>11, <1>12, <1>13, <1>14,
     <1>15, <1>16, <1>17, <1>18, <1>19 DEF Next, Continue, ClientStep

-----------------------------------------------------------------------------
(* The theorems.                                                           *)

\* The invariant holds at the start, and every step keeps it.
THEOREM Inductive == Spec => []IInv
<1>1. Init => IInv
  <2> SUFFICES ASSUME Init PROVE IInv
    OBVIOUS
  <2>1. op \in [Op -> {Idle}]
    BY DEF Init
  <2>2. TypeOK
    <3>1. {stopping, starting, stray, overtaken, lateReady} \subseteq BOOLEAN
      BY DEF Init
    <3>2. \A o \in Op : op[o] = Idle
      BY <2>1
    <3>3. client \in [Engine -> ClientState] /\ est \in [Engine -> EngineStatus]
      BY DEF Init, ClientState, EngineStatus
    <3>4. /\ row \in EngineStatus \cup {"GONE"} /\ live = None /\ rec = None
          /\ tearing \subseteq Engine /\ strayed \subseteq Engine
          /\ {requests, drops, faults} \subseteq Nat
      BY DEF Init, EngineStatus
    <3> QED
      BY <3>1, <3>2, <3>3, <3>4 DEF TypeOK
  <2>3. OpInv
    BY <2>1 DEF OpInv, Idle
  <2>4. EngineInv /\ ReadyInv /\ MapInv /\ StopInv
    BY DEF Init, EngineInv, ReadyInv, MapInv, StopInv, Up
  <2> QED
    BY <2>2, <2>3, <2>4 DEF IInv
<1> QED
  BY <1>1, Step, PTL DEF Spec

\* The variables keep their types, the attempts of a reconnect their maximum.
THEOREM TypeCorrect == Spec => []TypeOK
<1>1. IInv => TypeOK
  BY DEF IInv
<1> QED
  BY <1>1, Inductive, PTL

\* A session that says READY has an engine in the map and that engine is ready,
\* whatever late callbacks of superseded engines arrive; only an engine that
\* reports ready in its own teardown can leave the row behind.
THEOREM ReadyIsReal == Spec => []ReadyMeansLive
<1>1. IInv => ReadyMeansLive
  BY DEF IInv, ReadyInv, ReadyMeansLive
<1> QED
  BY <1>1, Inductive, PTL

\* Once what was in flight has ended, every running engine of a stopped session is
\* being torn down or had lost its place in the map before, however start, stop
\* and reconnect overlapped.
THEOREM StopIsTheLastWord == Spec => []StopWins
<1>1. IInv => StopWins
  <2> SUFFICES ASSUME IInv, Quiet, stopping, NEW e \in Engine, Up(e), e \notin tearing \cup strayed
               PROVE FALSE
    BY DEF StopWins
  <2>1. e = live
    BY DEF IInv, MapInv
  <2>2. PICK o \in Op : op[o].pc = "init"
    BY <2>1, NoneAssumption DEF IInv, StopInv
  <2> QED
    BY <2>2 DEF Quiet, Idle
<1> QED
  BY <1>1, Inductive, PTL

===============================================================================
