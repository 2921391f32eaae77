----------------------------- MODULE TurnGuard ------------------------------
(***************************************************************************)
(* ProcessMessage of the agent and the TurnGuard it runs a Turn under      *)
(* (ecom_agent/server.py, ecom_agent/turn_guard.py, ecom_agent/db.py).     *)
(*                                                                         *)
(* Handler threads of several agent processes serve calls for the same     *)
(* Conversations.  The lock of a Conversation is a Postgres session lock   *)
(* held by the thread's own connection; results are rows of the shared     *)
(* store.  A process can die at any step, and a connection can drop while  *)
(* its thread carries on, because nothing looks at the connection again    *)
(* between the lock and conn.close().                                      *)
(*                                                                         *)
(* The Turn itself (app.invoke) is one nondeterministic step here: it ends *)
(* with some result.                                                       *)
(***************************************************************************)
EXTENDS Naturals

CONSTANTS
    Message,            \* customer messages
    Conversation,       \* conversations
    ConversationOf,     \* the Conversation a Message belongs to
    Agent,              \* agent processes
    Thread,             \* gRPC handler threads of all agent processes
    AgentOf,            \* the process a thread lives in
    Text,               \* reply texts a Turn can produce
    HandOver,           \* TurnResult(escalate=True)
    NoResult,           \* no row in the store
    Nobody,             \* no message, no holder
    MaxCalls,           \* bound: calls of ProcessMessage per message
    MaxGuardFaults      \* bound: crashes, failed saves and dropped connections

ASSUME ConversationOfAssumption == ConversationOf \in [Message -> Conversation]
ASSUME AgentOfAssumption == AgentOf \in [Thread -> Agent]
ASSUME ResultAssumption == NoResult \notin Text \cup {HandOver}
ASSUME NobodyAssumption == Nobody \notin Thread \cup Message
ASSUME GuardBoundAssumption ==
    /\ MaxCalls \in Nat
    /\ MaxGuardFaults \in Nat

Result == Text \cup {HandOver}

VARIABLES
    at,           \* at[t]: where thread t stands in ProcessMessage
    handling,     \* handling[t]: the message of t's request
    outcome,      \* outcome[t]: the TurnResult t is going to return
    holder,       \* holder[c]: the thread whose session holds c's advisory lock
    saved,        \* saved[m]: the row (RESULTS, conversation) / m of the store
    answered,     \* answered[m]: the results sent back for m by run_once
    calls,        \* calls[m]: how often back has called for m
    guardFaults,  \* faults so far
    turnsOf,      \* turnsOf[m]: how many Turns were started for m
    lost          \* lost[m]: how many faults ended a Turn of m before its result was saved

guardVars == <<at, handling, outcome, holder, saved, answered, calls, guardFaults, turnsOf, lost>>

PC == {"idle", "lookup", "hold", "load", "run", "save", "release"}

\* The Conversation of the request thread t handles.
Conv(t) == ConversationOf[handling[t]]

GuardInit ==
    /\ at = [t \in Thread |-> "idle"]
    /\ handling = [t \in Thread |-> Nobody]
    /\ outcome = [t \in Thread |-> NoResult]
    /\ holder = [c \in Conversation |-> Nobody]
    /\ saved = [m \in Message |-> NoResult]
    /\ answered = [m \in Message |-> {}]
    /\ calls = [m \in Message |-> 0]
    /\ guardFaults = 0
    /\ turnsOf = [m \in Message |-> 0]
    /\ lost = [m \in Message |-> 0]

-----------------------------------------------------------------------------
(* The thread leaves ProcessMessage: nothing of the request stays with it. *)
Leave(t) ==
    /\ at' = [at EXCEPT ![t] = "idle"]
    /\ handling' = [handling EXCEPT ![t] = Nobody]
    /\ outcome' = [outcome EXCEPT ![t] = NoResult]

\* conn.close(): the session ends, so its lock is free if it still holds it.
Unlocked(t) ==
    [c \in Conversation |-> IF holder[c] = t THEN Nobody ELSE holder[c]]

\* An authorised call with a message id.  (Any other call is refused before
\* anything is read or written.)
ProcessMessage(t, m) ==
    /\ at[t] = "idle"
    /\ calls[m] < MaxCalls
    /\ calls' = [calls EXCEPT ![m] = @ + 1]
    /\ at' = [at EXCEPT ![t] = "lookup"]
    /\ handling' = [handling EXCEPT ![t] = m]
    /\ UNCHANGED <<outcome, holder, saved, answered, guardFaults, turnsOf, lost>>

\* The row is there, its role is "customer" and its text is not empty.
GetMessage(t) ==
    /\ at[t] = "lookup"
    /\ at' = [at EXCEPT ![t] = "hold"]
    /\ UNCHANGED <<handling, outcome, holder, saved, answered, calls, guardFaults, turnsOf, lost>>

\* get_message could not read the row (it returns None on any psycopg error),
\* or the row is not a customer text: the greeting goes out, outside the guard.
Greet(t) ==
    /\ at[t] = "lookup"
    /\ Leave(t)
    /\ UNCHANGED <<holder, saved, answered, calls, guardFaults, turnsOf, lost>>

\* Mutant of Hold: the lock is taken whether or not it is free.
HoldUnguarded(t) ==
    /\ at[t] = "hold"
    /\ holder' = [holder EXCEPT ![Conv(t)] = t]
    /\ at' = [at EXCEPT ![t] = "load"]
    /\ UNCHANGED <<handling, outcome, saved, answered, calls, guardFaults, turnsOf, lost>>

\* pg_advisory_lock returns.
Hold(t) ==
    /\ at[t] = "hold"
    /\ holder[Conv(t)] = Nobody
    /\ holder' = [holder EXCEPT ![Conv(t)] = t]
    /\ at' = [at EXCEPT ![t] = "load"]
    /\ UNCHANGED <<handling, outcome, saved, answered, calls, guardFaults, turnsOf, lost>>

\* lock_timeout: TurnBusy, and back is told UNAVAILABLE.
TurnBusy(t) ==
    /\ at[t] = "hold"
    /\ holder[Conv(t)] # Nobody
    /\ Leave(t)
    /\ UNCHANGED <<holder, saved, answered, calls, guardFaults, turnsOf, lost>>

\* psycopg.connect, the lock statement or store.get raises: the exception leaves
\* through the finally of _hold, back sees an unknown gRPC error.
HoldFails(t) ==
    /\ at[t] \in {"hold", "load"}
    /\ guardFaults < MaxGuardFaults
    /\ guardFaults' = guardFaults + 1
    /\ holder' = Unlocked(t)
    /\ Leave(t)
    /\ UNCHANGED <<saved, answered, calls, turnsOf, lost>>

\* The message was already handled: its saved result is returned.
LoadSaved(t) ==
    /\ at[t] = "load"
    /\ saved[handling[t]] # NoResult
    /\ outcome' = [outcome EXCEPT ![t] = saved[handling[t]]]
    /\ at' = [at EXCEPT ![t] = "release"]
    /\ UNCHANGED <<handling, holder, saved, answered, calls, guardFaults, turnsOf, lost>>

\* Mutant of StartTurn: the saved result is not looked at.
StartTurnAlways(t) ==
    /\ at[t] = "load"
    /\ at' = [at EXCEPT ![t] = "run"]
    /\ turnsOf' = [turnsOf EXCEPT ![handling[t]] = @ + 1]
    /\ UNCHANGED <<handling, outcome, holder, saved, answered, calls, guardFaults, lost>>

\* Mutant of StartTurn: run() is called after the with block, without the lock.
StartTurnUnlocked(t) ==
    /\ at[t] = "load"
    /\ saved[handling[t]] = NoResult
    /\ at' = [at EXCEPT ![t] = "run"]
    /\ turnsOf' = [turnsOf EXCEPT ![handling[t]] = @ + 1]
    /\ holder' = Unlocked(t)
    /\ UNCHANGED <<handling, outcome, saved, answered, calls, guardFaults, lost>>

\* Nothing saved: run() starts.
StartTurn(t) ==
    /\ at[t] = "load"
    /\ saved[handling[t]] = NoResult
    /\ at' = [at EXCEPT ![t] = "run"]
    /\ turnsOf' = [turnsOf EXCEPT ![handling[t]] = @ + 1]
    /\ UNCHANGED <<handling, outcome, holder, saved, answered, calls, guardFaults, lost>>

\* app.invoke ends: a non-empty reply, or (exception, empty reply) a hand-over.
RunTurn(t) ==
    /\ at[t] = "run"
    /\ \E r \in Result : outcome' = [outcome EXCEPT ![t] = r]
    /\ at' = [at EXCEPT ![t] = "save"]
    /\ UNCHANGED <<handling, holder, saved, answered, calls, guardFaults, turnsOf, lost>>

\* Mutant of Save: a hand-over is not worth a row.
SaveRepliesOnly(t) ==
    /\ at[t] = "save"
    /\ saved' = IF outcome[t] = HandOver THEN saved
                ELSE [saved EXCEPT ![handling[t]] = outcome[t]]
    /\ at' = [at EXCEPT ![t] = "release"]
    /\ UNCHANGED <<handling, outcome, holder, answered, calls, guardFaults, turnsOf, lost>>

\* store.put writes the row over whatever is there.
Save(t) ==
    /\ at[t] = "save"
    /\ saved' = [saved EXCEPT ![handling[t]] = outcome[t]]
    /\ at' = [at EXCEPT ![t] = "release"]
    /\ UNCHANGED <<handling, outcome, holder, answered, calls, guardFaults, turnsOf, lost>>

\* Mutant of SaveFails: the connection is closed on the normal path only.
SaveFailsLocked(t) ==
    /\ at[t] = "save"
    /\ guardFaults < MaxGuardFaults
    /\ guardFaults' = guardFaults + 1
    /\ lost' = [lost EXCEPT ![handling[t]] = @ + 1]
    /\ Leave(t)
    /\ UNCHANGED <<holder, saved, answered, calls, turnsOf>>

\* store.put raises: the exception leaves run_once through the finally of
\* _hold and ProcessMessage as an unknown gRPC error.
SaveFails(t) ==
    /\ at[t] = "save"
    /\ guardFaults < MaxGuardFaults
    /\ guardFaults' = guardFaults + 1
    /\ lost' = [lost EXCEPT ![handling[t]] = @ + 1]
    /\ holder' = Unlocked(t)
    /\ Leave(t)
    /\ UNCHANGED <<saved, answered, calls, turnsOf>>

\* The with block ends, the lock is freed and back gets the result.
Return(t) ==
    /\ at[t] = "release"
    /\ answered' = [answered EXCEPT ![handling[t]] = @ \cup {outcome[t]}]
    /\ holder' = Unlocked(t)
    /\ Leave(t)
    /\ UNCHANGED <<saved, calls, guardFaults, turnsOf, lost>>

\* Thread t is in a Turn of m whose result is not saved yet.
InTurn(t, m) == at[t] \in {"run", "save"} /\ handling[t] = m

\* An agent process dies.  Its sessions end, so Postgres frees their locks.
Crash(a) ==
    LET dead == {t \in Thread : AgentOf[t] = a} IN
    /\ guardFaults < MaxGuardFaults
    /\ \E t \in dead : at[t] # "idle"
    /\ guardFaults' = guardFaults + 1
    /\ at' = [t \in Thread |-> IF t \in dead THEN "idle" ELSE at[t]]
    /\ handling' = [t \in Thread |-> IF t \in dead THEN Nobody ELSE handling[t]]
    /\ outcome' = [t \in Thread |-> IF t \in dead THEN NoResult ELSE outcome[t]]
    /\ holder' = [c \in Conversation |-> IF holder[c] \in dead THEN Nobody ELSE holder[c]]
    /\ lost' = [m \in Message |->
                 IF \E t \in dead : InTurn(t, m) THEN lost[m] + 1 ELSE lost[m]]
    /\ UNCHANGED <<saved, answered, calls, turnsOf>>

\* The session of a lock ends while its thread goes on with the Turn.
ConnectionDrops(c) ==
    /\ guardFaults < MaxGuardFaults
    /\ holder[c] # Nobody
    /\ guardFaults' = guardFaults + 1
    /\ holder' = [holder EXCEPT ![c] = Nobody]
    /\ UNCHANGED <<at, handling, outcome, saved, answered, calls, turnsOf, lost>>

-----------------------------------------------------------------------------
Step(t) ==
    \/ GetMessage(t) \/ Greet(t) \/ Hold(t) \/ TurnBusy(t)
    \/ LoadSaved(t) \/ StartTurn(t) \/ RunTurn(t) \/ Save(t) \/ Return(t)

GuardNext ==
    \/ \E t \in Thread : Step(t) \/ HoldFails(t) \/ SaveFails(t) \/ \E m \in Message : ProcessMessage(t, m)
    \/ \E a \in Agent : Crash(a)

GuardSpec == GuardInit /\ [][GuardNext]_guardVars

\* The same service when lock connections may drop under a running thread.
DropSpec == GuardInit /\ [][GuardNext \/ \E c \in Conversation : ConnectionDrops(c)]_guardVars

\* A handler thread that can go on does.  Callers and faults are not fair.
FairSpec == GuardSpec /\ \A t \in Thread : WF_guardVars(Step(t))

-----------------------------------------------------------------------------
\* A thread has a message exactly while it serves a request, and a result exactly
\* between the end of the Turn and the response.
GuardTypeOK ==
    /\ at \in [Thread -> PC]
    /\ handling \in [Thread -> Message \cup {Nobody}]
    /\ \A t \in Thread : at[t] = "idle" <=> handling[t] = Nobody
    /\ outcome \in [Thread -> Result \cup {NoResult}]
    /\ \A t \in Thread : at[t] \in {"save", "release"} <=> outcome[t] # NoResult
    /\ holder \in [Conversation -> Thread \cup {Nobody}]
    /\ saved \in [Message -> Result \cup {NoResult}]
    /\ answered \in [Message -> SUBSET Result]
    /\ calls \in [Message -> Nat]
    /\ guardFaults \in Nat
    /\ turnsOf \in [Message -> Nat]
    /\ lost \in [Message -> Nat]

\* turn_guard.py: "only one Turn runs at a time for one Conversation".  Two
\* threads, of one process or of two, are never both inside a Turn of the same
\* Conversation, whatever crashes and failed saves came before.
OneTurnPerConversation ==
    \A t, u \in Thread :
        /\ t # u
        /\ at[t] \in {"run", "save"}
        /\ at[u] \in {"run", "save"}
        => Conv(t) # Conv(u)

\* turn_guard.py: "a message that was already handled gets its first result".
\* Everything back was ever told for a message is the one saved result.
AnswersAreTheSavedResult ==
    \A m \in Message : answered[m] \subseteq {saved[m]}

\* "... not a second run": every Turn of a message but one was cut short by a
\* fault, and once the result is saved no further Turn of it starts.
NoNeedlessTurn ==
    \A m \in Message :
        /\ turnsOf[m] <= lost[m] + 1
        /\ saved[m] # NoResult => turnsOf[m] = lost[m] + 1

\* The guard implements the promise of TurnOnce: the decided result of a
\* message is its row in the store.
Promise == INSTANCE TurnOnce WITH result <- saved
ImplementsTurnOnce == Promise!Spec

\* The lock of a Conversation is never leaked: whoever holds it (also when the
\* save raises or the process dies) frees it in the end.
LockIsFreed == \A c \in Conversation : holder[c] # Nobody ~> holder[c] = Nobody
=============================================================================
