------------------------------ MODULE TurnOnce ------------------------------
(***************************************************************************)
(* What the agent promises back about Turns, without threads, locks or     *)
(* crashes: each Message gets one result, decided once, and every answer   *)
(* about that Message is that result (ecom_agent/turn_guard.py, header).   *)
(***************************************************************************)

CONSTANTS
    Message,    \* customer messages back asks the agent to handle
    Result,     \* possible TurnResults (a reply text, or "hand over")
    NoResult    \* "not decided yet", not a Result

VARIABLES
    result,     \* result[m]: the result decided for m, or NoResult
    answered    \* answered[m]: the results back was told for m

vars == <<result, answered>>

Init ==
    /\ result = [m \in Message |-> NoResult]
    /\ answered = [m \in Message |-> {}]

\* The Turn of m ends and its result is fixed for good.
Decide(m) ==
    /\ result[m] = NoResult
    /\ \E r \in Result : result' = [result EXCEPT ![m] = r]
    /\ UNCHANGED answered

\* back is told the result that was decided.
Answer(m) ==
    /\ result[m] # NoResult
    /\ answered' = [answered EXCEPT ![m] = @ \cup {result[m]}]
    /\ UNCHANGED result

Next == \E m \in Message : Decide(m) \/ Answer(m)

Spec == Init /\ [][Next]_vars
=============================================================================
