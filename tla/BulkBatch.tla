----------------------------- MODULE BulkBatch ------------------------------
(***************************************************************************)
(* One bulk batch of the OpenWA bridge: BulkMessageService                 *)
(* (OpenWA/src/modules/message/bulk-message.service.ts).                   *)
(*                                                                         *)
(* processBatch works on a copy of the row it read once, and every save    *)
(* writes the whole copy back.  Cancels come in meanwhile, to the same     *)
(* process, which then also clears the flag the loop looks at, or to       *)
(* another one that shares the database.  Each await ends a step; a read   *)
(* takes its value when it is issued and is used after the await.          *)
(***************************************************************************)
EXTENDS Integers

CONSTANTS
    Total,      \* messages of the batch
    SaveEvery,  \* progress is saved after every SaveEvery-th message (10 in the code)
    Cancel,     \* cancel requests that can run at once
    None,
    MaxFaults   \* bound: database errors and restarts

ASSUME BulkAssumption == Total \in Nat \ {0} /\ SaveEvery \in Nat \ {0} /\ MaxFaults \in Nat

VARIABLES
    stopOnError, \* options.stopOnError
    row,         \* the row of message_batches, None before createBatch
    mem,         \* the copy processBatch works on
    idx,         \* i, index of the message in hand
    fresh,       \* the status of the last re-read
    pc,          \* where processBatch stands
    active,      \* processingBatches.get(id), absent counting as false
    can,         \* can[c]: the row cancel request c has read, and by which process
    early,       \* did processBatch read a row that was already CANCELLED?
    heard,       \* was one accepted by this process while the loop ran?
    faults

loopVars == <<mem, idx, fresh, pc>>
vars == <<stopOnError, row, loopVars, active, can, early, heard, faults>>

Status == {"PENDING", "PROCESSING", "COMPLETED", "CANCELLED", "FAILED"}
Waiting == [sent |-> 0, failed |-> 0, pending |-> Total, cancelled |-> 0, status |-> "PENDING"]
Batch ==
    [sent : 0 .. Total, failed : 0 .. Total, pending : -Total .. Total, cancelled : -Total .. Total, status : Status]

ASSUME NoneAssumption == None \notin Batch

Running == {"begin", "engine", "send", "persist", "check", "saved", "sleep", "final", "delete"}

Init ==
    /\ stopOnError \in BOOLEAN
    /\ row = None /\ mem = None /\ fresh = None
    /\ idx = 0
    /\ pc = "idle"
    /\ active = FALSE
    /\ can = [c \in Cancel |-> None]
    /\ early = FALSE /\ heard = FALSE
    /\ faults = 0

Fault == faults < MaxFaults /\ faults' = faults + 1

-----------------------------------------------------------------------------
(* createBatch and processBatch *)

\* The row is saved; processBatch starts by reading it again.
Create ==
    /\ row = None
    /\ row' = Waiting
    /\ pc' = "read"
    /\ UNCHANGED <<stopOnError, mem, idx, fresh, active, can, early, heard, faults>>

Find ==
    /\ pc = "read"
    /\ mem' = row
    /\ early' = (row.status = "CANCELLED")
    /\ pc' = "begin"
    /\ UNCHANGED <<stopOnError, row, idx, fresh, active, can, heard, faults>>

\* The flag is raised, and PROCESSING saved, whatever has come in meanwhile.
Begin ==
    /\ pc = "begin"
    /\ active' = TRUE
    /\ mem' = [mem EXCEPT !.status = "PROCESSING"]
    /\ row' = mem'
    /\ pc' = "engine"
    /\ UNCHANGED <<stopOnError, idx, fresh, can, early, heard, faults>>

\* The loop's condition and its first statement.
MayGoOn(i) == i < Total /\ active

\* The top of the loop for message i: send it, or leave and re-read the status.
LoopTop(i) ==
    /\ idx' = i
    /\ IF MayGoOn(i)
       THEN pc' = "send" /\ UNCHANGED fresh
       ELSE pc' = "final" /\ fresh' = row.status

\* getEngine: without an engine the batch fails here (and the flag stays).
Enter ==
    /\ pc = "engine"
    /\ \/ LoopTop(0) /\ UNCHANGED <<row, mem>>
       \/ /\ mem' = [mem EXCEPT !.status = "FAILED"]
          /\ row' = mem'
          /\ pc' = "noengine"
          /\ UNCHANGED <<idx, fresh>>
    /\ UNCHANGED <<stopOnError, active, can, early, heard, faults>>

\* Every SaveEvery-th message and the last: look for a cancel in the database
\* before the progress is saved.
Cadence == idx % SaveEvery = 0 \/ idx = Total - 1

\* The delay before the next message, if the flag is still up.
Pause ==
    IF idx < Total - 1 /\ active
    THEN pc' = "sleep" /\ UNCHANGED <<idx, fresh>>
    ELSE LoopTop(idx + 1)

AfterMessage ==
    IF Cadence THEN pc' = "check" /\ fresh' = row.status /\ UNCHANGED idx
    ELSE Pause

\* engine.send...Message resolves.
Sent ==
    /\ pc = "send"
    /\ mem' = [mem EXCEPT !.sent = @ + 1, !.pending = @ - 1]
    /\ pc' = "persist"
    /\ UNCHANGED <<stopOnError, row, idx, fresh, active, can, early, heard, faults>>

\* The message is stored as an outgoing one, or not: that failure is swallowed.
Persisted ==
    /\ pc = "persist"
    /\ AfterMessage
    /\ UNCHANGED <<stopOnError, row, mem, active, can, early, heard, faults>>

\* It rejects: the failure is counted, and ends the loop under stopOnError.
NotSent ==
    /\ pc = "send"
    /\ mem' = [mem EXCEPT !.failed = @ + 1, !.pending = @ - 1,
                          !.status = IF stopOnError THEN "FAILED" ELSE @]
    /\ IF stopOnError THEN pc' = "final" /\ fresh' = row.status /\ UNCHANGED idx ELSE AfterMessage
    /\ UNCHANGED <<stopOnError, row, active, can, early, heard, faults>>

\* resolveFinalBatchStatus
FinalStatus(cancelled) ==
    IF cancelled THEN "CANCELLED"
    ELSE IF mem.status = "FAILED" THEN "FAILED"
    ELSE IF mem.failed > 0 /\ mem.sent = 0 THEN "FAILED" ELSE "COMPLETED"

\* Mutant of Closed: the counters of a cancelled batch are not reconciled.
ClosedAsIs(cancelled) ==
    [mem EXCEPT !.status = FinalStatus(cancelled), !.cancelled = IF cancelled THEN mem.pending ELSE @]

\* The final update of the copy.
Closed(cancelled) ==
    [mem EXCEPT !.status = FinalStatus(cancelled),
                !.cancelled = IF cancelled THEN mem.pending ELSE @,
                !.pending = IF cancelled THEN 0 ELSE @]

Close(cancelled) ==
    /\ mem' = Closed(cancelled)
    /\ row' = mem'
    /\ pc' = "delete"

\* The re-read of the cadence is back.
Check ==
    /\ pc = "check"
    /\ IF fresh = "CANCELLED" THEN Close(TRUE) ELSE row' = mem /\ pc' = "saved" /\ UNCHANGED mem
    /\ UNCHANGED <<stopOnError, idx, fresh, active, can, early, heard, faults>>

Saved ==
    /\ pc = "saved"
    /\ Pause
    /\ UNCHANGED <<stopOnError, row, mem, active, can, early, heard, faults>>

Wake ==
    /\ pc = "sleep"
    /\ LoopTop(idx + 1)
    /\ UNCHANGED <<stopOnError, row, mem, active, can, early, heard, faults>>

\* Mutant of Finalize: only the re-read is asked, not the flag.
FinalizeByRow ==
    /\ pc = "final"
    /\ Close(fresh = "CANCELLED")
    /\ UNCHANGED <<stopOnError, idx, fresh, active, can, early, heard, faults>>

Finalize ==
    /\ pc = "final"
    /\ Close(fresh = "CANCELLED" \/ ~active)
    /\ UNCHANGED <<stopOnError, idx, fresh, active, can, early, heard, faults>>

Done ==
    /\ pc = "delete"
    /\ pc' = "done"
    /\ active' = FALSE
    /\ UNCHANGED <<stopOnError, row, mem, idx, fresh, can, early, heard, faults>>

\* A database error ends processBatch where it stands; it is only logged.
Dies ==
    /\ pc \in {"read", "begin", "check", "final"}
    /\ Fault
    /\ pc' = "dead"
    /\ UNCHANGED <<stopOnError, row, mem, idx, fresh, active, can, early, heard>>

-----------------------------------------------------------------------------
(* cancelBatch and onApplicationBootstrap *)

\* The request reads the row; a batch that is over is refused.
CancelFind(c) ==
    /\ row # None /\ can[c] = None
    /\ row.status \notin {"COMPLETED", "CANCELLED"}
    /\ \E here \in BOOLEAN : can' = [can EXCEPT ![c] = [row |-> row, here |-> here]]
    /\ UNCHANGED <<stopOnError, row, loopVars, active, early, heard, faults>>

\* The flag falls and the row it has read goes back as CANCELLED.
CancelSave(c) ==
    /\ can[c] # None
    /\ active' = (active /\ ~can[c].here)
    /\ row' = [can[c].row EXCEPT !.status = "CANCELLED", !.cancelled = can[c].row.pending, !.pending = 0]
    /\ can' = [can EXCEPT ![c] = None]
    /\ heard' = (heard \/ (can[c].here /\ pc \in Running \ {"begin", "engine"}))
    /\ UNCHANGED <<stopOnError, loopVars, early, faults>>

\* Mutant of Orphaned: a batch that was under way is left as it is.
OrphanedKept == row

\* What the start-up makes of the row: a batch under way is not resumed.
Orphaned == IF row # None /\ row.status = "PROCESSING" THEN [row EXCEPT !.status = "FAILED"] ELSE row

\* The process restarts, with what it had in hand.
Restart ==
    /\ Fault
    /\ row' = Orphaned
    /\ pc' = IF pc \in Running \cup {"read"} THEN "gone" ELSE pc
    /\ active' = FALSE
    /\ can' = [c \in Cancel |-> IF can[c] # None /\ can[c].here THEN None ELSE can[c]]
    /\ UNCHANGED <<stopOnError, mem, idx, fresh, early, heard>>

\* Another process on the same database does.
OtherRestarts ==
    /\ Fault
    /\ row' = Orphaned
    /\ can' = [c \in Cancel |-> IF can[c] # None /\ ~can[c].here THEN None ELSE can[c]]
    /\ UNCHANGED <<stopOnError, loopVars, active, early, heard>>

-----------------------------------------------------------------------------
ProcessBatch ==
    \/ Find \/ Begin \/ Enter \/ Sent \/ Persisted \/ NotSent \/ Check \/ Saved \/ Wake \/ Finalize \/ Done

Next ==
    \/ Create \/ ProcessBatch \/ Dies
    \/ \E c \in Cancel : CancelFind(c) \/ CancelSave(c)
    \/ Restart \/ OtherRestarts

Spec == Init /\ [][Next]_vars

\* What processBatch awaits (the database, the engine, its own delay) is answered.
FairSpec == Spec /\ WF_vars(ProcessBatch)

-----------------------------------------------------------------------------
\* The variables have their types.
TypeOK ==
    /\ stopOnError \in BOOLEAN /\ active \in BOOLEAN /\ {early, heard} \subseteq BOOLEAN
    /\ row \in Batch \cup {None}
    /\ mem \in Batch \cup {None}
    /\ idx \in 0 .. Total
    /\ fresh \in Status \cup {None}
    /\ pc \in Running \cup {"idle", "read", "noengine", "done", "dead", "gone"}
    /\ can \in [Cancel -> [row : Batch, here : BOOLEAN] \cup {None}]

\* docs/06-api-specification.md, the progress of a batch: however loop, cancels
\* and restarts overwrite each other's row, every message of the batch is in
\* exactly one of its counters, unless the loop began on a row already cancelled.
CountersAddUp ==
    row # None /\ ~early => row.sent + row.failed + row.pending + row.cancelled = Total

\* And the batch it leaves behind says so, whichever save came last.
HeardCancelWins == heard /\ pc = "done" => row.status = "CANCELLED"

UnderWay == row # None /\ row.status = "PROCESSING"

\* onApplicationBootstrap: a batch must not be "stuck in PROCESSING forever".  It
\* leaves PROCESSING, restarts included, unless a database error stopped the loop.
BatchSettles ==
    UnderWay ~> ~UnderWay \/ pc = "dead"
=============================================================================
