------------------------ MODULE BridgeServicesProofs ------------------------
(***************************************************************************)
(* Two services of the OpenWA bridge that keep state across awaits.        *)
(*                                                                         *)
(* A bulk batch of any size, under any number of cancels, restarts and     *)
(* database errors: its counters add up, and a cancel the loop was told of *)
(* is the batch's last word.                                               *)
(*                                                                         *)
(* A plugin under any number of requests at once, of faults and restarts:  *)
(* no worker thread is lost, and an update is all or nothing.              *)
(***************************************************************************)
EXTENDS BulkBatch, PluginHost, TLAPS

USE BulkAssumption, NoneAssumption, BoundAssumption, NilAssumption

-----------------------------------------------------------------------------
(* The bulk batch: its inductive invariant.                                *)

\* No message is counted twice as sent or failed; pending went down with them.
Sane(b) == b.sent + b.failed <= Total /\ b.pending >= -(b.sent + b.failed)

Adds(b) == b.sent + b.failed + b.pending + b.cancelled = Total

\* There is a row once the batch is created, and a copy while the loop runs.
BatchInv ==
    /\ pc # "idle" => row \in Batch
    /\ pc \in Running => mem \in Batch
    /\ row # None => Sane(row)
    /\ mem # None => Sane(mem)
    /\ \A c \in Cancel : can[c] # None => Sane(can[c].row)

\* The copy counts the messages before idx, and message idx once it is handled.
ProgressInv ==
    /\ pc = "idle" => row = None
    /\ row = None => \A c \in Cancel : can[c] = None
    /\ pc = "read" =>
          /\ row.sent = 0 /\ row.failed = 0
          /\ \A c \in Cancel : can[c] # None => can[c].row.sent = 0 /\ can[c].row.failed = 0
    /\ pc \in {"begin", "engine"} => mem.sent = 0 /\ mem.failed = 0
    /\ pc = "send" => idx < Total /\ mem.sent + mem.failed = idx
    /\ pc \in {"persist", "check", "saved", "sleep"} => idx < Total /\ mem.sent + mem.failed = idx + 1

\* Unless the loop began on a cancelled row, a row, a copy and what a cancel has
\* read add up, and only a cancelled one counts cancelled messages.
CounterInv ==
    /\ pc \in {"idle", "read"} => ~early
    /\ ~early =>
          /\ row # None => Adds(row) /\ (row.status # "CANCELLED" => row.cancelled = 0)
          /\ \A c \in Cancel : can[c] # None => Adds(can[c].row) /\ can[c].row.cancelled = 0
          /\ pc \in Running => Adds(mem)
          /\ pc \in Running \ {"delete"} => mem.cancelled = 0

\* A cancel that was heard has lowered the flag for good, and from the last save
\* on the row is CANCELLED.
HeardInv ==
    /\ heard => pc \notin {"idle", "read", "begin", "engine"}
    /\ heard /\ pc \in Running => ~active
    /\ heard /\ pc \in {"delete", "done"} => row.status = "CANCELLED"

IInv == TypeOK /\ BatchInv /\ ProgressInv /\ CounterInv /\ HeardInv
-----------------------------------------------------------------------------
(* What the updates of a row make of its counters.                         *)

\* d is b with another status.
Rewritten(b, d, s) ==
    /\ d \in Batch /\ d.status = s
    /\ d.sent = b.sent /\ d.failed = b.failed /\ d.pending = b.pending /\ d.cancelled = b.cancelled

\* d is b cancelled: what was pending is cancelled.
CancelledFrom(b, d) ==
    /\ d \in Batch /\ d.status = "CANCELLED"
    /\ d.sent = b.sent /\ d.failed = b.failed /\ d.pending = 0 /\ d.cancelled = b.pending

\* A row with another status keeps its counters.
LEMMA Restatus ==
    ASSUME NEW b \in Batch, NEW s \in Status
    PROVE  Rewritten(b, [b EXCEPT !.status = s], s)
BY DEF Rewritten, Batch

\* cancelBatch moves what is pending to what is cancelled.
LEMMA Cancelling ==
    ASSUME NEW b \in Batch
    PROVE  CancelledFrom(b, [b EXCEPT !.status = "CANCELLED", !.cancelled = b.pending, !.pending = 0])
<1> DEFINE u == [b EXCEPT !.status = "CANCELLED", !.cancelled = b.pending, !.pending = 0]
<1>1. b.pending \in -Total .. Total /\ 0 \in -Total .. Total
  BY DEF Batch
<1>2. u.sent = b.sent /\ u.failed = b.failed /\ u.pending = 0 /\ u.cancelled = b.pending /\ u.status = "CANCELLED"
  BY DEF Batch
<1>3. u \in Batch
  BY <1>1 DEF Batch, Status
<1> QED
  BY <1>2, <1>3 DEF CancelledFrom

\* So does the loop's last update, if it takes the batch for cancelled.
LEMMA Closing ==
    ASSUME NEW x \in BOOLEAN, mem \in Batch
    PROVE  /\ x => CancelledFrom(mem, Closed(x))
           /\ ~x => \E s \in Status \ {"CANCELLED"} : Rewritten(mem, Closed(x), s)
<1>1. FinalStatus(x) \in Status /\ (x <=> FinalStatus(x) = "CANCELLED")
  BY DEF FinalStatus, Status
<1>2. mem.pending \in -Total .. Total /\ mem.cancelled \in -Total .. Total /\ 0 \in -Total .. Total
  BY DEF Batch
<1>3. CASE x
  <2>1. Closed(x) = [mem EXCEPT !.status = "CANCELLED", !.cancelled = mem.pending, !.pending = 0]
    BY <1>1, <1>3 DEF Closed
  <2> QED
    BY <1>3, <2>1, Cancelling
<1>4. CASE ~x
  <2>1. Closed(x) = [mem EXCEPT !.status = FinalStatus(x), !.cancelled = mem.cancelled, !.pending = mem.pending]
    BY <1>4 DEF Closed, Batch
  <2>2. Closed(x) \in Batch
    BY <1>1, <1>2, <2>1 DEF Batch
  <2>3. Rewritten(mem, Closed(x), FinalStatus(x))
    BY <2>1, <2>2 DEF Rewritten, Batch
  <2> QED
    BY <1>1, <1>4, <2>3
<1> QED
  BY <1>3, <1>4

\* onApplicationBootstrap changes the status of a batch under way, and nothing else.
LEMMA Orphaning ==
    ASSUME row \in Batch \cup {None}
    PROVE  \/ Orphaned = row
           \/ row \in Batch /\ row.status = "PROCESSING" /\ Rewritten(row, Orphaned, "FAILED")
<1>1. "FAILED" \in Status
  BY DEF Status
<1>2. CASE row # None /\ row.status = "PROCESSING"
  <2>1. row \in Batch /\ Orphaned = [row EXCEPT !.status = "FAILED"]
    BY <1>2 DEF Orphaned
  <2>2. Rewritten(row, [row EXCEPT !.status = "FAILED"], "FAILED")
    BY <1>1, <2>1, Restatus
  <2> QED
    BY <1>2, <2>1, <2>2
<1>3. CASE ~(row # None /\ row.status = "PROCESSING")
  BY <1>3 DEF Orphaned
<1> QED
  BY <1>2, <1>3

\* A message that was handled leaves pending, for sent or for failed.
LEMMA Counting ==
    ASSUME NEW b \in Batch, Sane(b), b.sent + b.failed < Total, NEW s \in Status
    PROVE  /\ LET u == [b EXCEPT !.sent = @ + 1, !.pending = @ - 1] IN
              /\ u \in Batch /\ Sane(u) /\ u.status = b.status /\ u.cancelled = b.cancelled
              /\ u.sent = b.sent + 1 /\ u.failed = b.failed /\ u.pending = b.pending - 1
           /\ LET u == [b EXCEPT !.failed = @ + 1, !.pending = @ - 1, !.status = s] IN
              /\ u \in Batch /\ Sane(u) /\ u.status = s /\ u.cancelled = b.cancelled
              /\ u.sent = b.sent /\ u.failed = b.failed + 1 /\ u.pending = b.pending - 1
<1>1. b.sent \in 0 .. Total /\ b.failed \in 0 .. Total /\ b.pending \in -Total .. Total
      /\ b.cancelled \in -Total .. Total /\ b.status \in Status
  BY DEF Batch
<1>2. b.sent + 1 \in 0 .. Total /\ b.failed + 1 \in 0 .. Total /\ b.pending - 1 \in -Total .. Total
  BY <1>1 DEF Sane
<1> DEFINE u == [b EXCEPT !.sent = @ + 1, !.pending = @ - 1]
           v == [b EXCEPT !.failed = @ + 1, !.pending = @ - 1, !.status = s]
<1>3. u \in Batch /\ v \in Batch
  BY <1>1, <1>2 DEF Batch
<1>4. /\ u.sent = b.sent + 1 /\ u.failed = b.failed /\ u.pending = b.pending - 1
      /\ u.status = b.status /\ u.cancelled = b.cancelled
  BY DEF Batch
<1>5. /\ v.sent = b.sent /\ v.failed = b.failed + 1 /\ v.pending = b.pending - 1
      /\ v.status = s /\ v.cancelled = b.cancelled
  BY DEF Batch
<1>6. Sane(u) /\ Sane(v)
  BY <1>1, <1>2, <1>4, <1>5 DEF Sane
<1> QED
  BY <1>3, <1>4, <1>5, <1>6

-----------------------------------------------------------------------------
(* The steps.                                                              *)

\* No step of the loop, of a cancel or of a restart leaves the invariant.
LEMMA Step == IInv /\ [Next]_vars => IInv'
<1> SUFFICES ASSUME IInv, [Next]_vars PROVE IInv'
  OBVIOUS
<1>1. ASSUME Create PROVE IInv'
  <2>1. row' = Waiting /\ Waiting \in Batch
    BY <1>1 DEF Create, Waiting, Batch, Status
  <2>2. Waiting.sent = 0 /\ Waiting.failed = 0 /\ Waiting.pending = Total /\ Waiting.cancelled = 0 /\ Waiting.status = "PENDING"
    BY DEF Waiting
  <2>3. (TypeOK /\ BatchInv)'
    BY <1>1, <2>1, <2>2 DEF Create, IInv, TypeOK, BatchInv, ProgressInv, Batch, Status, Running,
       Sane
  <2>4. ProgressInv'
    BY <1>1, <2>1, <2>2 DEF Create, IInv, TypeOK, BatchInv, ProgressInv, Batch, Running
  <2>5. CounterInv'
    BY <1>1, <2>1, <2>2 DEF Create, IInv, TypeOK, BatchInv, ProgressInv, CounterInv, Adds, Batch,
       Running
  <2>6. HeardInv'
    BY <1>1, <2>1, <2>2 DEF Create, IInv, BatchInv, HeardInv, Running
  <2> QED
    BY <2>3, <2>4, <2>5, <2>6 DEF IInv
<1>2. ASSUME Find PROVE IInv'
  <2>1. (TypeOK /\ BatchInv)'
    BY <1>2 DEF Find, IInv, TypeOK, BatchInv, ProgressInv, Batch, Status, Running, Sane
  <2>2. ProgressInv'
    BY <1>2 DEF Find, IInv, TypeOK, BatchInv, ProgressInv, Batch, Running
  <2>3. CounterInv'
    BY <1>2 DEF Find, IInv, TypeOK, BatchInv, ProgressInv, CounterInv, Adds, Batch, Running
  <2>4. HeardInv'
    BY <1>2 DEF Find, IInv, BatchInv, HeardInv, Running
  <2> QED
    BY <2>1, <2>2, <2>3, <2>4 DEF IInv
<1>3. ASSUME Begin PROVE IInv'
  <2>1. mem \in Batch /\ row' = mem' /\ Rewritten(mem, mem', "PROCESSING")
    BY <1>3, Restatus DEF Begin, IInv, BatchInv, Running, Status
  <2>2. (TypeOK /\ BatchInv)'
    BY <1>3, <2>1 DEF Begin, Rewritten, IInv, TypeOK, BatchInv, ProgressInv, Batch, Status,
       Running, Sane
  <2>3. ProgressInv'
    BY <1>3, <2>1 DEF Begin, Rewritten, IInv, TypeOK, BatchInv, ProgressInv, Batch, Running
  <2>4. CounterInv'
    BY <1>3, <2>1 DEF Begin, Rewritten, IInv, TypeOK, BatchInv, ProgressInv, CounterInv, Adds,
       Batch, Running
  <2>5. HeardInv'
    BY <1>3, <2>1 DEF Begin, Rewritten, IInv, BatchInv, HeardInv, Running
  <2> QED
    BY <2>2, <2>3, <2>4, <2>5 DEF IInv
<1>4. ASSUME Enter PROVE IInv'
  <2>1. mem \in Batch
    BY <1>4 DEF Enter, IInv, BatchInv, Running
  <2>2. Rewritten(mem, [mem EXCEPT !.status = "FAILED"], "FAILED")
    BY <2>1, Restatus DEF Status
  <2>3. UNCHANGED <<row, mem>> \/ (row' = mem' /\ Rewritten(mem, mem', "FAILED"))
    BY <1>4, <2>2 DEF Enter
  <2>4. (TypeOK /\ BatchInv)'
    BY <1>4, <2>1, <2>2, <2>3 DEF Enter, Pause, LoopTop, MayGoOn, Rewritten, IInv, TypeOK,
       BatchInv, ProgressInv, Batch, Status, Running, Sane
  <2>5. ProgressInv'
    BY <1>4, <2>1, <2>2, <2>3 DEF Enter, Pause, LoopTop, MayGoOn, Rewritten, IInv, TypeOK,
       BatchInv, ProgressInv, Batch, Running
  <2>6. CounterInv'
    BY <1>4, <2>1, <2>2, <2>3 DEF Enter, Pause, LoopTop, MayGoOn, Rewritten, IInv, TypeOK,
       BatchInv, ProgressInv, CounterInv, Adds, Batch, Running
  <2>7. HeardInv'
    BY <1>4, <2>1, <2>2, <2>3 DEF Enter, Pause, LoopTop, MayGoOn, Rewritten, IInv, BatchInv,
       HeardInv, Running
  <2> QED
    BY <2>4, <2>5, <2>6, <2>7 DEF IInv
<1>5. ASSUME Sent PROVE IInv'
  <2>1. mem \in Batch /\ Sane(mem) /\ mem.sent + mem.failed < Total
    BY <1>5 DEF Sent, IInv, TypeOK, BatchInv, ProgressInv, Running, Batch
  <2>2. mem' \in Batch /\ Sane(mem') /\ mem'.sent = mem.sent + 1 /\ mem'.failed = mem.failed
        /\ mem'.pending = mem.pending - 1 /\ mem'.cancelled = mem.cancelled
    BY <1>5, <2>1, Counting DEF Sent, Status
  <2>3. (TypeOK /\ BatchInv)'
    BY <1>5, <2>1, <2>2 DEF Sent, IInv, TypeOK, BatchInv, ProgressInv, Batch, Status, Running, Sane
  <2>4. ProgressInv'
    BY <1>5, <2>1, <2>2 DEF Sent, IInv, TypeOK, BatchInv, ProgressInv, Batch, Running
  <2>5. CounterInv'
    BY <1>5, <2>1, <2>2 DEF Sent, IInv, TypeOK, BatchInv, ProgressInv, CounterInv, Adds, Batch,
       Running
  <2>6. HeardInv'
    BY <1>5, <2>1, <2>2 DEF Sent, IInv, BatchInv, HeardInv, Running
  <2> QED
    BY <2>3, <2>4, <2>5, <2>6 DEF IInv
<1>6. ASSUME Persisted PROVE IInv'
  <2>1. (TypeOK /\ BatchInv)'
    BY <1>6 DEF Persisted, AfterMessage, Cadence, Pause, LoopTop, MayGoOn, IInv, TypeOK, BatchInv,
       ProgressInv, Batch, Status, Running, Sane
  <2>2. ProgressInv'
    BY <1>6 DEF Persisted, AfterMessage, Cadence, Pause, LoopTop, MayGoOn, IInv, TypeOK, BatchInv,
       ProgressInv, Batch, Running
  <2>3. CounterInv'
    BY <1>6 DEF Persisted, AfterMessage, Cadence, Pause, LoopTop, MayGoOn, IInv, TypeOK, BatchInv,
       ProgressInv, CounterInv, Adds, Batch, Running
  <2>4. HeardInv'
    BY <1>6 DEF Persisted, AfterMessage, Cadence, Pause, LoopTop, MayGoOn, IInv, BatchInv,
       HeardInv, Running
  <2> QED
    BY <2>1, <2>2, <2>3, <2>4 DEF IInv
<1>7. ASSUME NotSent PROVE IInv'
  <2>1. mem \in Batch /\ Sane(mem) /\ mem.sent + mem.failed < Total
    BY <1>7 DEF NotSent, IInv, TypeOK, BatchInv, ProgressInv, Running, Batch
  <2>2. (IF stopOnError THEN "FAILED" ELSE mem.status) \in Status
    BY <2>1 DEF Batch, Status
  <2>3. mem' \in Batch /\ Sane(mem') /\ mem'.sent = mem.sent /\ mem'.failed = mem.failed + 1
        /\ mem'.pending = mem.pending - 1 /\ mem'.cancelled = mem.cancelled
    BY <1>7, <2>1, <2>2, Counting DEF NotSent
  <2>4. (TypeOK /\ BatchInv)'
    BY <1>7, <2>1, <2>2, <2>3 DEF NotSent, AfterMessage, Cadence, Pause, LoopTop, MayGoOn, IInv,
       TypeOK, BatchInv, ProgressInv, Batch, Status, Running, Sane
  <2>5. ProgressInv'
    BY <1>7, <2>1, <2>2, <2>3 DEF NotSent, AfterMessage, Cadence, Pause, LoopTop, MayGoOn, IInv,
       TypeOK, BatchInv, ProgressInv, Batch, Running
  <2>6. CounterInv'
    BY <1>7, <2>1, <2>2, <2>3 DEF NotSent, AfterMessage, Cadence, Pause, LoopTop, MayGoOn, IInv,
       TypeOK, BatchInv, ProgressInv, CounterInv, Adds, Batch, Running
  <2>7. HeardInv'
    BY <1>7, <2>1, <2>2, <2>3 DEF NotSent, AfterMessage, Cadence, Pause, LoopTop, MayGoOn, IInv,
       BatchInv, HeardInv, Running
  <2> QED
    BY <2>4, <2>5, <2>6, <2>7 DEF IInv
<1>8. ASSUME Check PROVE IInv'
  <2>1. mem \in Batch
    BY <1>8 DEF Check, IInv, BatchInv, Running
  <2>2. \/ fresh = "CANCELLED" /\ row' = mem' /\ CancelledFrom(mem, mem') /\ pc' = "delete"
        \/ row' = mem /\ UNCHANGED mem /\ pc' = "saved"
    BY <1>8, <2>1, Closing DEF Check, Close
  <2>3. (TypeOK /\ BatchInv)'
    BY <1>8, <2>1, <2>2 DEF Check, CancelledFrom, IInv, TypeOK, BatchInv, ProgressInv, Batch,
       Status, Running, Sane
  <2>4. ProgressInv'
    BY <1>8, <2>1, <2>2 DEF Check, CancelledFrom, IInv, TypeOK, BatchInv, ProgressInv, Batch,
       Running
  <2>5. CounterInv'
    BY <1>8, <2>1, <2>2 DEF Check, CancelledFrom, IInv, TypeOK, BatchInv, ProgressInv, CounterInv,
       Adds, Batch, Running
  <2>6. HeardInv'
    BY <1>8, <2>1, <2>2 DEF Check, CancelledFrom, IInv, BatchInv, HeardInv, Running
  <2> QED
    BY <2>3, <2>4, <2>5, <2>6 DEF IInv
<1>9. ASSUME Saved PROVE IInv'
  <2>1. (TypeOK /\ BatchInv)'
    BY <1>9 DEF Saved, Pause, LoopTop, MayGoOn, IInv, TypeOK, BatchInv, ProgressInv, Batch,
       Status, Running, Sane
  <2>2. ProgressInv'
    BY <1>9 DEF Saved, Pause, LoopTop, MayGoOn, IInv, TypeOK, BatchInv, ProgressInv, Batch, Running
  <2>3. CounterInv'
    BY <1>9 DEF Saved, Pause, LoopTop, MayGoOn, IInv, TypeOK, BatchInv, ProgressInv, CounterInv,
       Adds, Batch, Running
  <2>4. HeardInv'
    BY <1>9 DEF Saved, Pause, LoopTop, MayGoOn, IInv, BatchInv, HeardInv, Running
  <2> QED
    BY <2>1, <2>2, <2>3, <2>4 DEF IInv
<1>10. ASSUME Wake PROVE IInv'
  <2>1. (TypeOK /\ BatchInv)'
    BY <1>10 DEF Wake, Pause, LoopTop, MayGoOn, IInv, TypeOK, BatchInv, ProgressInv, Batch,
       Status, Running, Sane
  <2>2. ProgressInv'
    BY <1>10 DEF Wake, Pause, LoopTop, MayGoOn, IInv, TypeOK, BatchInv, ProgressInv, Batch, Running
  <2>3. CounterInv'
    BY <1>10 DEF Wake, Pause, LoopTop, MayGoOn, IInv, TypeOK, BatchInv, ProgressInv, CounterInv,
       Adds, Batch, Running
  <2>4. HeardInv'
    BY <1>10 DEF Wake, Pause, LoopTop, MayGoOn, IInv, BatchInv, HeardInv, Running
  <2> QED
    BY <2>1, <2>2, <2>3, <2>4 DEF IInv
<1>11. ASSUME Finalize PROVE IInv'
  <2>1. mem \in Batch /\ active \in BOOLEAN
    BY <1>11 DEF Finalize, IInv, TypeOK, BatchInv, Running
  <2>2. Close(TRUE) \/ (Close(FALSE) /\ active)
    BY <1>11, <2>1 DEF Finalize
  <2>3. /\ row' = mem' /\ pc' = "delete"
        /\ CancelledFrom(mem, mem') \/ (active /\ \E s \in Status \ {"CANCELLED"} : Rewritten(mem, mem', s))
    BY <2>1, <2>2, Closing DEF Close
  <2>4. (TypeOK /\ BatchInv)'
    BY <1>11, <2>1, <2>2, <2>3 DEF Finalize, CancelledFrom, Rewritten, IInv, TypeOK, BatchInv,
       ProgressInv, Batch, Status, Running, Sane
  <2>5. ProgressInv'
    BY <1>11, <2>1, <2>2, <2>3 DEF Finalize, CancelledFrom, Rewritten, IInv, TypeOK, BatchInv,
       ProgressInv, Batch, Running
  <2>6. CounterInv'
    BY <1>11, <2>1, <2>2, <2>3 DEF Finalize, CancelledFrom, Rewritten, IInv, TypeOK, BatchInv,
       ProgressInv, CounterInv, Adds, Batch, Running
  <2>7. HeardInv'
    BY <1>11, <2>1, <2>2, <2>3 DEF Finalize, CancelledFrom, Rewritten, IInv, BatchInv, HeardInv,
       Running
  <2> QED
    BY <2>4, <2>5, <2>6, <2>7 DEF IInv
<1>12. ASSUME Done PROVE IInv'
  <2>1. (TypeOK /\ BatchInv)'
    BY <1>12 DEF Done, IInv, TypeOK, BatchInv, ProgressInv, Batch, Status, Running, Sane
  <2>2. ProgressInv'
    BY <1>12 DEF Done, IInv, TypeOK, BatchInv, ProgressInv, Batch, Running
  <2>3. CounterInv'
    BY <1>12 DEF Done, IInv, TypeOK, BatchInv, ProgressInv, CounterInv, Adds, Batch, Running
  <2>4. HeardInv'
    BY <1>12 DEF Done, IInv, BatchInv, HeardInv, Running
  <2> QED
    BY <2>1, <2>2, <2>3, <2>4 DEF IInv
<1>13. ASSUME Dies PROVE IInv'
  <2>1. (TypeOK /\ BatchInv)'
    BY <1>13 DEF Dies, Fault, IInv, TypeOK, BatchInv, ProgressInv, Batch, Status, Running, Sane
  <2>2. ProgressInv'
    BY <1>13 DEF Dies, Fault, IInv, TypeOK, BatchInv, ProgressInv, Batch, Running
  <2>3. CounterInv'
    BY <1>13 DEF Dies, Fault, IInv, TypeOK, BatchInv, ProgressInv, CounterInv, Adds, Batch, Running
  <2>4. HeardInv'
    BY <1>13 DEF Dies, Fault, IInv, BatchInv, HeardInv, Running
  <2> QED
    BY <2>1, <2>2, <2>3, <2>4 DEF IInv
<1>14. ASSUME NEW c \in Cancel, CancelFind(c) PROVE IInv'
  <2>1. row \in Batch
    BY <1>14 DEF CancelFind, IInv, TypeOK
  <2>2. (TypeOK /\ BatchInv)'
    BY <1>14, <2>1 DEF CancelFind, loopVars, IInv, TypeOK, BatchInv, ProgressInv, Batch, Status,
       Running, Sane
  <2>3. ProgressInv'
    BY <1>14, <2>1 DEF CancelFind, loopVars, IInv, TypeOK, BatchInv, ProgressInv, Batch, Running
  <2>4. CounterInv'
    BY <1>14, <2>1 DEF CancelFind, loopVars, IInv, TypeOK, BatchInv, ProgressInv, CounterInv,
       Adds, Batch, Running
  <2>5. HeardInv'
    BY <1>14, <2>1 DEF CancelFind, loopVars, IInv, BatchInv, HeardInv, Running
  <2> QED
    BY <2>2, <2>3, <2>4, <2>5 DEF IInv
<1>15. ASSUME NEW c \in Cancel, CancelSave(c) PROVE IInv'
  <2>1. can[c].row \in Batch
    BY <1>15 DEF CancelSave, IInv, TypeOK
  <2>2. CancelledFrom(can[c].row, row')
    BY <1>15, <2>1, Cancelling DEF CancelSave
  <2>3. (TypeOK /\ BatchInv)'
    BY <1>15, <2>1, <2>2 DEF CancelSave, loopVars, CancelledFrom, IInv, TypeOK, BatchInv,
       ProgressInv, Batch, Status, Running, Sane
  <2>4. ProgressInv'
    BY <1>15, <2>1, <2>2 DEF CancelSave, loopVars, CancelledFrom, IInv, TypeOK, BatchInv,
       ProgressInv, Batch, Running
  <2>5. CounterInv'
    BY <1>15, <2>1, <2>2 DEF CancelSave, loopVars, CancelledFrom, IInv, TypeOK, BatchInv,
       ProgressInv, CounterInv, Adds, Batch, Running
  <2>6. HeardInv'
    BY <1>15, <2>1, <2>2 DEF CancelSave, loopVars, CancelledFrom, IInv, BatchInv, HeardInv, Running
  <2> QED
    BY <2>3, <2>4, <2>5, <2>6 DEF IInv
<1>16. ASSUME Restart PROVE IInv'
  <2>1. row' = row \/ (row \in Batch /\ row.status = "PROCESSING" /\ Rewritten(row, row', "FAILED"))
    BY <1>16, Orphaning DEF Restart, IInv, TypeOK
  <2>2. (TypeOK /\ BatchInv)'
    BY <1>16, <2>1 DEF Restart, Fault, Rewritten, IInv, TypeOK, BatchInv, ProgressInv, Batch,
       Status, Running, Sane
  <2>3. ProgressInv'
    BY <1>16, <2>1 DEF Restart, Fault, Rewritten, IInv, TypeOK, BatchInv, ProgressInv, Batch,
       Running
  <2>4. CounterInv'
    BY <1>16, <2>1 DEF Restart, Fault, Rewritten, IInv, TypeOK, BatchInv, ProgressInv, CounterInv,
       Adds, Batch, Running
  <2>5. HeardInv'
    BY <1>16, <2>1 DEF Restart, Fault, Rewritten, IInv, BatchInv, HeardInv, Running
  <2> QED
    BY <2>2, <2>3, <2>4, <2>5 DEF IInv
<1>17. ASSUME OtherRestarts PROVE IInv'
  <2>1. row' = row \/ (row \in Batch /\ row.status = "PROCESSING" /\ Rewritten(row, row', "FAILED"))
    BY <1>17, Orphaning DEF OtherRestarts, IInv, TypeOK
  <2>2. (TypeOK /\ BatchInv)'
    BY <1>17, <2>1 DEF OtherRestarts, Fault, loopVars, Rewritten, IInv, TypeOK, BatchInv,
       ProgressInv, Batch, Status, Running, Sane
  <2>3. ProgressInv'
    BY <1>17, <2>1 DEF OtherRestarts, Fault, loopVars, Rewritten, IInv, TypeOK, BatchInv,
       ProgressInv, Batch, Running
  <2>4. CounterInv'
    BY <1>17, <2>1 DEF OtherRestarts, Fault, loopVars, Rewritten, IInv, TypeOK, BatchInv,
       ProgressInv, CounterInv, Adds, Batch, Running
  <2>5. HeardInv'
    BY <1>17, <2>1 DEF OtherRestarts, Fault, loopVars, Rewritten, IInv, BatchInv, HeardInv, Running
  <2> QED
    BY <2>2, <2>3, <2>4, <2>5 DEF IInv
<1>18. CASE UNCHANGED vars
  BY <1>18 DEF vars, loopVars, IInv, TypeOK, BatchInv, ProgressInv, CounterInv, HeardInv
<1> QED
  BY <1>1, <1>2, <1>3, <1>4, <1>5, <1>6, <1>7, <1>8, <1>9, <1>10, <1>11, <1>12, <1>13, <1>14,
     <1>15, <1>16, <1>17, <1>18 DEF Next, ProcessBatch

\* The inductive invariant holds in every reachable state.
THEOREM Inductive == Spec => []IInv
<1>1. Init => IInv
  <2> SUFFICES ASSUME Init PROVE IInv
    OBVIOUS
  <2>1. TypeOK
    <3>1. idx \in 0 .. Total
      BY DEF Init
    <3>2. stopOnError \in BOOLEAN /\ active \in BOOLEAN /\ {early, heard} \subseteq BOOLEAN
      BY Zenon DEF Init
    <3>3. can \in [Cancel -> [row : Batch, here : BOOLEAN] \cup {None}]
      BY DEF Init
    <3> QED
      BY <3>1, <3>2, <3>3 DEF Init, TypeOK
  <2>2. BatchInv /\ ProgressInv /\ CounterInv
    BY DEF Init, BatchInv, ProgressInv, CounterInv, Running
  <2>3. HeardInv
    BY DEF Init, HeardInv
  <2> QED
    BY <2>1, <2>2, <2>3 DEF IInv
<1> QED
  BY <1>1, Step, PTL DEF Spec

\* The variables of the batch keep their types; its counters never exceed its size.
THEOREM TypeCorrect == Spec => []TypeOK
<1>1. IInv => TypeOK
  BY DEF IInv
<1> QED
  BY <1>1, Inductive, PTL

\* However loop, cancels and restarts overwrite each other's row, every message is
\* in one counter of it, unless the loop began on a row already cancelled.
THEOREM ProgressIsExact == Spec => []CountersAddUp
<1>1. IInv => CountersAddUp
  BY DEF IInv, CounterInv, Adds, CountersAddUp
<1> QED
  BY <1>1, Inductive, PTL

\* A cancel accepted by the process that runs the loop is what the batch ends with.
THEOREM CancelIsFinal == Spec => []HeardCancelWins
<1>1. IInv => HeardCancelWins
  BY DEF IInv, HeardInv, HeardCancelWins
<1> QED
  BY <1>1, Inductive, PTL

-----------------------------------------------------------------------------
(* The plugin host: its inductive invariant.                               *)

\* A request that holds the claim of enablePlugin, and one that waits in
\* disablePlugin for a worker to end.
Enabling(r) == r.pc \in {"up", "dropped", "fail"}
Ending(r) == r.pc \in {"off", "term"}

\* A request waits only for a worker that runs, and goes on only after one that
\* does not; an update has its package.
WorkOK(r) ==
    /\ r.pc \in {"up", "dropped", "off", "term"} => r.host \in Host /\ worker[r.host] # "dead"
    /\ r.pc \in Resumed => r.host = Nil \/ worker[r.host] = "dead"
    /\ r.pc # "idle" /\ r.kind = "update" => r.file \in Version

\* One request at most brings a worker up, and this.enabling says so.
ClaimInv ==
    /\ \A p \in Op : WorkOK(op[p])
    /\ \A p \in Op : Enabling(op[p]) => enabling
    /\ \A p, q \in Op : Enabling(op[p]) /\ Enabling(op[q]) => p = q

\* As long as nothing was taken away from an operation, a request that waits for
\* a worker works on the loaded instance and on the worker in the slot.
UpInSlot == \A p \in Op : op[p].pc = "up" => slot = op[p].host
EndingInv ==
    \A p \in Op : Ending(op[p]) => cur = op[p].inst /\ status[op[p].inst] = "ENABLED" /\ slot = op[p].host
EnablingInv == \A p \in Op : Enabling(op[p]) => cur = op[p].inst /\ status[op[p].inst] # "ENABLED"

\* Requests that go on after a disable leave no other one waiting in it, one that
\* goes on after a failed enable is alone, and one that rolls back finds nothing
\* enabled.
NoneEnds == \A p, q \in Op : op[q].pc \in {"go", "gone", "back"} => ~Ending(op[p])
FailsAlone == \A p, q \in Op : op[q].pc = "fail" /\ op[p].pc \in Resumed => p = q
BackInv ==
    \A q \in Op : op[q].pc = "back" =>
        /\ ~enabling
        /\ cur = Nil \/ status[cur] # "ENABLED"
        /\ \A p \in Op \ {q} : op[p].pc # "back" /\ (op[p].pc \in {"go", "gone"} => cur # op[p].inst)
GoneInv == \A p \in Op : op[p].pc = "gone" => status[op[p].inst] # "ENABLED"

\* A worker that runs in the slot is being brought up, or the plugin is enabled.
SlotInv ==
    slot # Nil /\ worker[slot] # "dead" =>
        \/ \E p \in Op : op[p].pc = "up" /\ op[p].host = slot
        \/ cur # Nil /\ status[cur] = "ENABLED"
Found == \A h \in Host : worker[h] # "dead" => slot = h \/ \E p \in Op : op[p].host = h

\* An update between the swap of the directories and its end has the version to
\* keep in the backup, and loads its own package from the directory.
Updating(r) == r.pc = "back" \/ (r.kind = "update" /\ Enabling(r))
HalfWay ==
    \A p \in Op : Updating(op[p]) =>
        /\ ~cut /\ bak # Nil /\ kept = bak
        /\ Enabling(op[p]) => cur # Nil /\ dir = op[p].file /\ ver[cur] = dir

\* Outside of one there is no backup but that of a restart, and the version to
\* keep is the one on disk and the one loaded.
AtRest ==
    /\ ~cut => bak = Nil /\ (cur = Nil <=> kept = Nil)
    /\ dir = kept
    /\ dir # Nil => cur # Nil /\ ver[cur] = dir
DiskInv == HalfWay /\ ((\A p \in Op : ~Updating(op[p])) => AtRest)

CalmInv ==
    /\ UpInSlot /\ EndingInv /\ EnablingInv
    /\ NoneEnds /\ FailsAlone /\ BackInv /\ GoneInv
    /\ SlotInv /\ Found /\ DiskInv

PluginIInv == PluginTypeOK /\ ClaimInv /\ (~raced => CalmInv)

-----------------------------------------------------------------------------
(* Requests and new workers.                                               *)

\* A request that does not run is Idle; one that does has its fields.
LEMMA RequestFields ==
  ASSUME NEW r, r \in Work \cup {Idle}
  PROVE  /\ r.pc = "idle" => r = Idle /\ r.host = Nil /\ r.inst = Nil
         /\ r.pc # "idle" => /\ r \in Work /\ r.pc \in PC /\ r.inst \in Instance
                             /\ r.host \in Host \cup {Nil} /\ r.was \in BOOLEAN
                             /\ r.file \in Version \cup {Nil} /\ r.kind \in Kind
  BY DEF Work, Idle, PC, Resumed, Kind

\* Of all requests only p changes.
Others(p) == \A q \in Op \ {p} : op'[q] = op[q]

\* Finish makes the request Idle and keeps the others.
LEMMA FinishEffect ==
  ASSUME op \in [Op -> Work \cup {Idle}], NEW p \in Op, Finish(p)
  PROVE  /\ op' \in [Op -> Work \cup {Idle}]
         /\ op'[p].pc = "idle" /\ op'[p].host = Nil /\ Others(p)
  BY DEF Finish, Others, Idle

\* Goto keeps everything of a request but where it stands.
LEMMA GotoEffect ==
  ASSUME op \in [Op -> Work \cup {Idle}], NEW p \in Op, NEW l \in PC, Goto(p, l), op[p].pc # "idle"
  PROVE  /\ op' \in [Op -> Work \cup {Idle}]
         /\ op'[p].pc = l /\ op'[p].host = op[p].host /\ op'[p].inst = op[p].inst
         /\ op'[p].kind = op[p].kind /\ op'[p].file = op[p].file
         /\ Others(p)
<1>1. op[p] \in Work
  BY RequestFields
<1>2. op'[p] = [op[p] EXCEPT !.pc = l] /\ Others(p)
  BY DEF Goto, Others
<1>3. op'[p] \in Work
  BY <1>1, <1>2 DEF Work
<1>4. op' \in [Op -> Work \cup {Idle}]
  BY <1>3 DEF Goto
<1> QED
  BY <1>1, <1>2, <1>4 DEF Work

\* A new worker is one nobody refers to, and it takes the slot and the claim.
Brought(p, k, i, h) ==
    /\ enabling'
    /\ slot' = h
    /\ worker' = [worker EXCEPT ![h] = "up"]
    /\ owner' = [owner EXCEPT ![h] = i]
    /\ subs' = subs \ {h} /\ hooks' = hooks
    /\ op' \in [Op -> Work \cup {Idle}]
    /\ op'[p].pc = "up" /\ op'[p].host = h /\ op'[p].inst = i /\ op'[p].kind = k /\ op'[p].file = op[p].file
    /\ Others(p)

\* BringUp has the effect of Brought, on a host nobody refers to.
LEMMA BringUpEffect ==
  ASSUME op \in [Op -> Work \cup {Idle}], NEW p \in Op, NEW k \in Kind, NEW i \in Instance, BringUp(p, k, i)
  PROVE  \E h \in FreshHosts : Brought(p, k, i, h)
<1> DEFINE h == NewHost
<1>1. h \in FreshHosts /\ h \in Host
  BY DEF BringUp, FreshHosts
<1>2. op'[p] = [op[p] EXCEPT !.kind = k, !.pc = "up", !.inst = i, !.host = h] /\ Others(p)
  BY DEF BringUp, Others
<1>3. op'[p] \in Work
  <2>1. CASE op[p] \in Work
    BY <1>1, <1>2, <2>1 DEF Work, PC
  <2>2. CASE op[p] = Idle
    <3> HIDE DEF h
    <3>1. op'[p] = [kind |-> k, pc |-> "up", inst |-> i, host |-> h, was |-> FALSE, file |-> Nil]
      <4>1. op'[p] = [Idle EXCEPT !.kind = k, !.pc = "up", !.inst = i, !.host = h]
        BY <1>2, <2>2
      <4> QED
        BY <4>1, Zenon DEF Idle
    <3> QED
      BY <1>1, <3>1 DEF Work, PC
  <2> QED
    BY <2>1, <2>2
<1>4. op' \in [Op -> Work \cup {Idle}]
  BY <1>3 DEF BringUp
<1>5. /\ op'[p].pc = "up" /\ op'[p].host = h /\ op'[p].inst = i /\ op'[p].kind = k
      /\ op'[p].file = op[p].file
  BY <1>2 DEF Work, Idle
<1>6. Brought(p, k, i, h)
  BY <1>2, <1>4, <1>5 DEF BringUp, Brought
<1> QED
  BY <1>1, <1>6

\* Where a request can stand, and what follows of its instance and its worker.
LEMMA Standing ==
  ASSUME PluginTypeOK, NEW q \in Op
  PROVE  /\ op[q].pc = "idle" \/ Enabling(op[q]) \/ Ending(op[q]) \/ op[q].pc \in {"go", "gone", "back"}
         /\ op[q].pc = "idle" => op[q].host = Nil
         /\ op[q].pc # "idle" => op[q].inst \in Instance /\ op[q].inst # Nil
         /\ op[q].host \in Host \cup {Nil}
  BY RequestFields DEF PluginTypeOK, Enabling, Ending, PC, Resumed

\* The request that brings a worker up is the only one that does.
LEMMA BroughtClaim ==
  ASSUME PluginTypeOK, ClaimInv, ~enabling, NEW p \in Op, NEW k, NEW i, NEW h \in FreshHosts,
         Brought(p, k, i, h), k = "update" => op[p].file \in Version
  PROVE  ClaimInv'
<1>1. h \in Host /\ \A q \in Op : op[q].host # h
  BY DEF FreshHosts
<1>2. \A q \in Op : ~Enabling(op[q])
  BY DEF ClaimInv
<1>3. worker'[h] = "up" /\ \A g \in Host \ {h} : worker'[g] = worker[g]
  BY <1>1 DEF Brought, PluginTypeOK
<1>4. WorkOK(op[p])'
  BY <1>1, <1>3 DEF Brought, WorkOK, Resumed
<1>5. \A q \in Op \ {p} : WorkOK(op[q])'
  BY <1>1, <1>3, Standing DEF Brought, WorkOK, Others, ClaimInv
<1> QED
  BY <1>2, <1>4, <1>5 DEF ClaimInv, Brought, Others, Enabling

\* What a step keeps of the disk if it neither begins nor ends an update's half way.
LEMMA DiskStays ==
  ASSUME DiskInv, UNCHANGED <<cur, ver, dir, bak, kept, cut>>,
         \A q \in Op : Updating(op'[q]) <=> Updating(op[q]),
         \A q \in Op : Updating(op'[q]) /\ Enabling(op'[q]) => Enabling(op[q]) /\ op'[q].file = op[q].file
  PROVE  DiskInv'
<1>1. HalfWay'
  BY DEF DiskInv, HalfWay
<1>2. AtRest' <=> AtRest
  BY DEF AtRest
<1> QED
  BY <1>1, <1>2 DEF DiskInv

-----------------------------------------------------------------------------
(* Every action preserves the invariant: the requests.                     *)

\* install: nothing is loaded, so no request is under way with the plugin.
LEMMA InstallStep ==
  ASSUME PluginIInv, NEW p \in Op, NEW v \in Version, Install(p, v)
  PROVE  PluginIInv'
<1>1. /\ Settled /\ cur = Nil /\ dir = Nil /\ op' = op /\ worker' = worker /\ slot' = slot
      /\ enabling' = enabling /\ raced' = raced /\ bak' = bak /\ cut' = cut
  BY DEF Install, Request, hostVars
<1>2. PluginTypeOK'
  <2> USE DEF PluginTypeOK, PluginIInv, Install, Request, hostVars
  <2>1. CASE Load(NewInstance, v)
    BY <2>1 DEF Load, FreshInstances, Stored, PluginStatus
  <2>2. CASE PluginFault
    BY <2>2 DEF PluginFault
  <2> QED
    BY <2>1, <2>2
<1>3. ClaimInv'
  BY <1>1 DEF PluginIInv, ClaimInv, WorkOK, Enabling
<1>4. ASSUME ~raced'
      PROVE  CalmInv'
  <2>1. CalmInv /\ PluginTypeOK
    BY <1>1, <1>4 DEF PluginIInv
  <2>2. \A q \in Op : op[q].pc = "idle"
    BY <1>1, <2>1, Standing DEF Settled, Resumed, CalmInv, EndingInv, EnablingInv
  <2>3. slot = Nil \/ worker[slot] = "dead"
    BY <1>1, <2>1, <2>2 DEF CalmInv, SlotInv
  <2>4. \A q \in Op : ~Updating(op[q]) /\ ~Updating(op'[q])
    BY <1>1, <2>2 DEF Updating, Enabling
  <2>5. AtRest
    BY <2>1, <2>4 DEF CalmInv, DiskInv
  <2>6. AtRest'
    <3>1. CASE Load(NewInstance, v) /\ dir' = v /\ kept' = v
      <4>1. v # Nil /\ cur' \in Instance /\ cur' # Nil /\ ver'[cur'] = v
        BY <2>1, <3>1 DEF Load, FreshInstances, PluginTypeOK
      <4> QED
        BY <1>1, <2>5, <3>1, <4>1 DEF AtRest
    <3>2. CASE UNCHANGED <<cur, ver, dir, kept>>
      BY <1>1, <2>5, <3>2 DEF AtRest
    <3> QED
      BY <3>1, <3>2 DEF Install
  <2>7. DiskInv'
    BY <2>4, <2>6 DEF DiskInv, HalfWay
  <2> QED
    BY <1>1, <2>1, <2>2, <2>3, <2>7
    DEF CalmInv, UpInSlot, EndingInv, EnablingInv, NoneEnds, FailsAlone, BackInv, GoneInv, SlotInv,
        Found, Ending, Enabling, Resumed
<1> QED
  BY <1>2, <1>3, <1>4 DEF PluginIInv

\* enablePlugin up to its first await: it finds the claim free and no worker running.
LEMMA EnableStep ==
  ASSUME PluginIInv, NEW p \in Op, Enable(p)
  PROVE  PluginIInv'
<1>1. /\ Settled /\ cur # Nil /\ status[cur] # "ENABLED" /\ ~enabling /\ op[p] = Idle
      /\ BringUp(p, "enable", cur) /\ raced' = raced
      /\ UNCHANGED <<cur, status, ver, settings, entry, dir, bak, kept, cut, chain, events, pluginFaults>>
      /\ requests' = requests + 1
  BY DEF Enable, Request, MayEnable, diskVars
<1>2. PluginTypeOK /\ ClaimInv /\ cur \in Instance
  BY <1>1 DEF PluginIInv, PluginTypeOK
<1>3. PICK h \in FreshHosts : Brought(p, "enable", cur, h)
  BY <1>1, <1>2, BringUpEffect DEF PluginTypeOK, Kind
<1>4. /\ h \in Host /\ worker[h] = "dead" /\ h \notin hooks
      /\ \A q \in Op : op[q].host # h
  BY <1>3 DEF FreshHosts
<1>5. PluginTypeOK'
  BY <1>1, <1>2, <1>3, <1>4 DEF PluginTypeOK, Brought
<1>6. ClaimInv'
  BY <1>1, <1>2, <1>3, BroughtClaim
<1>7. ASSUME ~raced'
      PROVE  CalmInv'
  <2>1. CalmInv
    BY <1>1, <1>7 DEF PluginIInv
  <2>2. \A q \in Op : op[q].pc = "idle" /\ op[q].host = Nil
    BY <1>1, <1>2, <2>1, Standing DEF Settled, Resumed, CalmInv, EndingInv, ClaimInv
  <2>3. slot = Nil \/ worker[slot] = "dead"
    BY <1>1, <1>2, <2>1, <2>2 DEF CalmInv, SlotInv, PluginTypeOK
  <2>4. \A g \in Host : worker[g] = "dead"
    BY <1>2, <2>1, <2>2, <2>3 DEF CalmInv, Found
  <2>5. \A q \in Op \ {p} : op'[q].pc = "idle"
    BY <1>3, <2>2 DEF Brought, Others
  <2>6. \A g \in Host : worker'[g] # "dead" => g = h
    BY <1>2, <1>3, <2>4 DEF Brought, PluginTypeOK
  <2>7. op'[p].pc = "up" /\ op'[p].host = h /\ op'[p].inst = cur /\ op'[p].kind = "enable" /\ slot' = h
    BY <1>3 DEF Brought
  <2>8. \A q \in Op : ~Updating(op[q]) /\ ~Updating(op'[q])
    BY <2>2, <2>5, <2>7 DEF Updating, Enabling
  <2>9. DiskInv'
    BY <1>1, <2>1, <2>8, DiskStays DEF CalmInv
  <2> QED
    BY <1>1, <2>1, <2>5, <2>6, <2>7, <2>9
    DEF CalmInv, UpInSlot, EndingInv, EnablingInv, NoneEnds, FailsAlone, BackInv, GoneInv, SlotInv,
        Found, Ending, Enabling, Resumed
<1> QED
  BY <1>5, <1>6, <1>7 DEF PluginIInv

\* What disablePlugin and unloadPlugin begin, while the plugin is enabled: the
\* request waits for the worker in the slot, or finds it gone.
LEMMA OffStep ==
  ASSUME PluginIInv, NEW p \in Op, Settled, op[p] = Idle, cur # Nil, status[cur] = "ENABLED",
         NEW r \in Work, op' = [op EXCEPT ![p] = r],
         r.pc = AfterOff, r.inst = cur, r.host = slot, r.kind = "update" => r.file \in Version,
         UNCHANGED <<memVars, hostVars, diskVars, chain, raced, events, pluginFaults>>,
         requests' = requests + 1
  PROVE  PluginIInv'
<1>1. op'[p] = r /\ Others(p) /\ op' \in [Op -> Work \cup {Idle}]
  BY DEF PluginIInv, PluginTypeOK, Others
<1>2. /\ r.pc \in {"off", "go"}
      /\ r.pc = "off" => slot # Nil /\ worker[slot] # "dead"
      /\ r.pc = "go" => slot = Nil \/ worker[slot] = "dead"
  BY DEF AfterOff
<1>3. PluginTypeOK'
  BY <1>1 DEF PluginIInv, PluginTypeOK, memVars, hostVars, diskVars
<1>4. ClaimInv'
  <2>1. WorkOK(r)'
    BY <1>2 DEF WorkOK, PluginIInv, PluginTypeOK, hostVars, Resumed
  <2>2. \A q \in Op : WorkOK(op[q])'
    BY <1>1, <2>1 DEF WorkOK, PluginIInv, ClaimInv, hostVars, Others
  <2> QED
    BY <1>1, <1>2, <2>2 DEF PluginIInv, ClaimInv, Enabling, Others, memVars
<1>5. ASSUME ~raced'
      PROVE  CalmInv'
  <2> USE DEF memVars, hostVars, diskVars, Others
  <2>1. CalmInv
    BY <1>5 DEF PluginIInv
  <2>2. op[p].pc = "idle" /\ op[p].host = Nil /\ \A q \in Op : op[q].pc \notin Resumed
    BY DEF Idle, Settled
  <2>3. UpInSlot' /\ EndingInv' /\ EnablingInv'
    BY <1>1, <1>2, <2>1 DEF CalmInv, UpInSlot, EndingInv, EnablingInv, Ending, Enabling
  <2>4. NoneEnds'
    <3>1. r.pc = "go" => \A q \in Op : ~Ending(op[q])
      BY <1>2, <2>1 DEF CalmInv, EndingInv, PluginIInv, ClaimInv, WorkOK, PluginTypeOK, Ending
    <3> QED
      BY <1>1, <1>2, <2>2, <3>1 DEF NoneEnds, Ending, Resumed
  <2>5. FailsAlone' /\ BackInv' /\ GoneInv'
    BY <1>1, <1>2, <2>2 DEF FailsAlone, BackInv, GoneInv, Resumed
  <2>6. SlotInv'
    BY DEF SlotInv
  <2>7. Found'
    BY <1>1, <2>1, <2>2 DEF CalmInv, Found
  <2>8. DiskInv'
    <3>1. ~Updating(r) /\ ~Updating(op[p])
      BY <1>2, <2>2 DEF Updating, Enabling
    <3> QED
      BY <1>1, <2>1, <3>1, DiskStays DEF CalmInv
  <2> QED
    BY <2>3, <2>4, <2>5, <2>6, <2>7, <2>8 DEF CalmInv
<1> QED
  BY <1>3, <1>4, <1>5 DEF PluginIInv

\* disablePlugin up to its first await.
LEMMA DisableStep ==
  ASSUME PluginIInv, NEW p \in Op, Disable(p)
  PROVE  PluginIInv'
<1>1. PICK r : r = [Idle EXCEPT !.kind = "disable", !.pc = AfterOff, !.inst = cur, !.host = slot]
  OBVIOUS
<1>2. r = [kind |-> "disable", pc |-> AfterOff, inst |-> cur, host |-> slot, was |-> FALSE, file |-> Nil]
  BY <1>1, Zenon DEF Idle
<1>3. r \in Work
  BY <1>2 DEF PluginIInv, PluginTypeOK, Disable, Work, AfterOff, PC, Resumed, Kind
<1>4. r.pc = AfterOff /\ r.inst = cur /\ r.host = slot /\ r.kind # "update"
  BY <1>2
<1>5. op' = [op EXCEPT ![p] = r]
  BY <1>1, Zenon DEF Disable
<1> QED
  BY <1>3, <1>4, <1>5, OffStep DEF Disable, Request

\* An instance that is not enabled is unloaded in the same turn.
LEMMA UnloadStep ==
  ASSUME PluginIInv, NEW p \in Op, NEW k \in {"uninstall", "update"}, NEW v \in Version \cup {Nil},
         k = "update" => v \in Version, Unload(p, k, v)
  PROVE  PluginIInv'
<1>0. /\ Settled /\ op[p] = Idle /\ cur # Nil /\ requests' = requests + 1
      /\ UNCHANGED <<memVars, hostVars, diskVars, chain, raced, events, pluginFaults>>
  BY DEF Unload, Request
<1>1. CASE status[cur] = "ENABLED"
  <2> DEFINE s == [kind |-> k, inst |-> cur, file |-> v, was |-> TRUE, pc |-> AfterOff, host |-> slot]
  <2>1. op' = [op EXCEPT ![p] = s]
    BY <1>1 DEF Unload
  <2>2. PICK r : r = s
    OBVIOUS
  <2>3. r \in Work
    BY <1>0, <2>2 DEF PluginIInv, PluginTypeOK, Work, AfterOff, PC, Resumed, Kind
  <2>4. r.pc = AfterOff /\ r.inst = cur /\ r.host = slot /\ r.kind = k /\ r.file = v
    BY <2>2
  <2> QED
    BY <1>0, <1>1, <2>1, <2>2, <2>3, <2>4, OffStep
<1>2. CASE status[cur] # "ENABLED"
  <2> DEFINE s == [kind |-> k, inst |-> cur, file |-> v, was |-> FALSE, pc |-> "gone", host |-> Nil]
  <2>1. op' = [op EXCEPT ![p] = s]
    BY <1>2 DEF Unload
  <2>2. PICK r : r = s
    OBVIOUS
  <2>3. r \in Work
    BY <1>0, <2>2 DEF PluginIInv, PluginTypeOK, Work, PC, Resumed, Kind
  <2>4. r.pc = "gone" /\ r.inst = cur /\ r.host = Nil /\ r.kind = k /\ r.file = v
    BY <2>2
  <2>5. op'[p] = r /\ Others(p) /\ op' \in [Op -> Work \cup {Idle}]
    BY <2>1, <2>2, <2>3 DEF PluginIInv, PluginTypeOK, Others
  <2>6. PluginTypeOK'
    BY <1>0, <2>5 DEF PluginIInv, PluginTypeOK, memVars, hostVars, diskVars
  <2>7. ClaimInv'
    BY <1>0, <2>4, <2>5 DEF WorkOK, PluginIInv, ClaimInv, hostVars, memVars, Others, Enabling
  <2>8. ASSUME ~raced'
        PROVE  CalmInv'
    <3> USE DEF memVars, hostVars, diskVars, Others
    <3>1. CalmInv
      BY <1>0, <2>8 DEF PluginIInv
    <3>2. op[p].pc = "idle" /\ op[p].host = Nil /\ \A q \in Op : op[q].pc \notin Resumed
      BY <1>0 DEF Idle, Settled
    <3>3. \A q \in Op : ~Ending(op[q])
      BY <1>2, <3>1 DEF CalmInv, EndingInv
    <3>4. UpInSlot' /\ EndingInv' /\ EnablingInv'
      BY <1>0, <2>4, <2>5, <3>1 DEF CalmInv, UpInSlot, EndingInv, EnablingInv, Ending, Enabling
    <3>5. NoneEnds' /\ FailsAlone' /\ BackInv' /\ GoneInv'
      BY <1>0, <1>2, <2>4, <2>5, <3>2, <3>3 DEF NoneEnds, FailsAlone, BackInv, GoneInv, Ending, Resumed
    <3>6. SlotInv' /\ Found'
      BY <1>0, <2>4, <2>5, <3>1, <3>2 DEF CalmInv, SlotInv, Found
    <3>7. ~Updating(op'[p]) /\ ~Updating(op[p])
      BY <2>4, <2>5, <3>2 DEF Updating, Enabling
    <3>8. DiskInv'
      BY <1>0, <2>5, <3>1, <3>7, DiskStays DEF CalmInv
    <3> QED
      BY <3>4, <3>5, <3>6, <3>8 DEF CalmInv
  <2> QED
    BY <2>6, <2>7, <2>8 DEF PluginIInv
<1> QED
  BY <1>1, <1>2

\* A step that moves no request and no worker keeps all but the type invariant.
LEMMA SameWork ==
  ASSUME PluginIInv, PluginTypeOK',
         UNCHANGED <<cur, status, ver, enabling, slot, worker, dir, bak, kept, cut, op, raced>>
  PROVE  PluginIInv'
<1>1. ClaimInv' = ClaimInv /\ CalmInv' = CalmInv
  BY DEF ClaimInv, WorkOK, CalmInv, UpInSlot, EndingInv, EnablingInv, NoneEnds, FailsAlone, BackInv, GoneInv,
         SlotInv, Found, DiskInv, HalfWay, AtRest
<1> QED
  BY <1>1 DEF PluginIInv

\* updatePluginConfig and its like touch neither requests nor workers.
LEMMA SettingsStep ==
  ASSUME PluginIInv, NEW s \in {"default", "nowhere"}, UpdateSettings(s)
  PROVE  PluginIInv'
<1>1. PluginTypeOK'
  BY DEF PluginIInv, PluginTypeOK, UpdateSettings, hostVars
<1> QED
  BY <1>1, SameWork DEF UpdateSettings, hostVars

-----------------------------------------------------------------------------
(* The rest of enablePlugin.                                               *)

\* While a request brings up a worker, none waits in a disable.
LEMMA EnablingAlone ==
  ASSUME PluginTypeOK, CalmInv, NEW p \in Op, Enabling(op[p]), NEW q \in Op
  PROVE  ~Ending(op[q])
  BY DEF CalmInv, EndingInv, EnablingInv

\* onEnable has answered: the worker in the slot belongs to the loaded instance.
LEMMA EnableDoneStep ==
  ASSUME PluginIInv, NEW p \in Op, EnableDone(p)
  PROVE  PluginIInv'
<1>0. PluginTypeOK /\ ClaimInv
  BY DEF PluginIInv
<1>1. /\ Settled /\ op[p].pc = "up" /\ ~enabling' /\ Finish(p)
      /\ op[p].inst \in Instance /\ status' = [status EXCEPT ![op[p].inst] = "ENABLED"]
      /\ IF op[p].kind = "update" THEN bak' = Nil /\ kept' = op[p].file ELSE UNCHANGED <<bak, kept>>
      /\ UNCHANGED <<cur, ver, settings, slot, worker, owner, subs, hooks, entry, dir, cut, chain, raced>>
      /\ UNCHANGED <<requests, events, pluginFaults>>
  BY <1>0, Standing DEF EnableDone, hostVars, boundVars
<1>2. /\ op' \in [Op -> Work \cup {Idle}]
      /\ op'[p].pc = "idle" /\ op'[p].host = Nil /\ Others(p)
  BY <1>0, <1>1, FinishEffect DEF PluginTypeOK
<1>3. PluginTypeOK'
  <2>1. {dir', bak', kept'} \subseteq Version \cup {Nil}
    BY <1>0, <1>1 DEF PluginTypeOK, ClaimInv, WorkOK
  <2>2. enabling' \in BOOLEAN
    BY Zenon DEF EnableDone
  <2> QED
    BY <1>0, <1>1, <1>2, <2>1, <2>2 DEF PluginTypeOK, PluginStatus
<1>4. Enabling(op[p]) /\ \A q \in Op \ {p} : ~Enabling(op[q])
  BY <1>0, <1>1 DEF ClaimInv, Enabling
<1>5. ClaimInv'
  BY <1>0, <1>1, <1>2, <1>4 DEF ClaimInv, WorkOK, Others, Enabling, Resumed
<1>6. ASSUME ~raced'
      PROVE  CalmInv'
  <2>1. CalmInv
    BY <1>1, <1>6 DEF PluginIInv
  <2>2. \A q \in Op : ~Ending(op[q])
    BY <1>0, <1>4, <2>1, EnablingAlone
  <2>3. \A q \in Op \ {p} : op[q].pc = "idle"
    BY <1>0, <1>1, <1>4, <2>2, Standing DEF Settled, Resumed
  <2>4. \A q \in Op : op'[q].pc = "idle"
    BY <1>2, <2>3 DEF Others
  <2>5. cur = op[p].inst /\ slot = op[p].host /\ cur # Nil
    BY <1>0, <1>1, <1>4, <2>1, Standing DEF CalmInv, UpInSlot, EnablingInv
  <2>6. status'[cur] = "ENABLED"
    BY <1>0, <1>1, <2>5 DEF PluginTypeOK
  <2>7. SlotInv'
    BY <1>1, <2>5, <2>6 DEF SlotInv
  <2>8. Found'
    BY <1>0, <1>1, <2>1, <2>3, <2>5, Standing DEF CalmInv, Found
  <2>9. DiskInv'
    <3>1. \A q \in Op : ~Updating(op'[q])
      BY <2>4 DEF Updating, Enabling
    <3>2. AtRest'
      <4>1. CASE op[p].kind = "update"
        <5>1. ~cut /\ cur # Nil /\ dir = op[p].file /\ ver[cur] = dir
          BY <1>4, <2>1, <4>1 DEF CalmInv, DiskInv, HalfWay, Updating
        <5>2. dir # Nil
          BY <1>0, <1>1, <4>1, <5>1 DEF ClaimInv, WorkOK
        <5> QED
          BY <1>1, <4>1, <5>1, <5>2 DEF AtRest
      <4>2. CASE op[p].kind # "update"
        <5>1. \A q \in Op : ~Updating(op[q])
          BY <1>1, <2>3, <4>2 DEF Updating, Enabling
        <5>2. AtRest
          BY <2>1, <5>1 DEF CalmInv, DiskInv
        <5> QED
          BY <1>1, <4>2, <5>2 DEF AtRest
      <4> QED
        BY <4>1, <4>2
    <3> QED
      BY <3>1, <3>2 DEF DiskInv, HalfWay
  <2> QED
    BY <2>4, <2>7, <2>8, <2>9
    DEF CalmInv, UpInSlot, EndingInv, EnablingInv, NoneEnds, FailsAlone, BackInv, GoneInv, Ending,
        Enabling, Resumed
<1> QED
  BY <1>3, <1>5, <1>6 DEF PluginIInv

\* A worker that fails to come up leaves the slot; its request still holds it.
LEMMA BringUpFailsStep ==
  ASSUME PluginIInv, NEW p \in Op, BringUpFails(p)
  PROVE  PluginIInv'
<1>0. PluginTypeOK /\ ClaimInv
  BY DEF PluginIInv
<1>1. /\ Settled /\ op[p].pc = "up" /\ Goto(p, "dropped") /\ slot' = Nil
      /\ UNCHANGED <<cur, status, ver, settings, enabling, worker, owner, subs, hooks, entry, dir, bak, kept>>
      /\ UNCHANGED <<cut, chain, raced, requests, events>>
      /\ pluginFaults' \in Nat
  BY <1>0 DEF BringUpFails, memVars, diskVars, PluginFault, PluginTypeOK
<1>2. /\ op' \in [Op -> Work \cup {Idle}]
      /\ op'[p].pc = "dropped" /\ op'[p].host = op[p].host /\ op'[p].inst = op[p].inst
      /\ op'[p].kind = op[p].kind /\ op'[p].file = op[p].file
      /\ Others(p)
  BY <1>0, <1>1, GotoEffect DEF PluginTypeOK, PC
<1>3. PluginTypeOK'
  BY <1>0, <1>1, <1>2 DEF PluginTypeOK
<1>4. Enabling(op[p]) /\ \A q \in Op \ {p} : ~Enabling(op[q])
  BY <1>0, <1>1 DEF ClaimInv, Enabling
<1>5. ClaimInv'
  BY <1>0, <1>1, <1>2, <1>4 DEF ClaimInv, WorkOK, Others, Enabling, Resumed
<1>6. ASSUME ~raced'
      PROVE  CalmInv'
  <2>1. CalmInv
    BY <1>1, <1>6 DEF PluginIInv
  <2>2. \A q \in Op \ {p} : op[q].pc = "idle"
    BY <1>0, <1>1, <1>4, <2>1, EnablingAlone, Standing DEF Settled, Resumed
  <2>3. \A q \in Op \ {p} : op'[q].pc = "idle"
    BY <1>2, <2>2 DEF Others
  <2>4. slot = op[p].host
    BY <1>1, <2>1 DEF CalmInv, UpInSlot
  <2>5. Found'
    BY <1>0, <1>1, <1>2, <2>1, <2>4 DEF CalmInv, Found, Others
  <2>6. EnablingInv'
    BY <1>1, <1>2, <1>4, <2>1, <2>3 DEF CalmInv, EnablingInv, Enabling
  <2>7. DiskInv'
    <3>1. /\ Updating(op'[p]) <=> Updating(op[p])
          /\ Enabling(op'[p]) /\ Enabling(op[p])
      BY <1>1, <1>2 DEF Updating, Enabling
    <3> QED
      BY <1>1, <1>2, <2>1, <3>1, DiskStays DEF CalmInv, Others
  <2> QED
    BY <1>1, <1>2, <2>3, <2>5, <2>6, <2>7
    DEF CalmInv, UpInSlot, EndingInv, NoneEnds, FailsAlone, BackInv, GoneInv, SlotInv, Ending, Resumed
<1> QED
  BY <1>3, <1>5, <1>6 DEF PluginIInv

\* The catch of enablePlugin: nothing runs any more, an update goes on to its roll back.
LEMMA EnableFailsStep ==
  ASSUME PluginIInv, NEW p \in Op, EnableFails(p)
  PROVE  PluginIInv'
<1>0. PluginTypeOK /\ ClaimInv
  BY DEF PluginIInv
<1>1. /\ op[p].pc = "fail" /\ ~enabling' /\ hooks' = {}
      /\ op[p].inst \in Instance /\ status' = [status EXCEPT ![op[p].inst] = "ERROR"]
      /\ UNCHANGED <<cur, ver, settings, slot, worker, owner, subs, entry, dir, bak, kept, cut, chain, raced>>
      /\ UNCHANGED <<requests, events, pluginFaults>>
      /\ enabling' \in BOOLEAN
  BY <1>0, Standing DEF EnableFails, diskVars, boundVars
<1>2. /\ op' \in [Op -> Work \cup {Idle}] /\ Others(p)
      /\ \/ op[p].kind # "update" /\ op'[p].pc = "idle" /\ op'[p].host = Nil
         \/ /\ op'[p].pc = "back" /\ op'[p].host = op[p].host /\ op'[p].inst = op[p].inst
            /\ op[p].kind = "update" /\ op'[p].kind = op[p].kind /\ op'[p].file = op[p].file
  BY <1>0, <1>1, GotoEffect, FinishEffect DEF PluginTypeOK, PC, Resumed, EnableFails
<1>3. PluginTypeOK'
  BY <1>0, <1>1, <1>2 DEF PluginTypeOK, PluginStatus
<1>4. Enabling(op[p]) /\ \A q \in Op \ {p} : ~Enabling(op[q])
  BY <1>0, <1>1 DEF ClaimInv, Enabling
<1>5. ClaimInv'
  BY <1>0, <1>1, <1>2, <1>4 DEF ClaimInv, WorkOK, Others, Enabling, Resumed
<1>6. ASSUME ~raced'
      PROVE  CalmInv'
  <2>1. CalmInv
    BY <1>1, <1>6 DEF PluginIInv
  <2>2. \A q \in Op \ {p} : op[q].pc = "idle" /\ op[q].host = Nil
    BY <1>0, <1>1, <1>4, <2>1, EnablingAlone, Standing DEF CalmInv, FailsAlone, Resumed
  <2>3. \A q \in Op \ {p} : op'[q].pc = "idle"
    BY <1>2, <2>2 DEF Others
  <2>4. cur = op[p].inst /\ status[cur] # "ENABLED" /\ status'[cur] # "ENABLED"
    BY <1>0, <1>1, <1>4, <2>1 DEF CalmInv, EnablingInv, PluginTypeOK
  <2>5. slot = Nil \/ worker[slot] = "dead"
    BY <1>1, <2>1, <2>2, <2>4 DEF CalmInv, SlotInv
  <2>6. SlotInv'
    BY <1>1, <2>5 DEF SlotInv
  <2>7. Found'
    BY <1>0, <1>1, <1>2, <2>1, <2>2, <2>5 DEF CalmInv, Found, ClaimInv, WorkOK, Resumed
  <2>8. BackInv'
    BY <1>1, <2>3, <2>4 DEF BackInv
  <2>9. DiskInv'
    <3>1. /\ Updating(op'[p]) <=> Updating(op[p])
          /\ ~Enabling(op'[p])
      BY <1>1, <1>2 DEF Updating, Enabling
    <3> QED
      BY <1>1, <1>2, <2>1, <3>1, DiskStays DEF CalmInv, Others
  <2> QED
    BY <1>2, <2>3, <2>6, <2>7, <2>8, <2>9
    DEF CalmInv, UpInSlot, EndingInv, EnablingInv, NoneEnds, FailsAlone, GoneInv, Ending, Enabling, Resumed
<1> QED
  BY <1>3, <1>5, <1>6 DEF PluginIInv

-----------------------------------------------------------------------------
(* disablePlugin, uninstall, update and roll back.                         *)

\* onDisable is over and the worker told to end.
LEMMA LifecycleOverStep ==
  ASSUME PluginIInv, NEW p \in Op, LifecycleOver(p)
  PROVE  PluginIInv'
<1>0. PluginTypeOK /\ ClaimInv
  BY DEF PluginIInv
<1>1. /\ op[p].pc = "off" /\ Goto(p, "term")
      /\ UNCHANGED <<memVars, hostVars, diskVars, chain, raced, boundVars>>
  BY DEF LifecycleOver
<1> USE DEF memVars, hostVars, diskVars, boundVars
<1>2. /\ op' \in [Op -> Work \cup {Idle}]
      /\ op'[p].pc = "term" /\ op'[p].host = op[p].host /\ op'[p].inst = op[p].inst
      /\ op'[p].kind = op[p].kind /\ op'[p].file = op[p].file
      /\ Others(p)
  BY <1>0, <1>1, GotoEffect DEF PluginTypeOK, PC
<1>3. PluginTypeOK'
  BY <1>0, <1>1, <1>2 DEF PluginTypeOK
<1>4. ClaimInv'
  BY <1>0, <1>1, <1>2 DEF ClaimInv, WorkOK, Others, Enabling, Resumed
<1>5. ASSUME ~raced'
      PROVE  CalmInv'
  <2>1. CalmInv
    BY <1>1, <1>5 DEF PluginIInv
  <2>2. UpInSlot' /\ EndingInv' /\ EnablingInv'
    BY <1>1, <1>2, <2>1 DEF CalmInv, UpInSlot, EndingInv, EnablingInv, Ending, Enabling, Others
  <2>3. NoneEnds' /\ FailsAlone' /\ BackInv' /\ GoneInv'
    BY <1>1, <1>2, <2>1 DEF CalmInv, NoneEnds, FailsAlone, BackInv, GoneInv, Ending, Others, Resumed
  <2>4. SlotInv' /\ Found'
    BY <1>1, <1>2, <2>1 DEF CalmInv, SlotInv, Found, Others
  <2>5. ~Updating(op'[p]) /\ ~Updating(op[p])
    BY <1>1, <1>2 DEF Updating, Enabling
  <2>6. DiskInv'
    BY <1>1, <1>2, <2>1, <2>5, DiskStays DEF CalmInv, Others
  <2> QED
    BY <2>2, <2>3, <2>4, <2>6 DEF CalmInv
<1> QED
  BY <1>3, <1>4, <1>5 DEF PluginIInv

\* The rest of disablePlugin: the slot it empties held its own worker, or none.
LEMMA DisableEndsStep ==
  ASSUME PluginIInv, NEW p \in Op, DisableEnds(p)
  PROVE  PluginIInv'
<1>0. PluginTypeOK /\ ClaimInv
  BY DEF PluginIInv
<1>1. /\ op[p].pc = "go" /\ slot' = Nil /\ hooks' = {}
      /\ op[p].inst \in Instance /\ status' = [status EXCEPT ![op[p].inst] = "DISABLED"]
      /\ raced' = (raced \/ slot \notin {op[p].host, Nil})
      /\ UNCHANGED <<cur, ver, settings, enabling, worker, owner, subs, entry, dir, bak, kept, cut, chain>>
      /\ UNCHANGED <<requests, events, pluginFaults>>
  BY <1>0, Standing DEF DisableEnds, diskVars, boundVars
<1>2. /\ op' \in [Op -> Work \cup {Idle}] /\ Others(p)
      /\ \/ op'[p].pc = "idle" /\ op'[p].host = Nil
         \/ /\ op'[p].pc = "gone" /\ op'[p].host = op[p].host /\ op'[p].inst = op[p].inst
            /\ op'[p].kind = op[p].kind /\ op'[p].file = op[p].file
  BY <1>0, <1>1, GotoEffect, FinishEffect DEF PluginTypeOK, PC, Resumed, DisableEnds
<1>3. PluginTypeOK'
  BY <1>0, <1>1, <1>2 DEF PluginTypeOK, PluginStatus
<1>4. ClaimInv'
  BY <1>0, <1>1, <1>2 DEF ClaimInv, WorkOK, Others, Enabling, Resumed
<1>5. ASSUME ~raced'
      PROVE  CalmInv'
  <2>1. CalmInv /\ slot \in {op[p].host, Nil}
    BY <1>1, <1>5 DEF PluginIInv
  <2>2. op[p].host = Nil \/ worker[op[p].host] = "dead"
    BY <1>0, <1>1 DEF ClaimInv, WorkOK, Resumed
  <2>3. slot = Nil \/ worker[slot] = "dead"
    BY <2>1, <2>2
  <2>4. \A q \in Op : op[q].pc # "up" /\ op[q].pc # "fail" /\ ~Ending(op[q])
    BY <1>0, <1>1, <2>1, <2>3 DEF CalmInv, UpInSlot, FailsAlone, NoneEnds, ClaimInv, WorkOK, Resumed
  <2>5. \A i \in Instance : status'[i] = "ENABLED" => status[i] = "ENABLED" /\ i # op[p].inst
    BY <1>0, <1>1 DEF PluginTypeOK
  <2>6. UpInSlot' /\ EndingInv' /\ NoneEnds' /\ FailsAlone'
    BY <1>1, <1>2, <2>4 DEF UpInSlot, EndingInv, NoneEnds, FailsAlone, Ending, Others, Resumed
  <2>7. EnablingInv'
    BY <1>0, <1>1, <1>2, <2>1, <2>5, Standing DEF CalmInv, EnablingInv, Enabling, Others
  <2>8. BackInv'
    BY <1>0, <1>1, <1>2, <2>1, <2>5 DEF CalmInv, BackInv, Others, PluginTypeOK
  <2>9. GoneInv'
    BY <1>0, <1>1, <1>2, <2>1, <2>5, Standing DEF CalmInv, GoneInv, Others
  <2>10. SlotInv' /\ Found'
    BY <1>0, <1>1, <1>2, <2>1, <2>2, <2>3, <2>4 DEF CalmInv, SlotInv, Found, Others
  <2>11. ~Updating(op'[p]) /\ ~Updating(op[p])
    BY <1>1, <1>2 DEF Updating, Enabling
  <2>12. DiskInv'
    BY <1>1, <1>2, <2>1, <2>11, DiskStays DEF CalmInv, Others
  <2> QED
    BY <2>6, <2>7, <2>8, <2>9, <2>10, <2>12 DEF CalmInv
<1> QED
  BY <1>3, <1>4, <1>5 DEF PluginIInv

\* The instance a request unloads is the loaded one and none is being enabled:
\* then nothing else is under way with it, and no worker runs in the slot.
LEMMA UnloadedAlone ==
  ASSUME PluginTypeOK, ClaimInv, CalmInv, NEW p \in Op, op[p].pc = "gone", ~TakenAway(p)
  PROVE  /\ \A q \in Op : op[q].pc \in {"idle", "go", "gone"}
         /\ slot = Nil \/ worker[slot] = "dead"
         /\ \A h \in Host : worker[h] # "dead" => \E q \in Op \ {p} : op[q].host = h
         /\ AtRest
<1>1. ~enabling /\ cur = op[p].inst
  BY DEF TakenAway
<1>2. \A q \in Op : op[q].pc \in {"idle", "go", "gone"}
  BY <1>1, Standing DEF ClaimInv, CalmInv, NoneEnds, BackInv
<1>3. slot = Nil \/ worker[slot] = "dead"
  BY <1>1, <1>2 DEF CalmInv, SlotInv, GoneInv
<1>4. op[p].host = Nil \/ worker[op[p].host] = "dead"
  BY DEF ClaimInv, WorkOK, Resumed
<1>5. \A q \in Op : ~Updating(op[q])
  BY <1>2 DEF Updating, Enabling
<1> QED
  BY <1>2, <1>3, <1>4, <1>5 DEF CalmInv, Found, DiskInv

\* The rest of an uninstall.
LEMMA UninstalledStep ==
  ASSUME PluginIInv, NEW p \in Op, Uninstalled(p)
  PROVE  PluginIInv'
<1>0. PluginTypeOK /\ ClaimInv
  BY DEF PluginIInv
<1>1. /\ op[p].pc = "gone" /\ cur' = Nil /\ entry' = Nil /\ dir' = Nil /\ kept' = Nil /\ Finish(p)
      /\ raced' = (raced \/ TakenAway(p))
      /\ UNCHANGED <<status, ver, settings, enabling, slot, worker, owner, subs, hooks, bak, cut, chain>>
      /\ UNCHANGED <<requests, events, pluginFaults>>
  BY DEF Uninstalled, hostVars, boundVars
<1>2. /\ op' \in [Op -> Work \cup {Idle}]
      /\ op'[p].pc = "idle" /\ op'[p].host = Nil /\ Others(p)
  BY <1>0, <1>1, FinishEffect DEF PluginTypeOK
<1>3. PluginTypeOK'
  BY <1>0, <1>1, <1>2 DEF PluginTypeOK, TakenAway
<1>4. ClaimInv'
  BY <1>0, <1>1, <1>2 DEF ClaimInv, WorkOK, Others, Enabling, Resumed
<1>5. ASSUME ~raced'
      PROVE  CalmInv'
  <2>1. CalmInv /\ ~TakenAway(p)
    BY <1>1, <1>5 DEF PluginIInv
  <2>2. /\ \A q \in Op : op[q].pc \in {"idle", "go", "gone"}
        /\ slot = Nil \/ worker[slot] = "dead"
        /\ \A h \in Host : worker[h] # "dead" => \E q \in Op \ {p} : op[q].host = h
        /\ AtRest
    BY <1>0, <1>1, <2>1, UnloadedAlone
  <2>3. \A q \in Op : op'[q].pc \in {"idle", "go", "gone"}
    BY <1>2, <2>2 DEF Others
  <2>4. GoneInv'
    BY <1>1, <1>2, <2>1 DEF CalmInv, GoneInv, Others
  <2>5. SlotInv' /\ Found'
    BY <1>1, <1>2, <2>2, <2>3 DEF SlotInv, Found, Others
  <2>6. \A q \in Op : ~Updating(op'[q])
    BY <2>3 DEF Updating, Enabling
  <2>7. DiskInv'
    BY <1>1, <2>2, <2>6 DEF DiskInv, HalfWay, AtRest
  <2> QED
    BY <2>3, <2>4, <2>5, <2>7
    DEF CalmInv, UpInSlot, EndingInv, EnablingInv, NoneEnds, FailsAlone, BackInv, Ending, Enabling
<1> QED
  BY <1>3, <1>4, <1>5 DEF PluginIInv

\* What Reenable makes of the request: a new worker, the catch of updatePackage,
\* or its end.
LEMMA ReenableEffect ==
  ASSUME PluginTypeOK, NEW p \in Op, op[p].pc \in {"gone", "back"}, NEW k \in {"update", "restore"},
         NEW i \in Instance, Reenable(p, k, i)
  PROVE  \/ ~enabling /\ op[p].was /\ \E h \in FreshHosts : Brought(p, k, i, h)
         \/ /\ enabling \/ ~op[p].was
            /\ UNCHANGED <<enabling, slot, worker, owner, subs, hooks>>
            /\ op' \in [Op -> Work \cup {Idle}] /\ Others(p)
            /\ \/ op'[p].pc = "idle" /\ op'[p].host = Nil
               \/ /\ enabling /\ op'[p].pc = "back" /\ op'[p].host = op[p].host /\ op'[p].inst = op[p].inst
                  /\ op'[p].kind = op[p].kind /\ op'[p].file = op[p].file
<1>1. CASE op[p].was /\ MayEnable /\ BringUp(p, k, i)
  BY <1>1, BringUpEffect DEF PluginTypeOK, MayEnable, Kind
<1>2. CASE op[p].was /\ ~MayEnable /\ UNCHANGED <<enabling, hostVars>> /\ Goto(p, "back")
  BY <1>2, GotoEffect DEF PluginTypeOK, MayEnable, hostVars, PC, Resumed
<1>3. CASE (~op[p].was \/ ~MayEnable) /\ UNCHANGED <<enabling, hostVars>> /\ Finish(p)
  BY <1>3, FinishEffect DEF PluginTypeOK, MayEnable, hostVars
<1> QED
  BY <1>1, <1>2, <1>3 DEF Reenable

\* A version is loaded from the directory it is in, and enabled if it was.
LEMMA ReloadStep ==
  ASSUME PluginTypeOK, ClaimInv, NEW p \in Op, op[p].pc \in {"gone", "back"}, NEW k \in {"update", "restore"},
         NEW i, NEW v \in Version, Load(i, v), dir' = v, Reenable(p, k, i),
         k = "update" => op[p].file = v,
         {bak', kept'} \subseteq Version \cup {Nil}, cut' \in BOOLEAN,
         raced' \in BOOLEAN, UNCHANGED <<chain, requests, events, pluginFaults>>
  PROVE  /\ PluginTypeOK' /\ ClaimInv'
         /\ CalmInv /\ ~enabling
            /\ (\A q \in Op \ {p} : op[q].pc \in {"idle", "go", "gone"})
            /\ (slot = Nil \/ worker[slot] = "dead")
            /\ (\A h \in Host : worker[h] # "dead" => \E q \in Op \ {p} : op[q].host = h)
            /\ ~cut' /\ (IF k = "update" /\ op[p].was THEN bak' # Nil /\ kept' = bak' ELSE bak' = Nil /\ kept' = v)
            => CalmInv'
<1>1. /\ i \in Instance /\ i # Nil /\ \A q \in Op : op[q].inst # i
      /\ cur' = i /\ ver' \in [Instance -> Version \cup {Nil}] /\ ver'[i] = v
      /\ status' \in [Instance -> PluginStatus] /\ status'[i] = "INSTALLED"
      /\ \A j \in Instance \ {i} : status'[j] = status[j]
      /\ settings' \in [Instance -> {"default", "nowhere"}] /\ entry' \in {"default", "nowhere"}
  BY DEF Load, FreshInstances, PluginTypeOK, PluginStatus, Stored
<1>2. CASE \E h \in FreshHosts : ~enabling /\ op[p].was /\ Brought(p, k, i, h)
  <2>0. ~enabling /\ op[p].was
    BY <1>2
  <2>1. PICK h \in FreshHosts : Brought(p, k, i, h)
    BY <1>2
  <2>2. h \in Host /\ h \notin hooks
    BY <2>1 DEF FreshHosts
  <2>3. PluginTypeOK'
    BY <1>1, <2>1, <2>2 DEF PluginTypeOK, Brought
  <2>4. ClaimInv'
    BY <2>0, <2>1, BroughtClaim
  <2>5. ASSUME CalmInv,
               \A q \in Op \ {p} : op[q].pc \in {"idle", "go", "gone"},
               \A g \in Host : worker[g] # "dead" => \E q \in Op \ {p} : op[q].host = g,
               ~cut', IF k = "update" THEN bak' # Nil /\ kept' = bak' ELSE bak' = Nil /\ kept' = v
        PROVE  CalmInv'
    <3>1. /\ op'[p].pc = "up" /\ op'[p].host = h /\ op'[p].inst = i /\ op'[p].kind = k
          /\ slot' = h /\ Others(p)
      BY <2>1 DEF Brought
    <3>2. \A q \in Op \ {p} : op'[q].pc \in {"idle", "go", "gone"} /\ op'[q] = op[q]
      BY <2>5, <3>1 DEF Others
    <3>3. GoneInv'
      BY <1>1, <2>5, <3>1, <3>2, Standing DEF CalmInv, GoneInv
    <3>4. Found'
      BY <2>1, <2>2, <2>5, <3>1, <3>2 DEF Found, Brought, PluginTypeOK
    <3>5. SlotInv'
      BY <1>1, <3>1, <3>2 DEF SlotInv
    <3>7. \A q \in Op \ {p} : ~Updating(op'[q])
      BY <3>2 DEF Updating, Enabling
    <3>8. DiskInv'
      <4>1. CASE k = "update"
        <5>1. Updating(op'[p]) /\ op'[p].file = v
          BY <2>1, <3>1, <4>1 DEF Updating, Enabling, Brought
        <5>2. HalfWay'
          BY <1>1, <2>5, <3>7, <4>1, <5>1 DEF HalfWay
        <5> QED
          BY <5>1, <5>2 DEF DiskInv
      <4>2. CASE k # "update"
        <5>1. ~Updating(op'[p])
          BY <3>1, <4>2 DEF Updating
        <5>2. AtRest'
          BY <1>1, <2>5, <4>2 DEF AtRest
        <5> QED
          BY <3>7, <5>1, <5>2 DEF DiskInv, HalfWay
      <4> QED
        BY <4>1, <4>2
    <3>6. UpInSlot' /\ EnablingInv'
      BY <1>1, <3>1, <3>2 DEF UpInSlot, EnablingInv, Enabling
    <3> QED
      BY <3>1, <3>2, <3>3, <3>4, <3>5, <3>6, <3>8
      DEF CalmInv, EndingInv, NoneEnds, FailsAlone, BackInv, Ending, Resumed
  <2> QED
    BY <2>0, <2>3, <2>4, <2>5
<1>3. CASE /\ enabling \/ ~op[p].was
           /\ UNCHANGED <<enabling, slot, worker, owner, subs, hooks>>
           /\ op' \in [Op -> Work \cup {Idle}] /\ Others(p)
           /\ \/ op'[p].pc = "idle" /\ op'[p].host = Nil
              \/ /\ enabling /\ op'[p].pc = "back" /\ op'[p].host = op[p].host /\ op'[p].inst = op[p].inst
                 /\ op'[p].kind = op[p].kind /\ op'[p].file = op[p].file
  <2>1. PluginTypeOK'
    BY <1>1, <1>3 DEF PluginTypeOK
  <2>2. ClaimInv'
    BY <1>3 DEF ClaimInv, WorkOK, Others, Enabling, Resumed
  <2>3. ASSUME CalmInv, ~enabling,
               \A q \in Op \ {p} : op[q].pc \in {"idle", "go", "gone"},
               slot = Nil \/ worker[slot] = "dead",
               \A h \in Host : worker[h] # "dead" => \E q \in Op \ {p} : op[q].host = h,
               ~cut', bak' = Nil, kept' = v
        PROVE  CalmInv'
    <3>1. op'[p].pc = "idle" /\ \A q \in Op \ {p} : op'[q].pc \in {"idle", "go", "gone"} /\ op'[q] = op[q]
      BY <1>3, <2>3 DEF Others
    <3>2. GoneInv'
      BY <1>1, <2>3, <3>1, Standing DEF CalmInv, GoneInv
    <3>3. SlotInv' /\ Found'
      BY <1>1, <1>3, <2>3, <3>1 DEF SlotInv, Found
    <3>4. \A q \in Op : ~Updating(op'[q])
      BY <3>1 DEF Updating, Enabling
    <3>5. AtRest'
      BY <1>1, <2>3 DEF AtRest
    <3>6. DiskInv'
      BY <3>4, <3>5 DEF DiskInv, HalfWay
    <3> QED
      BY <3>1, <3>2, <3>3, <3>6
      DEF CalmInv, UpInSlot, EndingInv, EnablingInv, NoneEnds, FailsAlone, BackInv, Ending, Enabling
  <2> QED
    BY <1>3, <2>1, <2>2, <2>3
<1> QED
  BY <1>1, <1>2, <1>3, ReenableEffect

\* The rest of an update: the package is swapped in and loaded, or rolled back next.
LEMMA SwappedStep ==
  ASSUME PluginIInv, NEW p \in Op, Swapped(p)
  PROVE  PluginIInv'
<1>0. PluginTypeOK /\ ClaimInv
  BY DEF PluginIInv
<1>1. /\ op[p].pc = "gone" /\ op[p].kind = "update" /\ raced' = (raced \/ TakenAway(p))
      /\ cut' = FALSE /\ UNCHANGED <<chain, requests, events>>
  BY DEF Swapped
<1>2. op[p].file \in Version /\ raced' \in BOOLEAN /\ cut' \in BOOLEAN /\ ~cut'
  <2>1. raced' \in BOOLEAN
    BY <1>0, <1>1 DEF PluginTypeOK, TakenAway
  <2>2. cut' \in BOOLEAN /\ ~cut'
    BY <1>1, Zenon
  <2> QED
    BY <1>0, <1>1, <2>1, <2>2 DEF ClaimInv, WorkOK
<1>3. ASSUME ~raced'
      PROVE  /\ CalmInv /\ ~enabling
             /\ \A q \in Op : op[q].pc \in {"idle", "go", "gone"}
             /\ slot = Nil \/ worker[slot] = "dead"
             /\ \A h \in Host : worker[h] # "dead" => \E q \in Op \ {p} : op[q].host = h
             /\ AtRest
  <2>1. CalmInv /\ ~TakenAway(p)
    BY <1>1, <1>3 DEF PluginIInv
  <2> QED
    BY <1>0, <1>1, <2>1, UnloadedAlone DEF TakenAway
\* The package cannot be swapped in.
<1>4. CASE /\ cur' = Nil /\ {bak', dir'} \subseteq Version \cup {Nil}
           /\ \/ dir = Nil /\ dir' = Nil /\ bak' = Nil /\ Finish(p)
              \/ dir # Nil /\ bak' = dir /\ Goto(p, "back")
           /\ UNCHANGED <<status, ver, settings, enabling, hostVars, entry, kept>>
           /\ pluginFaults' \in Nat
  <2> USE DEF hostVars
  <2>1. /\ op' \in [Op -> Work \cup {Idle}] /\ Others(p)
        /\ \/ dir = Nil /\ dir' = Nil /\ bak' = Nil /\ op'[p].pc = "idle" /\ op'[p].host = Nil
           \/ /\ dir # Nil /\ bak' = dir
              /\ op'[p].pc = "back" /\ op'[p].host = op[p].host /\ op'[p].inst = op[p].inst
              /\ op'[p].kind = op[p].kind /\ op'[p].file = op[p].file
    BY <1>0, <1>1, <1>4, GotoEffect, FinishEffect DEF PluginTypeOK, PC, Resumed
  <2>2. PluginTypeOK'
    BY <1>0, <1>1, <1>2, <1>4, <2>1 DEF PluginTypeOK
  <2>3. ClaimInv'
    BY <1>0, <1>1, <1>4, <2>1 DEF ClaimInv, WorkOK, Others, Enabling, Resumed
  <2>4. ASSUME ~raced'
        PROVE  CalmInv'
    <3>1. /\ op'[p].pc \in {"idle", "back"}
          /\ \A q \in Op \ {p} : op'[q].pc \in {"idle", "go", "gone"} /\ op'[q] = op[q]
      BY <1>3, <2>1, <2>4 DEF Others
    <3>2. GoneInv'
      BY <1>3, <1>4, <2>4, <3>1 DEF CalmInv, GoneInv
    <3>3. SlotInv' /\ Found'
      BY <1>3, <1>4, <2>4, <3>1 DEF SlotInv, Found
    <3>5. \A q \in Op \ {p} : ~Updating(op'[q])
      BY <3>1 DEF Updating, Enabling
    <3>6. ~Enabling(op'[p]) /\ (Updating(op'[p]) <=> op'[p].pc = "back")
      BY <3>1 DEF Updating, Enabling
    <3>7. dir = kept /\ kept' = kept
      BY <1>3, <1>4, <2>4 DEF AtRest
    <3>8. HalfWay'
      BY <1>2, <2>1, <3>5, <3>6, <3>7 DEF HalfWay
    <3>9. op'[p].pc = "idle" => AtRest'
      BY <1>4, <2>1, <3>7 DEF AtRest
    <3>10. DiskInv'
      BY <3>1, <3>6, <3>8, <3>9 DEF DiskInv
    <3>4. BackInv'
      BY <1>0, <1>3, <1>4, <2>4, <3>1, Standing DEF BackInv
    <3> QED
      BY <3>1, <3>2, <3>3, <3>4, <3>10
      DEF CalmInv, UpInSlot, EndingInv, EnablingInv, NoneEnds, FailsAlone, Ending, Enabling
  <2> QED
    BY <2>2, <2>3, <2>4 DEF PluginIInv
\* It is loaded from its directory.
<1>5. CASE /\ \E i \in Instance : Load(i, op[p].file) /\ dir' = op[p].file /\ Reenable(p, "update", i)
           /\ dir # Nil /\ bak' = (IF op[p].was THEN dir ELSE Nil)
           /\ kept' = (IF op[p].was THEN kept ELSE op[p].file) /\ UNCHANGED pluginFaults
  <2>1. {bak', kept'} \subseteq Version \cup {Nil}
    BY <1>0, <1>2, <1>5 DEF PluginTypeOK
  <2>2. ~raced' => IF op[p].was THEN bak' # Nil /\ kept' = bak' ELSE bak' = Nil /\ kept' = op[p].file
    BY <1>3, <1>5 DEF AtRest
  <2> QED
    BY <1>0, <1>1, <1>2, <1>3, <1>5, <2>1, <2>2, ReloadStep DEF PluginIInv
<1>6. Swapped(p) => {dir, kept} \subseteq Version \cup {Nil} /\ pluginFaults \in Nat
  BY <1>0 DEF PluginTypeOK
<1> QED
  BY <1>4, <1>5, <1>6 DEF Swapped, PluginFault, Load, FreshInstances

\* The roll back: nothing else has the plugin enabled or is about to.
LEMMA RolledBackStep ==
  ASSUME PluginIInv, NEW p \in Op, RolledBack(p)
  PROVE  PluginIInv'
<1>0. PluginTypeOK /\ ClaimInv
  BY DEF PluginIInv
<1>1. /\ op[p].pc = "back" /\ dir' = bak /\ bak' = Nil /\ raced' = raced
      /\ UNCHANGED <<kept, cut, chain, requests, events, pluginFaults>>
  BY DEF RolledBack, boundVars
<1>2. ASSUME ~raced'
      PROVE  /\ CalmInv /\ ~enabling
             /\ \A q \in Op \ {p} : op[q].pc \in {"idle", "go", "gone"}
             /\ slot = Nil \/ worker[slot] = "dead"
             /\ \A h \in Host : worker[h] # "dead" => \E q \in Op \ {p} : op[q].host = h
             /\ ~cut /\ bak # Nil /\ kept = bak
  <2>1. CalmInv
    BY <1>1, <1>2 DEF PluginIInv
  <2>2. ~enabling /\ (cur = Nil \/ status[cur] # "ENABLED") /\ \A q \in Op \ {p} : op[q].pc # "back"
    BY <1>1, <2>1 DEF CalmInv, BackInv
  <2>3. \A q \in Op \ {p} : op[q].pc \in {"idle", "go", "gone"}
    BY <1>0, <1>1, <2>1, <2>2, Standing DEF ClaimInv, CalmInv, NoneEnds
  <2>4. slot = Nil \/ worker[slot] = "dead"
    BY <1>1, <2>1, <2>2, <2>3 DEF CalmInv, SlotInv
  <2>5. op[p].host = Nil \/ worker[op[p].host] = "dead"
    BY <1>0, <1>1 DEF ClaimInv, WorkOK, Resumed
  <2>6. ~cut /\ bak # Nil /\ kept = bak
    BY <1>1, <2>1 DEF CalmInv, DiskInv, HalfWay, Updating
  <2> QED
    BY <2>1, <2>2, <2>3, <2>4, <2>5, <2>6 DEF CalmInv, Found
<1>3. CASE bak = Nil
  <2> USE DEF hostVars
  <2>0. cur' = Nil /\ Finish(p) /\ UNCHANGED <<status, ver, settings, enabling, hostVars, entry>>
    BY <1>3 DEF RolledBack
  <2>1. /\ op' \in [Op -> Work \cup {Idle}]
        /\ op'[p].pc = "idle" /\ op'[p].host = Nil /\ Others(p)
    BY <1>0, <2>0, FinishEffect DEF PluginTypeOK
  <2>2. PluginTypeOK'
    BY <1>0, <1>1, <2>0, <2>1 DEF PluginTypeOK
  <2>3. ClaimInv'
    BY <1>0, <1>1, <2>0, <2>1 DEF ClaimInv, WorkOK, Others, Enabling, Resumed
  <2>4. raced'
    BY <1>2, <1>3
  <2> QED
    BY <2>2, <2>3, <2>4 DEF PluginIInv
<1>4. CASE bak # Nil
  <2>1. \E i \in Instance : Load(i, bak) /\ Reenable(p, "restore", i)
    BY <1>4 DEF RolledBack, Load, FreshInstances
  <2>2. /\ bak \in Version /\ {bak', kept'} \subseteq Version \cup {Nil}
        /\ raced' \in BOOLEAN /\ cut' \in BOOLEAN
    BY <1>0, <1>1, <1>4 DEF PluginTypeOK
  <2> QED
    BY <1>0, <1>1, <1>2, <2>1, <2>2, ReloadStep DEF PluginIInv
<1> QED
  BY <1>3, <1>4

-----------------------------------------------------------------------------
(* The worker thread, the hooks and the restart.                           *)

\* registerHook touches neither requests nor the worker.
LEMMA SubscribeStep ==
  ASSUME PluginIInv, NEW h \in Host, Subscribe(h)
  PROVE  PluginIInv'
<1>1. PluginTypeOK'
  BY DEF PluginIInv, PluginTypeOK, Subscribe, memVars, diskVars, boundVars
<1> QED
  BY <1>1, SameWork DEF Subscribe, memVars, diskVars

\* A wedged worker still runs.
LEMMA WedgeStep ==
  ASSUME PluginIInv, NEW h \in Host, Wedge(h)
  PROVE  PluginIInv'
<1>1. /\ UNCHANGED <<cur, status, ver, settings, enabling, slot, owner, subs, hooks, entry, dir, bak, kept>>
      /\ UNCHANGED <<cut, op, chain, raced, requests, events>>
      /\ worker' = [worker EXCEPT ![h] = "wedged"] /\ worker[h] = "up" /\ pluginFaults' = pluginFaults + 1
  BY DEF Wedge, memVars, diskVars, PluginFault
<1>2. PluginTypeOK'
  BY <1>1 DEF PluginIInv, PluginTypeOK
<1>3. \A g \in Host : worker'[g] = "dead" <=> worker[g] = "dead"
  BY <1>1 DEF PluginIInv, PluginTypeOK
<1>4. \A q \in Op : op[q].host \in Host \cup {Nil}
  BY Standing DEF PluginIInv
<1>5. ClaimInv'
  BY <1>1, <1>3, <1>4 DEF PluginIInv, ClaimInv, WorkOK, Enabling
<1>6. ASSUME ~raced'
      PROVE  CalmInv'
  <2>1. CalmInv /\ slot \in Host \cup {Nil}
    BY <1>1, <1>6 DEF PluginIInv, PluginTypeOK
  <2>2. SlotInv' /\ Found'
    BY <1>1, <1>3, <2>1 DEF CalmInv, SlotInv, Found
  <2>3. DiskInv'
    BY <1>1, <2>1, DiskStays DEF CalmInv
  <2> QED
    BY <1>1, <2>1, <2>2, <2>3
    DEF CalmInv, UpInSlot, EndingInv, EnablingInv, NoneEnds, FailsAlone, BackInv, GoneInv
<1> QED
  BY <1>2, <1>5, <1>6 DEF PluginIInv

\* The exit of a worker: every request that waits for it goes on, the others stay.
LEMMA ExitEffect ==
  ASSUME PluginTypeOK, NEW h \in Host, Exit(h)
  PROVE  /\ op' \in [Op -> Work \cup {Idle}]
         /\ \A q \in Op : op[q].host # h => op'[q] = op[q]
         /\ \A q \in Op : op[q].host = h =>
               /\ op[q].pc # "idle"
               /\ op'[q].host = h /\ op'[q].inst = op[q].inst /\ op'[q].kind = op[q].kind
               /\ op'[q].file = op[q].file
               /\ op[q].pc \in {"up", "dropped"} => op'[q].pc = "fail"
               /\ Ending(op[q]) => op'[q].pc = "go"
<1>1. \A q \in Op : op'[q] = IF op[q].host = h THEN AfterExit(op[q]) ELSE op[q]
  BY DEF Exit
<1>2. ASSUME NEW q \in Op, op[q].host = h
      PROVE  /\ op[q].pc # "idle" /\ op'[q] \in Work
             /\ op'[q].host = h /\ op'[q].inst = op[q].inst /\ op'[q].kind = op[q].kind
             /\ op'[q].file = op[q].file
             /\ op[q].pc \in {"up", "dropped"} => op'[q].pc = "fail"
             /\ Ending(op[q]) => op'[q].pc = "go"
  <2>1. op[q].pc # "idle" /\ op[q] \in Work /\ op[q].pc \in PC
    BY <1>2, Standing, RequestFields DEF PluginTypeOK
  <2>2. PICK l : l = IF op[q].pc \in {"up", "dropped"} THEN "fail"
                     ELSE IF op[q].pc \in {"off", "term"} THEN "go" ELSE op[q].pc
    OBVIOUS
  <2>3. op'[q] = [op[q] EXCEPT !.pc = l]
    BY <1>1, <1>2, <2>2 DEF AfterExit
  <2>4. l \in PC
    BY <2>1, <2>2 DEF PC, Resumed
  <2>5. op'[q] \in Work
    BY <2>1, <2>3, <2>4 DEF Work
  <2> QED
    BY <1>2, <2>1, <2>2, <2>3, <2>5 DEF Work, Ending
<1>3. op' \in [Op -> Work \cup {Idle}]
  BY <1>1, <1>2 DEF Exit, PluginTypeOK
<1> QED
  BY <1>1, <1>2, <1>3

\* handleExit: what waits for the worker in the slot goes on together.
LEMMA ExitStep ==
  ASSUME PluginIInv, NEW h \in Host, Exit(h)
  PROVE  PluginIInv'
<1>0. PluginTypeOK /\ ClaimInv
  BY DEF PluginIInv
<1>1. /\ Settled /\ worker[h] # "dead" /\ worker' = [worker EXCEPT ![h] = "dead"]
      /\ slot' = IF \E p \in Op : op[p].host = h /\ op[p].pc = "up" THEN Nil ELSE slot
      /\ UNCHANGED <<cur, status, ver, settings, enabling, owner, subs, hooks, entry, dir, bak, kept>>
      /\ UNCHANGED <<cut, raced, requests, events>>
      /\ pluginFaults' \in Nat
  BY <1>0 DEF Exit, memVars, diskVars, PluginFault, PluginTypeOK
<1>2. /\ op' \in [Op -> Work \cup {Idle}]
      /\ \A q \in Op : op[q].host # h => op'[q] = op[q]
      /\ \A q \in Op : op[q].host = h =>
            /\ op[q].pc # "idle"
            /\ op'[q].host = h /\ op'[q].inst = op[q].inst /\ op'[q].kind = op[q].kind
            /\ op'[q].file = op[q].file
            /\ op[q].pc \in {"up", "dropped"} => op'[q].pc = "fail"
            /\ Ending(op[q]) => op'[q].pc = "go"
  BY <1>0, ExitEffect
<1>3. worker'[h] = "dead" /\ \A g \in Host \ {h} : worker'[g] = worker[g]
  BY <1>0, <1>1 DEF PluginTypeOK
<1>4. \A q \in Op : op[q].pc \in {"idle", "up", "dropped"} \/ Ending(op[q])
  BY <1>0, <1>1, Standing DEF Settled, Resumed, Enabling
<1>5. PluginTypeOK'
  <2>1. chain' = Nil \/ chain' \in [todo : SUBSET Host, at : Host \cup {Nil}]
    BY <1>0 DEF Exit, PluginTypeOK
  <2>2. worker' \in [Host -> {"up", "wedged", "dead"}] /\ slot' \in Host \cup {Nil}
    BY <1>0, <1>1 DEF PluginTypeOK
  <2> QED
    BY <1>0, <1>1, <1>2, <2>1, <2>2 DEF PluginTypeOK
<1>6. ClaimInv'
  <2>1. \A q \in Op : WorkOK(op[q])'
    BY <1>0, <1>2, <1>3, <1>4, Standing DEF ClaimInv, WorkOK, Resumed, Ending
  <2>2. \A q \in Op : Enabling(op'[q]) => Enabling(op[q])
    BY <1>2, <1>4 DEF Enabling, Ending
  <2> QED
    BY <1>0, <1>1, <2>1, <2>2 DEF ClaimInv, Enabling
<1>7. ASSUME ~raced'
      PROVE  CalmInv'
  <2>1. CalmInv
    BY <1>1, <1>7 DEF PluginIInv
  <2>2. \A q \in Op : /\ op'[q].pc = "fail" => op[q].pc \in {"up", "dropped"} /\ op'[q].inst = op[q].inst
                      /\ op'[q].pc = "go" => Ending(op[q]) /\ op[q].host = h
                      /\ op'[q].pc \in {"idle", "up", "dropped", "off", "term"} =>
                            op'[q] = op[q] /\ op[q].host # h
                      /\ op'[q].pc \in {"idle", "up", "dropped", "off", "term", "fail", "go"}
    BY <1>2, <1>4, <1>0, Standing DEF Ending
  <2>3. slot' = slot \/ (slot' = Nil /\ slot = h)
    BY <1>1, <2>1 DEF CalmInv, UpInSlot
  <2>4. UpInSlot' /\ EndingInv' /\ EnablingInv'
    BY <1>1, <2>1, <2>2, <2>3 DEF CalmInv, UpInSlot, EndingInv, EnablingInv, Ending, Enabling
  <2>5. NoneEnds'
    BY <2>1, <2>2 DEF CalmInv, EndingInv, NoneEnds, Ending
  <2>6. FailsAlone'
    <3> SUFFICES ASSUME NEW q \in Op, NEW p \in Op, op'[q].pc = "fail", op'[p].pc \in Resumed
                 PROVE  p = q
      BY DEF FailsAlone
    <3>1. Enabling(op[q]) /\ op'[p].pc \in {"fail", "go"}
      BY <2>2 DEF Enabling, Resumed
    <3>2. op'[p].pc = "fail"
      BY <1>0, <2>1, <2>2, <3>1, EnablingAlone
    <3> QED
      BY <1>0, <2>2, <3>1, <3>2 DEF ClaimInv, Enabling
  <2>7. BackInv' /\ GoneInv'
    BY <2>2 DEF BackInv, GoneInv
  <2>8. SlotInv'
    <3> SUFFICES ASSUME slot' # Nil, worker'[slot'] # "dead"
                 PROVE  \/ \E p \in Op : op'[p].pc = "up" /\ op'[p].host = slot'
                        \/ cur' # Nil /\ status'[cur'] = "ENABLED"
      BY DEF SlotInv
    <3>1. slot' = slot /\ slot # h /\ worker[slot] # "dead"
      BY <1>0, <1>3, <2>3 DEF PluginTypeOK
    <3> QED
      BY <1>1, <1>2, <2>1, <3>1 DEF CalmInv, SlotInv
  <2>9. Found'
    BY <1>2, <1>3, <2>1, <2>3 DEF CalmInv, Found
  <2>10. DiskInv'
    <3>1. \A q \in Op : Updating(op'[q]) <=> Updating(op[q])
      BY <1>2, <1>4 DEF Updating, Enabling, Ending
    <3>2. \A q \in Op : Enabling(op'[q]) => Enabling(op[q]) /\ op'[q].file = op[q].file
      BY <1>2, <1>4 DEF Enabling, Ending
    <3> QED
      BY <1>1, <2>1, <3>1, <3>2, DiskStays DEF CalmInv
  <2> QED
    BY <2>4, <2>5, <2>6, <2>7, <2>8, <2>9, <2>10 DEF CalmInv
<1> QED
  BY <1>5, <1>6, <1>7 DEF PluginIInv

\* HookManager.execute touches neither requests nor workers.
LEMMA ChainStep ==
  ASSUME PluginIInv, EventArrives \/ Chain
  PROVE  PluginIInv'
<1> USE DEF memVars, hostVars, diskVars, boundVars
<1>1. CASE EventArrives
  <2>1. PluginTypeOK'
    BY <1>1 DEF PluginIInv, PluginTypeOK, EventArrives
  <2> QED
    BY <1>1, <2>1, SameWork DEF EventArrives
<1>2. ASSUME NEW r \in Host, RunHandler(r)
      PROVE  PluginIInv'
  <2>1. PluginTypeOK'
    BY <1>2 DEF PluginIInv, PluginTypeOK, RunHandler
  <2> QED
    BY <1>2, <2>1, SameWork DEF RunHandler
<1>3. CASE HookResult
  <2>1. PluginTypeOK'
    BY <1>3 DEF PluginIInv, PluginTypeOK, HookResult
  <2> QED
    BY <1>3, <2>1, SameWork DEF HookResult
<1>4. CASE ChainDone
  <2>1. PluginTypeOK'
    BY <1>4 DEF PluginIInv, PluginTypeOK, ChainDone
  <2> QED
    BY <1>4, <2>1, SameWork DEF ChainDone
<1> QED
  BY <1>1, <1>2, <1>3, <1>4 DEF Chain

\* After a restart no request and no worker is left, and what is on disk is loaded.
LEMMA HostRestartStep ==
  ASSUME PluginIInv, HostRestart
  PROVE  PluginIInv'
<1>0. PluginTypeOK
  BY DEF PluginIInv
<1>1. /\ ~enabling' /\ enabling' \in BOOLEAN /\ slot' = Nil /\ hooks' = {} /\ subs' = {} /\ chain' = Nil
      /\ worker' = [h \in Host |-> "dead"] /\ owner' = [h \in Host |-> Nil] /\ op' = [p \in Op |-> Idle]
      /\ raced' = FALSE /\ UNCHANGED <<dir, bak, requests, events>> /\ pluginFaults' = pluginFaults + 1
      /\ kept' = dir
  BY DEF HostRestart, PluginFault
<1>2. /\ \A p \in Op : op'[p].pc = "idle" /\ op'[p].host = Nil
      /\ \A h \in Host : worker'[h] = "dead"
  BY <1>1 DEF Idle
<1>3. PICK v \in Version \cup {Nil} : v = IF dir # Nil THEN dir ELSE bak
  BY <1>0 DEF PluginTypeOK
<1>4. /\ cur' \in Instance \cup {Nil} /\ status' \in [Instance -> PluginStatus]
      /\ ver' \in [Instance -> Version \cup {Nil}] /\ settings' \in [Instance -> {"default", "nowhere"}]
      /\ entry' \in {"default", "nowhere", Nil}
      /\ cur' = Nil <=> v = Nil
      /\ cur' # Nil => ver'[cur'] = v
  <2>1. CASE v = Nil
    BY <1>0, <1>3, <2>1 DEF HostRestart, PluginTypeOK
  <2>2. CASE v # Nil
    <3>1. Load(NewInstance, v)
      BY <1>3, <2>2 DEF HostRestart
    <3> QED
      BY <1>0, <2>2, <3>1 DEF Load, FreshInstances, PluginTypeOK, PluginStatus, Stored
  <2> QED
    BY <2>1, <2>2
<1>5. PluginTypeOK'
  <2>1. op' \in [Op -> Work \cup {Idle}]
    BY <1>1
  <2>2. /\ worker' \in [Host -> {"up", "wedged", "dead"}] /\ owner' \in [Host -> Instance \cup {Nil}]
        /\ slot' \in Host \cup {Nil} /\ subs' \subseteq Host /\ hooks' \subseteq subs'
    BY <1>1
  <2>3. raced' \in BOOLEAN /\ cut' \in BOOLEAN
    BY <1>1, Zenon DEF HostRestart
  <2>4. {requests', events', pluginFaults'} \subseteq Nat
    BY <1>0, <1>1 DEF PluginTypeOK
  <2> QED
    BY <1>0, <1>1, <1>4, <2>1, <2>2, <2>3, <2>4 DEF PluginTypeOK
<1>6. ClaimInv'
  BY <1>2 DEF ClaimInv, WorkOK, Enabling, Resumed
<1>7. CalmInv'
  <2>1. DiskInv'
    <3>1. ~cut' => bak' = Nil
      BY <1>1, Zenon DEF HostRestart
    <3>2. AtRest'
      BY <1>1, <1>3, <1>4, <3>1 DEF AtRest
    <3>3. \A p \in Op : ~Updating(op'[p])
      BY <1>2 DEF Updating, Enabling
    <3> QED
      BY <3>2, <3>3 DEF DiskInv, HalfWay
  <2> QED
    BY <1>1, <1>2, <2>1
    DEF CalmInv, UpInSlot, EndingInv, EnablingInv, NoneEnds, FailsAlone, BackInv, GoneInv, SlotInv, Found,
        Ending, Enabling, Resumed
<1> QED
  BY <1>5, <1>6, <1>7 DEF PluginIInv

-----------------------------------------------------------------------------
(* What holds of the plugin host.                                          *)

\* The invariant holds in every state of the plugin host.
THEOREM PluginInductive == PluginSpec => []PluginIInv
<1>1. PluginInit => PluginIInv
  <2> SUFFICES ASSUME PluginInit
               PROVE  PluginIInv
    OBVIOUS
  <2> USE DEF PluginInit
  <2>1. PluginTypeOK
    <3>1. op \in [Op -> Work \cup {Idle}]
      OBVIOUS
    <3>2. /\ worker \in [Host -> {"up", "wedged", "dead"}] /\ owner \in [Host -> Instance \cup {Nil}]
          /\ status \in [Instance -> PluginStatus] /\ ver \in [Instance -> Version \cup {Nil}]
          /\ settings \in [Instance -> {"default", "nowhere"}]
      BY DEF PluginStatus
    <3>3. raced \in BOOLEAN /\ enabling \in BOOLEAN /\ cut \in BOOLEAN
      BY Zenon
    <3> QED
      BY <3>1, <3>2, <3>3 DEF PluginTypeOK
  <2>2. \A p \in Op : op[p].pc = "idle" /\ op[p].host = Nil
    BY DEF Idle
  <2>3. ClaimInv
    BY <2>2 DEF ClaimInv, WorkOK, Enabling, Resumed
  <2>4. CalmInv
    BY <2>2
    DEF CalmInv, UpInSlot, EndingInv, EnablingInv, NoneEnds, FailsAlone, BackInv, GoneInv, SlotInv, Found,
        DiskInv, HalfWay, AtRest, Updating, Ending, Enabling, Resumed
  <2> QED
    BY <2>1, <2>3, <2>4 DEF PluginIInv
<1>2. PluginIInv /\ [PluginNext]_pluginVars => PluginIInv'
  <2> SUFFICES ASSUME PluginIInv, [PluginNext]_pluginVars
               PROVE  PluginIInv'
    OBVIOUS
  <2>1. ASSUME NEW p \in Op, NEW v \in Version, Install(p, v)
        PROVE  PluginIInv'
    BY <2>1, InstallStep
  <2>2. ASSUME NEW p \in Op, Enable(p)
        PROVE  PluginIInv'
    BY <2>2, EnableStep
  <2>3. ASSUME NEW p \in Op, Disable(p)
        PROVE  PluginIInv'
    BY <2>3, DisableStep
  <2>4. ASSUME NEW p \in Op, Uninstall(p)
        PROVE  PluginIInv'
    BY <2>4, UnloadStep DEF Uninstall
  <2>5. ASSUME NEW p \in Op, Update(p)
        PROVE  PluginIInv'
    BY <2>5, UnloadStep DEF Update
  <2>6. ASSUME NEW p \in Op, Turn(p)
        PROVE  PluginIInv'
    BY <2>6, EnableDoneStep, BringUpFailsStep, EnableFailsStep, LifecycleOverStep, DisableEndsStep,
       UninstalledStep, SwappedStep, RolledBackStep
    DEF Turn
  <2>7. ASSUME NEW s \in {"default", "nowhere"}, UpdateSettings(s)
        PROVE  PluginIInv'
    BY <2>7, SettingsStep
  <2>8. ASSUME NEW h \in Host, Subscribe(h) \/ Wedge(h) \/ Exit(h)
        PROVE  PluginIInv'
    BY <2>8, SubscribeStep, WedgeStep, ExitStep
  <2>9. CASE EventArrives \/ Chain
    BY <2>9, ChainStep
  <2>10. CASE HostRestart
    BY <2>10, HostRestartStep
  <2>11. CASE UNCHANGED pluginVars
    <3> USE DEF pluginVars, memVars, hostVars, diskVars, boundVars
    <3>1. PluginTypeOK'
      BY <2>11 DEF PluginIInv, PluginTypeOK
    <3> QED
      BY <2>11, <3>1, SameWork
  <2> QED
    BY <2>1, <2>2, <2>3, <2>4, <2>5, <2>6, <2>7, <2>8, <2>9, <2>10, <2>11 DEF PluginNext
<1> QED
  BY <1>1, <1>2, PTL DEF PluginSpec

\* Every variable has its type, a request its instance and its package.
THEOREM PluginTypes == PluginSpec => []PluginTypeOK
<1>1. PluginIInv => PluginTypeOK
  BY DEF PluginIInv
<1> QED
  BY <1>1, PluginInductive, PTL

\* For any number of requests at once, of faults and of restarts: a worker thread
\* that runs is in the slot, where disablePlugin finds it, or a request still
\* holds it.
THEOREM NoWorkerIsForgotten == PluginSpec => []NoWorkerIsLost
<1>1. PluginIInv => NoWorkerIsLost
  BY DEF PluginIInv, CalmInv, Found, NoWorkerIsLost
<1> QED
  BY <1>1, PluginInductive, PTL

\* updatePackage is all or nothing, whatever fails in it and in its roll back and
\* whatever workers do: between requests the version of the last install or update
\* that succeeded is on disk and loaded, and no backup is left.  Taken out are a
\* plugin taken away from an operation still at work on it (raced) and the backup
\* that a restart in an update leaves.
THEOREM ManifestIsOnDisk == PluginSpec => []LoadedIsOnDisk
<1>1. PluginIInv => LoadedIsOnDisk
  <2> SUFFICES ASSUME PluginIInv, Quiet, ~raced
               PROVE  AtRest
    BY DEF LoadedIsOnDisk, AtRest
  <2>1. \A p \in Op : ~Updating(op[p])
    BY DEF Quiet, Idle, Updating, Enabling
  <2> QED
    BY <2>1 DEF PluginIInv, CalmInv, DiskInv
<1> QED
  BY <1>1, PluginInductive, PTL
=============================================================================
