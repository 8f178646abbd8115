------------------------------ MODULE TraceLedger ------------------------------
(***************************************************************************)
(* The loss ledger of runtime_hooks.JsonlTraceSink: producer threads       *)
(* append event, edge and KV-recovery profile records to one bounded       *)
(* in-memory queue, a writer thread drains it to one append-only shard per *)
(* stream, and close() stops both within a deadline.  Every record that a  *)
(* producer attempted has to end up written or accounted as dropped, and   *)
(* the process_summary the writer appends has to say so truthfully.        *)
(*                                                                         *)
(* A critical section of `self._condition` is one action.  A record is its *)
(* stream, its sequence numbers and the capacity class it is charged to;   *)
(* payloads, timestamps, per-category counters and diagnostics are left    *)
(* out.  MAX_QUEUED_BYTES equals (4096 + 64) records of the maximal size,  *)
(* so the byte bound never refuses what the two record bounds admit.       *)
(* `_inflight_batch` is always the head of what is queued in order, so the *)
(* model keeps one sequence `pending` (= _inflight_batch \o _queue) and    *)
(* the length `inflight` of the part the writer has taken.                 *)
(***************************************************************************)
EXTENDS Integers, Sequences, FiniteSets

CONSTANTS
  Streams,          \* {"base"}, or {"base", "profile"} with the KV profile on
  DataCapacity,     \* DATA_CAPACITY_RECORDS, per stream
  ReservedCapacity, \* RESERVED_CAPACITY_RECORDS, per stream
  MaxBatch,         \* MAX_BATCH_RECORDS
  MaxSeq            \* bound: records attempted on each stream

ASSUME StreamsAssumption == "base" \in Streams /\ Streams \subseteq {"base", "profile"}
ASSUME CapacityAssumption == /\ DataCapacity \in Nat \ {0}
                             /\ ReservedCapacity \in Nat \ {0}
                             /\ MaxBatch \in Nat \ {0}
                             /\ MaxSeq \in [Streams -> Nat]

VARIABLES
  closing, closed,   \* _closing, _closed
  deadlinePassed,    \* monotonic time has reached _close_deadline_ns
  abandoned,         \* _abandoned: a closer gave up on the writer
  writerFailed,      \* _writer_failed
  failures,          \* _writer_failure_count
  outcome,           \* _writer_outcome
  summaryWritten,    \* _summary_written
  claim,             \* _completion_claim: the one CloseResult
  pending,           \* _inflight_batch \o _queue
  inflight,          \* Len(_inflight_batch)
  ordinaryQueued,    \* _ordinary_queued, per stream
  reservedQueued,    \* _reserved_queued, per stream
  timeoutControls,   \* loss controls _prepare_timeout_controls_locked holds
  attempted,         \* _attempted_data_count = _next_record_seq
  written,           \* _written_event_count + _written_edge_count (or the 4 profile ones)
  writtenLoss,       \* _written_loss_interval_count
  dropped,           \* _dropped_data_count
  droppedControl,    \* _dropped_control_count
  openLoss,          \* _open_loss
  nextLoss,          \* _next_loss_interval_seq
  file,              \* the complete lines of the shard between start and summary
  hashed,            \* what _content_hash has digested after process_start
  summaries,         \* the summary lines at the end of the shard
  torn,              \* a failed write may have left a partial line
  pc,                \* where the writer thread is
  current            \* the writer's local `queued`

producerVars == <<attempted, openLoss, nextLoss>>
queueVars == <<pending, inflight, ordinaryQueued, reservedQueued, timeoutControls>>
countVars == <<written, writtenLoss, dropped, droppedControl>>
shardVars == <<file, hashed, summaries, torn>>
flagVars == <<closing, closed, deadlinePassed, abandoned, writerFailed, failures>>
resultVars == <<outcome, summaryWritten, claim>>
vars == <<flagVars, resultVars, queueVars, producerVars, countVars, shardVars,
          pc, current>>

--------------------------------------------------------------------------------
(* Records, losses and receipts *)

DropReasons == {"serialization_failure", "queue_overflow", "writer_failure"}

\* One _QueuedRecord: a data record covers its own sequence number, a
\* loss_interval the numbers first .. last dropped for one reason.
Record == [stream : Streams, kind : {"data", "loss"}, reserved : BOOLEAN,
           reason : DropReasons \cup {"none"}, first : Nat, last : Nat]

NoLoss == [reason |-> "none", first |-> 0, last |-> 0]

NoRecord == [stream |-> "base", kind |-> "none", reserved |-> FALSE,
             reason |-> "none", first |-> 0, last |-> 0]

NoClaim == [outcome |-> "none"]

DataRecord(s, seq, reserved) ==
  [stream |-> s, kind |-> "data", reserved |-> reserved, reason |-> "none",
   first |-> seq, last |-> seq]

LossRecord(s) ==
  [stream |-> s, kind |-> "loss", reserved |-> TRUE, reason |-> openLoss[s].reason,
   first |-> openLoss[s].first, last |-> openLoss[s].last]

DataOf(s) == {r \in Record : r.stream = s /\ r.kind = "data"}
LossOf(s) == {r \in Record : r.stream = s /\ r.kind = "loss"}
OrdinaryOf(s) == {r \in Record : r.stream = s /\ ~r.reserved}
ReservedOf(s) == {r \in Record : r.stream = s /\ r.reserved}

\* How many entries of the queue q are records of the set R.
At(q, R) == {i \in 1..Len(q) : q[i] \in R}
HowMany(q, R) == Cardinality(At(q, R))

\* A mistaken variant: the result is made before the queue is accounted.
ReceiptUnaccounted(result, summary, exact, drops) ==
  [outcome |-> result, summary |-> summary, exact |-> exact,
   attempted |-> attempted, written |-> written, dropped |-> dropped]

\* CloseResult: the counters as _result() reads them.  exact is TRUE for a
\* result built under the condition, FALSE for the lock-free timeout.
Receipt(result, summary, exact, drops) ==
  [outcome |-> result, summary |-> summary, exact |-> exact,
   attempted |-> attempted, written |-> written, dropped |-> drops]

--------------------------------------------------------------------------------
(* Producers *)

\* A mistaken variant: a sink that its writer has closed still takes records.
AcceptingUntilClosing == ~closing

Accepting == ~closing /\ ~closed

\* A mistaken variant: a failed writer does not stop producers from queueing.
CanEnqueueAfterFailure(s, reserved) ==
  /\ Accepting
  /\ IF reserved THEN reservedQueued[s] < ReservedCapacity
                 ELSE ordinaryQueued[s] < DataCapacity

CanEnqueue(s, reserved) ==
  /\ ~writerFailed /\ Accepting
  /\ IF reserved THEN reservedQueued[s] < ReservedCapacity
                 ELSE ordinaryQueued[s] < DataCapacity

\* Building the loss record of the base stream can raise (its timestamps are
\* inverted when the clock and its fallback disagree); built says it did not.
SealFits(s, built) ==
  /\ s \in Streams
  /\ openLoss[s] # NoLoss
  /\ built \/ s # "base"
  /\ CanEnqueue(s, TRUE)

\* A mistaken variant: the sealed loss of the profile stream is never queued.
SealIntoBase(q, s, built) ==
  IF s = "base" /\ SealFits(s, built) THEN Append(q, LossRecord(s)) ELSE q

SealInto(q, s, built) == IF SealFits(s, built) THEN Append(q, LossRecord(s)) ELSE q

\* A mistaken variant: a sealed loss is queued without being charged to the reserve.
ReservedNotCharged(s, built) == reservedQueued[s]

ReservedAfterSeal(s, built) ==
  reservedQueued[s] + (IF SealFits(s, built) THEN 1 ELSE 0)

\* A mistaken variant: a loss record that does not fit disappears.
SealedLossVanishes(s, built) == droppedControl[s]

SealedControlDrops(s, built) ==
  droppedControl[s] + (IF openLoss[s] # NoLoss /\ ~SealFits(s, built) THEN 1 ELSE 0)

NextLossAfterSeal(s) == nextLoss[s] + (IF openLoss[s] # NoLoss THEN 1 ELSE 0)

\* _seal_loss_locked of stream s: the interval number is used up, and a record
\* that cannot be built or queued is a dropped control.
SealLoss(s, built) ==
  /\ nextLoss' = [nextLoss EXCEPT ![s] = NextLossAfterSeal(s)]
  /\ droppedControl' = [droppedControl EXCEPT ![s] = SealedControlDrops(s, built)]

\* _note_drop_locked when the open interval is of another reason or not
\* adjacent: seal it and open a new one.
OpenNewLoss(s, reason, built) ==
  /\ SealLoss(s, built)
  /\ pending' = SealInto(pending, s, built)
  /\ reservedQueued' = [reservedQueued EXCEPT ![s] = ReservedAfterSeal(s, built)]
  /\ openLoss' = [openLoss EXCEPT ![s] =
                    [reason |-> reason, first |-> attempted[s], last |-> attempted[s]]]
  /\ dropped' = [dropped EXCEPT ![s] = @ + 1]
  /\ UNCHANGED ordinaryQueued

ExtendsOpenLoss(s, reason) ==
  openLoss[s].reason = reason /\ attempted[s] = openLoss[s].last + 1

NoteDrop(s, reason, built) ==
  \/ /\ ExtendsOpenLoss(s, reason)
     /\ openLoss' = [openLoss EXCEPT ![s] =
                       [reason |-> reason, first |-> openLoss[s].first, last |-> attempted[s]]]
     /\ dropped' = [dropped EXCEPT ![s] = @ + 1]
     /\ UNCHANGED <<nextLoss, droppedControl, pending, ordinaryQueued, reservedQueued>>
  \/ /\ ~ExtendsOpenLoss(s, reason)
     /\ OpenNewLoss(s, reason, built)

\* A mistaken variant: the record is queued ahead of the loss that precedes it.
QueuedAheadOfLoss(s, terminal, built) ==
  SealInto(Append(pending, DataRecord(s, attempted[s], terminal)), s, built)

QueuedAfterLoss(s, terminal, built) ==
  Append(SealInto(pending, s, built), DataRecord(s, attempted[s], terminal))

\* The record fits, so the open loss is sealed ahead of it.  The seal may
\* take the last reserved slot from a terminal event, which is then dropped.
AcceptRecord(s, terminal, built) ==
  \/ /\ terminal /\ ReservedAfterSeal(s, built) = ReservedCapacity
     /\ OpenNewLoss(s, "queue_overflow", built)
  \/ /\ terminal => ReservedAfterSeal(s, built) < ReservedCapacity
     /\ SealLoss(s, built)
     /\ pending' = QueuedAfterLoss(s, terminal, built)
     /\ reservedQueued' = [reservedQueued EXCEPT ![s] =
                             ReservedAfterSeal(s, built) + (IF terminal THEN 1 ELSE 0)]
     /\ ordinaryQueued' = [ordinaryQueued EXCEPT ![s] = @ + (IF terminal THEN 0 ELSE 1)]
     /\ openLoss' = [openLoss EXCEPT ![s] = NoLoss]
     /\ UNCHANGED dropped

\* write_event, write_edge, write_kv_recovery_profile.  A terminal event, only
\* on the base stream, is charged to the reserved capacity.  The clock or the
\* serialization may fail in every call.
WriteRecord(s, terminal, built) ==
  /\ Accepting
  /\ terminal => s = "base"
  /\ attempted[s] < MaxSeq[s]
  /\ attempted' = [attempted EXCEPT ![s] = @ + 1]
  /\ \/ NoteDrop(s, "serialization_failure", built)
     \/ writerFailed /\ NoteDrop(s, "writer_failure", built)
     \/ /\ ~writerFailed /\ ~CanEnqueue(s, terminal)
        /\ NoteDrop(s, "queue_overflow", built)
     \/ ~writerFailed /\ CanEnqueue(s, terminal) /\ AcceptRecord(s, terminal, built)
  /\ UNCHANGED <<flagVars, resultVars, inflight, timeoutControls, written, writtenLoss,
                 shardVars, pc, current>>

\* drop_kv_recovery_profile: the caller already knows that its record is lost,
\* and for which reason.
DropProfileRecord(reason) ==
  /\ "profile" \in Streams
  /\ Accepting
  /\ attempted["profile"] < MaxSeq["profile"]
  /\ attempted' = [attempted EXCEPT !["profile"] = @ + 1]
  /\ NoteDrop("profile", reason, TRUE)
  /\ UNCHANGED <<flagVars, resultVars, inflight, timeoutControls, written, writtenLoss,
                 shardVars, pc, current>>

--------------------------------------------------------------------------------
(* The writer thread: batches *)

\* _close_cutoff_reached_locked
Cutoff == closing /\ deadlinePassed /\ pending # <<>>

\* A mistaken variant: the batch the writer has taken is forgotten.
DropsWithoutBatch ==
  [s \in Streams |-> dropped[s]
                       + HowMany(SubSeq(pending, inflight + 1, Len(pending)), DataOf(s))]

\* _account_unwritten_queued_locked for everything that is queued, and the
\* queue emptied: data becomes dropped data, loss controls dropped controls.
DropsWithQueue == [s \in Streams |-> dropped[s] + HowMany(pending, DataOf(s))]

DiscardQueue ==
  /\ dropped' = DropsWithQueue
  /\ droppedControl' = [s \in Streams |-> droppedControl[s]
                          + HowMany(pending, LossOf(s)) + timeoutControls[s]]
  /\ pending' = <<>>
  /\ inflight' = 0
  /\ ordinaryQueued' = [s \in Streams |-> 0]
  /\ reservedQueued' = [s \in Streams |-> 0]
  /\ timeoutControls' = [s \in Streams |-> 0]

\* _mark_writer_failure_locked
MarkWriterFailure ==
  /\ DiscardQueue
  /\ writerFailed' = TRUE
  /\ failures' = failures + 1

\* _take_batch_locked: the byte limit may cut the batch after any record.
TakeBatch ==
  /\ pc = "loop" /\ ~abandoned /\ pending # <<>> /\ ~Cutoff
  /\ \E n \in 1..MaxBatch :
       /\ n <= Len(pending)
       /\ inflight' = n
  /\ pc' = "batch"
  /\ UNCHANGED <<flagVars, resultVars, pending, ordinaryQueued, reservedQueued,
                 timeoutControls, producerVars, countVars, shardVars, current>>

\* A mistaken variant: the batch is written from its end.
LastOfBatch == pending[inflight]

NextOfBatch == Head(pending)

\* The check before each record of the batch passes.
BeginWrite ==
  /\ pc = "batch" /\ ~abandoned /\ ~Cutoff
  /\ current' = NextOfBatch
  /\ pc' = "writing"
  /\ UNCHANGED <<flagVars, resultVars, queueVars, producerVars, countVars, shardVars>>

\* _write_queued_all: it looks at _abandoned once more, and writes without the
\* condition.  A closer may give up in between, so the bytes of a record that is
\* already accounted as dropped still reach the shard.
WriteBytes ==
  /\ pc = "writing"
  /\ file' = [file EXCEPT ![current.stream] = Append(@, current)]
  /\ pc' = "wrote"
  /\ UNCHANGED <<flagVars, resultVars, queueVars, producerVars, countVars,
                 hashed, summaries, torn, current>>

\* _write_queued_all raises: abandoned, or an I/O error that may leave part of
\* the line in the shard.
WriteFails ==
  /\ pc = "writing"
  /\ MarkWriterFailure
  /\ torn' \in {torn, [torn EXCEPT ![current.stream] = TRUE]}
  /\ pc' = "finalize"
  /\ current' = NoRecord
  /\ UNCHANGED <<closing, closed, deadlinePassed, abandoned, resultVars, producerVars,
                 written, writtenLoss, file, hashed, summaries>>

\* A mistaken variant: loss records are left out of the digest.
DigestOfData(s) == IF current.kind = "data" THEN Append(hashed[s], current) ELSE hashed[s]

DigestAfter(s) == Append(hashed[s], current)

\* _record_written: after an abandonment nothing is recorded.
RecordWritten ==
  /\ pc = "wrote" /\ ~abandoned
  /\ LET s == current.stream IN
       /\ pending' = Tail(pending)
       /\ inflight' = inflight - 1
       /\ ordinaryQueued' = [ordinaryQueued EXCEPT ![s] = @ - (IF current.reserved THEN 0 ELSE 1)]
       /\ reservedQueued' = [reservedQueued EXCEPT ![s] = @ - (IF current.reserved THEN 1 ELSE 0)]
       /\ hashed' = [hashed EXCEPT ![s] = DigestAfter(s)]
       /\ written' = [written EXCEPT ![s] = @ + (IF current.kind = "data" THEN 1 ELSE 0)]
       /\ writtenLoss' = [writtenLoss EXCEPT ![s] = @ + (IF current.kind = "loss" THEN 1 ELSE 0)]
  /\ pc' = IF inflight = 1 THEN "loop" ELSE "batch"
  /\ current' = NoRecord
  /\ UNCHANGED <<flagVars, resultVars, timeoutControls, producerVars, dropped,
                 droppedControl, file, summaries, torn>>

\* The loop, the batch and _record_written each return once abandoned.
WriterAbandons ==
  /\ pc \in {"loop", "batch", "wrote"} /\ abandoned
  /\ pc' = "finalize"
  /\ current' = NoRecord
  /\ UNCHANGED <<flagVars, resultVars, queueVars, producerVars, countVars, shardVars>>

CutoffReached ==
  /\ pc \in {"loop", "batch"} /\ ~abandoned /\ Cutoff
  /\ pc' = "timeout"
  /\ UNCHANGED <<flagVars, resultVars, queueVars, producerVars, countVars, shardVars, current>>

\* The runs of adjacent sequence numbers among the pending data of a stream.
PendingSeqs(s) == {pending[i].first : i \in At(pending, DataOf(s))}
PendingRuns(s) == Cardinality({n \in PendingSeqs(s) : n - 1 \notin PendingSeqs(s)})

\* _prepare_timeout_controls_locked: pending data is dropped, one close_timeout
\* interval per run, and at most ReservedCapacity controls are kept to write.
TimeoutControls(s) == HowMany(pending, LossOf(s)) + PendingRuns(s)
Admitted(n) == IF n <= ReservedCapacity THEN n ELSE ReservedCapacity

PrepareTimeoutControls ==
  /\ pc = "timeout"
  /\ timeoutControls' = [s \in Streams |-> Admitted(TimeoutControls(s))]
  /\ reservedQueued' = [s \in Streams |-> Admitted(TimeoutControls(s))]
  /\ droppedControl' = [s \in Streams |-> droppedControl[s] + TimeoutControls(s)
                                            - Admitted(TimeoutControls(s))]
  /\ dropped' = DropsWithQueue
  /\ nextLoss' = [s \in Streams |-> nextLoss[s] + PendingRuns(s)]
  /\ pending' = <<>>
  /\ inflight' = 0
  /\ ordinaryQueued' = [s \in Streams |-> 0]
  /\ outcome' = "timeout"
  /\ pc' = "controls"
  /\ UNCHANGED <<flagVars, summaryWritten, claim, attempted, openLoss, written, writtenLoss,
                 shardVars, current>>

\* _finish_timeout_in_writer reads the clock before each control, and the
\* deadline has already passed: the controls are counted as dropped.
DropTimeoutControls ==
  /\ pc = "controls" /\ deadlinePassed
  /\ droppedControl' = [s \in Streams |-> droppedControl[s] + timeoutControls[s]]
  /\ timeoutControls' = [s \in Streams |-> 0]
  /\ reservedQueued' = [s \in Streams |-> 0]
  /\ outcome' = "timeout"
  /\ pc' = "finalize"
  /\ UNCHANGED <<flagVars, summaryWritten, claim, pending, inflight, ordinaryQueued,
                 producerVars, written, writtenLoss, dropped, shardVars, current>>

--------------------------------------------------------------------------------
(* The writer thread: summary and publication *)

CountsReconcile == \A s \in Streams : attempted[s] = written[s] + dropped[s]

\* The queue is drained while closing.
StartDrain ==
  /\ pc = "loop" /\ ~abandoned /\ closing /\ pending = <<>>
  /\ pc' = "drain"
  /\ UNCHANGED <<flagVars, resultVars, queueVars, producerVars, countVars, shardVars, current>>

\* _finish_drained_in_writer up to the summary: the deadline is checked, and
\* the shards are moved to their incomplete names, which may fail.
FinishDrained ==
  /\ pc = "drain"
  /\ \/ /\ CountsReconcile /\ deadlinePassed
        /\ outcome' = "timeout"
        /\ pc' = "finalize"
        /\ UNCHANGED <<writerFailed, failures, queueVars, dropped, droppedControl>>
     \/ /\ CountsReconcile /\ ~deadlinePassed
        /\ pc' = "summary"
        /\ UNCHANGED <<outcome, writerFailed, failures, queueVars, dropped, droppedControl>>
     \/ /\ CountsReconcile => ~deadlinePassed
        /\ MarkWriterFailure
        /\ pc' = "finalize"
        /\ UNCHANGED outcome
  /\ UNCHANGED <<closing, closed, deadlinePassed, abandoned, summaryWritten, claim,
                 producerVars, written, writtenLoss, shardVars, current>>

Summary(s, result) ==
  [outcome |-> result, attempted |-> attempted[s], written |-> written[s],
   writtenLoss |-> writtenLoss[s], dropped |-> dropped[s],
   droppedControl |-> droppedControl[s], failures |-> failures, sha |-> hashed[s]]

\* The summaries are written base first.
NextSummary(s) ==
  /\ summaries[s] = <<>>
  /\ s = "profile" => summaries["base"] # <<>>

\* The write of a summary looks at _abandoned first, then writes without the
\* condition.
BeginSummary ==
  /\ pc = "summary" /\ ~abandoned
  /\ pc' = "summarizing"
  /\ UNCHANGED <<flagVars, resultVars, queueVars, producerVars, countVars, shardVars, current>>

WriteSummary(s) ==
  /\ pc = "summarizing" /\ NextSummary(s)
  /\ summaries' = [summaries EXCEPT ![s] = Append(@, Summary(s, "drained"))]
  /\ pc' = "checkSummary"
  /\ UNCHANGED <<flagVars, resultVars, queueVars, producerVars, countVars,
                 file, hashed, torn, current>>

\* The write raises: the lost summary is a dropped control.  The queue is empty,
\* so _mark_writer_failure has nothing to account.
SummaryFails(s) ==
  /\ NextSummary(s)
  /\ droppedControl' = [droppedControl EXCEPT ![s] = @ + 1]
  /\ writerFailed' = TRUE
  /\ failures' = failures + 1
  /\ \/ pc = "summary" /\ abandoned /\ UNCHANGED torn
     \/ pc = "summarizing" /\ torn' \in {torn, [torn EXCEPT ![s] = TRUE]}
  /\ pc' = "finalize"
  /\ UNCHANGED <<closing, closed, deadlinePassed, abandoned, resultVars, queueVars,
                 producerVars, written, writtenLoss, dropped, file, hashed, summaries, current>>

\* _append_timeout_invalidation_in_writer: a timeout summary after the drained
\* one, on each stream whose write succeeds.
Invalidate ==
  \E ok \in SUBSET Streams :
    /\ summaries' = [s \in Streams |-> IF s \in ok
                       THEN Append(summaries[s], Summary(s, "timeout")) ELSE summaries[s]]
    /\ droppedControl' = [s \in Streams |->
                            droppedControl[s] + (IF s \in ok THEN 0 ELSE 1)]

\* A mistaken variant: one summary completes the pair.
SomeSummarized == \E s \in Streams : summaries[s] # <<>>

AllSummarized == \A s \in Streams : summaries[s] # <<>>

\* The clock is read after each summary.
CheckSummary ==
  /\ pc = "checkSummary"
  /\ \/ /\ deadlinePassed
        /\ Invalidate
        /\ outcome' = "timeout"
        /\ pc' = "finalize"
        /\ UNCHANGED summaryWritten
     \/ /\ ~deadlinePassed /\ ~AllSummarized
        /\ pc' = "summary"
        /\ UNCHANGED <<summaries, droppedControl, outcome, summaryWritten>>
     \/ /\ ~deadlinePassed /\ AllSummarized
        /\ summaryWritten' = TRUE
        /\ outcome' = "drained"
        /\ pc' = "finalize"
        /\ UNCHANGED <<summaries, droppedControl>>
  /\ UNCHANGED <<flagVars, claim, queueVars, producerVars, written, writtenLoss, dropped,
                 file, hashed, torn, current>>

\* _finalize_writer_in_writer: a summary that an abandoned writer completed is
\* invalidated.
FinalizeSummary ==
  /\ pc = "finalize"
  /\ \/ /\ abandoned /\ summaryWritten
        /\ Invalidate
        /\ summaryWritten' = FALSE
        /\ outcome' = "timeout"
     \/ /\ ~(abandoned /\ summaryWritten)
        /\ UNCHANGED <<summaries, droppedControl, summaryWritten, outcome>>
  /\ pc' = "publish"
  /\ UNCHANGED <<flagVars, claim, queueVars, producerVars, written, writtenLoss, dropped,
                 file, hashed, torn, current>>

Eligible ==
  /\ summaryWritten /\ outcome = "drained"
  /\ ~writerFailed /\ ~abandoned /\ ~deadlinePassed

\* _publish_completed_shard_in_writer: the shards take their formal names.
Publish ==
  /\ pc = "publish" /\ Eligible
  /\ pc' = "published"
  /\ UNCHANGED <<flagVars, resultVars, queueVars, producerVars, countVars, shardVars, current>>

\* The final claim of _writer_main, unless somebody claimed before.
FinalOutcome == IF outcome # "none" THEN outcome
                ELSE IF writerFailed THEN "writer_failure" ELSE "drained"

FinalClaim(result, summary, drops) ==
  claim' = IF claim = NoClaim /\ closing THEN Receipt(result, summary, TRUE, drops)
                                         ELSE claim

\* The single-winner claim is what commits the published shards.
Commit ==
  /\ pc = "published" /\ ~abandoned /\ ~deadlinePassed /\ claim = NoClaim
  /\ claim' = Receipt("drained", TRUE, TRUE, dropped)
  /\ closed' = TRUE
  /\ pc' = "done"
  /\ UNCHANGED <<closing, deadlinePassed, abandoned, writerFailed, failures, outcome,
                 summaryWritten, queueVars, producerVars, countVars, shardVars, current>>

\* The publication expired: it is retracted.
Retract ==
  /\ pc = "published" /\ (abandoned \/ deadlinePassed)
  /\ summaryWritten' = FALSE
  /\ outcome' = "timeout"
  /\ FinalClaim("timeout", FALSE, dropped)
  /\ closed' = TRUE
  /\ pc' = "done"
  /\ UNCHANGED <<closing, deadlinePassed, abandoned, writerFailed, failures,
                 queueVars, producerVars, countVars, shardVars, current>>

\* Nothing is published.
Withhold ==
  /\ pc = "publish" /\ ~Eligible
  /\ FinalClaim(FinalOutcome, summaryWritten, dropped)
  /\ closed' = TRUE
  /\ pc' = "done"
  /\ UNCHANGED <<closing, deadlinePassed, abandoned, writerFailed, failures, outcome,
                 summaryWritten, queueVars, producerVars, countVars, shardVars, current>>

\* Closing a descriptor or publishing raises.
PublishFails ==
  /\ pc = "publish"
  /\ MarkWriterFailure
  /\ summaryWritten' = FALSE
  /\ outcome' = "writer_failure"
  /\ FinalClaim("writer_failure", FALSE, DropsWithQueue)
  /\ closed' = TRUE
  /\ pc' = "done"
  /\ UNCHANGED <<closing, deadlinePassed, abandoned, producerVars, written, writtenLoss,
                 shardVars, current>>

--------------------------------------------------------------------------------
(* Threads in close() *)

\* The critical section of the first close(): the open losses are sealed.
RequestClose(built) ==
  /\ ~closing /\ ~closed /\ claim = NoClaim
  /\ pending' = SealInto(SealInto(pending, "base", built), "profile", built)
  /\ reservedQueued' = [s \in Streams |-> ReservedAfterSeal(s, built)]
  /\ nextLoss' = [s \in Streams |-> NextLossAfterSeal(s)]
  /\ droppedControl' = [s \in Streams |-> SealedControlDrops(s, built)]
  /\ openLoss' = [s \in Streams |-> NoLoss]
  /\ closing' = TRUE
  /\ UNCHANGED <<closed, deadlinePassed, abandoned, writerFailed, failures, resultVars,
                 inflight, ordinaryQueued, timeoutControls, attempted, written, writtenLoss,
                 dropped, shardVars, pc, current>>

\* 2000 ms after close() was called.
DeadlinePasses ==
  /\ closing /\ ~deadlinePassed
  /\ deadlinePassed' = TRUE
  /\ UNCHANGED <<closing, closed, abandoned, writerFailed, failures, resultVars, queueVars,
                 producerVars, countVars, shardVars, pc, current>>

\* close() finds that the writer ended before any close was requested.
CloseAfterFailure ==
  /\ closed /\ claim = NoClaim
  /\ claim' = Receipt("writer_failure", FALSE, TRUE, dropped)
  /\ UNCHANGED <<flagVars, outcome, summaryWritten, queueVars, producerVars, countVars,
                 shardVars, pc, current>>

\* close() reaches its deadline with the writer alive: the queue is accounted
\* as dropped (_force_timeout_accounting_locked) and the writer abandoned.
ForceTimeout ==
  /\ closing /\ deadlinePassed /\ pc # "done" /\ claim = NoClaim
  /\ DiscardQueue
  /\ writerFailed' = (writerFailed \/ outcome # "timeout")
  /\ outcome' = "timeout"
  /\ abandoned' = TRUE
  /\ closed' = TRUE
  /\ claim' = Receipt("timeout", FALSE, TRUE, DropsWithQueue)
  /\ UNCHANGED <<closing, deadlinePassed, failures, summaryWritten, producerVars,
                 written, writtenLoss, shardVars, pc, current>>

\* close() cannot get its locks by its own deadline: it claims the timeout
\* without them, and leaves the queue alone.
LockFreeTimeout ==
  /\ claim = NoClaim
  /\ claim' = Receipt("timeout", FALSE, FALSE, dropped)
  /\ abandoned' = TRUE
  /\ closed' = TRUE
  /\ outcome' = "timeout"
  /\ UNCHANGED <<closing, deadlinePassed, writerFailed, failures, summaryWritten, queueVars,
                 producerVars, countVars, shardVars, pc, current>>

\* The writer thread has ended and close() has its result.
Terminated == pc = "done" /\ claim # NoClaim /\ UNCHANGED vars

--------------------------------------------------------------------------------
Init ==
  /\ closing = FALSE /\ closed = FALSE /\ deadlinePassed = FALSE
  /\ abandoned = FALSE /\ writerFailed = FALSE /\ failures = 0
  /\ outcome = "none" /\ summaryWritten = FALSE /\ claim = NoClaim
  /\ pending = <<>> /\ inflight = 0
  /\ ordinaryQueued = [s \in Streams |-> 0]
  /\ reservedQueued = [s \in Streams |-> 0]
  /\ timeoutControls = [s \in Streams |-> 0]
  /\ attempted = [s \in Streams |-> 0]
  /\ written = [s \in Streams |-> 0]
  /\ writtenLoss = [s \in Streams |-> 0]
  /\ dropped = [s \in Streams |-> 0]
  /\ droppedControl = [s \in Streams |-> 0]
  /\ openLoss = [s \in Streams |-> NoLoss]
  /\ nextLoss = [s \in Streams |-> 0]
  /\ file = [s \in Streams |-> <<>>]
  /\ hashed = [s \in Streams |-> <<>>]
  /\ summaries = [s \in Streams |-> <<>>]
  /\ torn = [s \in Streams |-> FALSE]
  /\ pc = "loop" /\ current = NoRecord

Produce ==
  \/ \E s \in Streams, terminal, built \in BOOLEAN : WriteRecord(s, terminal, built)
  \/ \E reason \in DropReasons : DropProfileRecord(reason)

Writer ==
  \/ TakeBatch \/ BeginWrite \/ WriteBytes \/ WriteFails \/ RecordWritten
  \/ WriterAbandons \/ CutoffReached \/ PrepareTimeoutControls \/ DropTimeoutControls
  \/ StartDrain \/ FinishDrained \/ BeginSummary \/ CheckSummary \/ FinalizeSummary
  \/ \E s \in Streams : WriteSummary(s) \/ SummaryFails(s)
  \/ Publish \/ Commit \/ Retract \/ Withhold \/ PublishFails

Close ==
  \/ \E built \in BOOLEAN : RequestClose(built)
  \/ DeadlinePasses \/ CloseAfterFailure \/ ForceTimeout \/ LockFreeTimeout

Next == Produce \/ Writer \/ Close \/ Terminated

Spec == Init /\ [][Next]_vars

--------------------------------------------------------------------------------
(* Properties *)

PerStream(S) == [Streams -> S]
Losses == [reason : DropReasons \cup {"none"}, first : Nat, last : Nat]
Outcomes == {"drained", "timeout", "writer_failure"}
WriterPoints == {"loop", "batch", "writing", "wrote", "timeout", "controls", "drain",
                 "summary", "summarizing", "checkSummary", "finalize", "publish", "published", "done"}
Claims == {NoClaim} \cup
  [outcome : Outcomes, summary : BOOLEAN, exact : BOOLEAN,
   attempted : PerStream(Nat), written : PerStream(Nat), dropped : PerStream(Nat)]
Summaries ==
  [outcome : Outcomes, attempted : Nat, written : Nat, writtenLoss : Nat, dropped : Nat,
   droppedControl : Nat, failures : Nat, sha : Seq(Record)]

\* Every variable of the sink has its type; the counters never go negative.
TypeOK ==
  /\ closing \in BOOLEAN /\ closed \in BOOLEAN /\ deadlinePassed \in BOOLEAN
  /\ abandoned \in BOOLEAN /\ writerFailed \in BOOLEAN /\ failures \in Nat
  /\ outcome \in Outcomes \cup {"none"} /\ summaryWritten \in BOOLEAN
  /\ claim \in Claims
  /\ pending \in Seq(Record) /\ inflight \in Nat
  /\ ordinaryQueued \in PerStream(Nat) /\ reservedQueued \in PerStream(Nat)
  /\ timeoutControls \in PerStream(Nat)
  /\ attempted \in PerStream(Nat) /\ nextLoss \in PerStream(Nat)
  /\ written \in PerStream(Nat) /\ writtenLoss \in PerStream(Nat)
  /\ dropped \in PerStream(Nat) /\ droppedControl \in PerStream(Nat)
  /\ openLoss \in PerStream(Losses)
  /\ file \in PerStream(Seq(Record)) /\ hashed \in PerStream(Seq(Record))
  /\ summaries \in PerStream(Seq(Summaries)) /\ torn \in PerStream(BOOLEAN)
  /\ pc \in WriterPoints /\ current \in Record \cup {NoRecord}

\* The capacity counters, which are kept by hand at every enqueue, write and
\* discard, are exactly what is queued, and within the two capacities.  A
\* counter that leaks would refuse the summary its reserved slot.
QueueCounts ==
  \A s \in Streams :
    /\ ordinaryQueued[s] = HowMany(pending, OrdinaryOf(s))
    /\ reservedQueued[s] = HowMany(pending, ReservedOf(s)) + timeoutControls[s]
    /\ ordinaryQueued[s] <= DataCapacity
    /\ reservedQueued[s] <= ReservedCapacity

\* Every attempted record is written, dropped or still queued: the equation
\* attempted = written + dropped that _counts_reconcile tests once the queue
\* is empty, for every interleaving of producers, writer and closers.
Conservation ==
  \A s \in Streams :
    attempted[s] = written[s] + dropped[s] + HowMany(pending, DataOf(s))

\* Until the summary, every sealed loss interval is in the shard, queued, held
\* for the timeout, or counted as a dropped control: no loss record vanishes.
ControlConservation ==
  pc \in {"loop", "batch", "writing", "wrote", "timeout", "controls", "drain"} =>
    \A s \in Streams :
      nextLoss[s] = writtenLoss[s] + droppedControl[s] + timeoutControls[s]
                    + HowMany(pending, LossOf(s))

\* What the writer takes from _inflight_batch in _record_written is the record
\* it wrote without holding the condition, whatever producers and closers did
\* meanwhile: the mismatch branch of _record_written is never taken.
InflightMatchesBatch ==
  /\ inflight <= Len(pending)
  /\ pc = "batch" /\ ~abandoned => inflight > 0
  /\ pc \in {"writing", "wrote"} =>
       /\ current \in Record
       /\ ~abandoned => inflight > 0 /\ Head(pending) = current

\* Once the writer has left its loop for good, unless it was abandoned, nothing
\* is queued and no producer can queue anything behind its back: it took the
\* decision and closed the door in the same critical section, or failed.
NoRecordLeftBehind ==
  pc \notin {"loop", "batch", "writing", "wrote", "timeout"} /\ ~abandoned =>
    pending = <<>> /\ (closing \/ writerFailed)

Covers(r, n) == r.first <= n /\ n <= r.last

\* The places that account for sequence number n of stream s.
Places(s, n) ==
  Cardinality({i \in 1..Len(hashed[s]) : Covers(hashed[s][i], n)})
  + Cardinality({i \in 1..Len(pending) : pending[i].stream = s /\ Covers(pending[i], n)})
  + (IF openLoss[s] # NoLoss /\ Covers(openLoss[s], n) THEN 1 ELSE 0)

\* No sequence number is ever accounted twice; and as long as no control was
\* dropped, the writer has not failed and close has not timed out, none is
\* missing: it is in the shard, in the queue or in the open loss interval.
EverySequenceAccounted ==
  \A s \in Streams : \A n \in 0..(attempted[s] - 1) :
    /\ Places(s, n) <= 1
    /\ (droppedControl[s] = 0 /\ failures = 0 /\ ~abandoned /\ outcome # "timeout")
         => Places(s, n) = 1

\* A shard lists data and loss intervals in sequence order without overlap,
\* although losses are sealed by other threads than the one that writes.
ShardInOrder ==
  \A s \in Streams : \A i, j \in 1..Len(file[s]) :
    i < j => file[s][i].last < file[s][j].first

\* A summary that says drained tells the truth about the bytes before it: its
\* digest covers exactly the shard, its counters are the shard's records, and
\* with no control dropped the intervals in the shard add up to dropped.
SummaryHonest ==
  \A s \in Streams : \A k \in 1..Len(summaries[s]) :
    LET m == summaries[s][k] IN
    m.outcome = "drained" =>
      /\ m.sha = file[s] /\ ~torn[s]
      /\ m.written = HowMany(file[s], DataOf(s))
      /\ m.writtenLoss = HowMany(file[s], LossOf(s))
      /\ m.attempted = m.written + m.dropped
      /\ m.droppedControl = 0 =>
           m.dropped = Cardinality({n \in 0..(m.attempted - 1) :
                         \E r \in LossOf(s) \cap {file[s][i] : i \in 1..Len(file[s])} : Covers(r, n)})

\* A CloseResult made under the condition reconciles, whichever thread won the
\* claim and whatever the outcome: no record is missing from its counters.
ReceiptReconciles ==
  claim # NoClaim /\ claim.exact =>
    \A s \in Streams : claim.attempted[s] = claim.written[s] + claim.dropped[s]

\* A drained CloseResult stands for shards that end in exactly one summary, with
\* the same counters.
DrainedReceiptHasSummary ==
  claim.outcome = "drained" =>
    \A s \in Streams :
      /\ claim.summary /\ Len(summaries[s]) = 1
      /\ summaries[s][1].written = claim.written[s]
      /\ summaries[s][1].dropped = claim.dropped[s]

\* After such a CloseResult no counter in it moves: neither a producer that was
\* about to emit nor the abandoned writer finishing its write changes them.
ReceiptFinal ==
  [][claim # NoClaim /\ claim.exact =>
       UNCHANGED <<claim, attempted, written, dropped>>]_vars

\* The contract's loss accounting: consecutive dropped sequence numbers with
\* the same reason are one interval.
LossesMaximal ==
  \A s \in Streams : \A i \in At(pending, LossOf(s)) :
    ~(openLoss[s].reason = pending[i].reason /\ openLoss[s].first = pending[i].last + 1)

\* What the shard says: every sequence number has its place, in order.
ShardTellsAll == EverySequenceAccounted /\ ShardInOrder

\* Two streams share one queue, one writer and one reserve per stream: counters,
\* sequence numbers and summaries of the one are never charged to the other.
AccountsSeparate == QueueCounts /\ EverySequenceAccounted /\ SummaryHonest
================================================================================
