# Verification of the request lifecycle profiler

TLA+ models of `vllm-hust-request-lifecycle-profiler`, the TLC runs that check
them on small instances, and TLAPS proofs, for every value of the constants, about
the trace sink, the lifecycle bridge, the KV recovery adapters and their ledger, the
plugin registry, the locked result files, the M0 lifecycle run and its decision.
Source paths below are relative to `src/vllm_request_lifecycle_profiler/`, those
that start with `.benchmarks/` to the repository.

The profiler is loaded into every vLLM process as a plugin. It observes requests
and writes *evidence*: append-only JSONL shards that say what happened, what was
lost, and whether the shard may be used at all. Serving must never wait for it or
fail because of it; the evidence must never claim more than was observed.

## 1. Inventory

| Component | State | Operations | Talks to |
|---|---|---|---|
| **Trace sink** `runtime_hooks.JsonlTraceSink` | queue, in-flight batch, capacity counters, open loss interval, written/dropped counters, digests, shard names, close flags, one completion claim | `write_event`, `write_edge`, `write_kv_recovery_profile`, `drop_kv_recovery_profile`, `close`, the writer thread, the `committed_*` paths | every producer thread; the file system; `atexit` |
| **Hooks** `runtime_hooks.RuntimeLifecycleHooks` | current sink, owner pid, reinitialize flag, diagnostics | `emit_*`, `close`, `reinitialize_after_fork`, fork callbacks | the sink |
| **Base lifecycle bridge** `kv_recovery_runtime.RuntimeBaseLifecycleBridge` | identities, request states (open spans, epoch), episodes | `register`, `scheduled`, `preempted`, `admission_started`, `resumed`, `first_compute`, `terminal` | hooks; scheduler adapter; observer |
| **KV recovery adapters** `kv_recovery_runtime` | scheduler episodes, worker pending attempts, profile ledger | scheduler and worker callbacks, receipts, close | bridge; hooks; vLLM core |
| **Normalizer** `normalize_*` in `kv_recovery_runtime` | none | join of base and profile records | finished shards |
| **Plugin registry** `plugin` | module globals per process id | `register_plugin`, `close_native_event_sink`, `close_engine_failure_observers` | hooks, bridge, adapters, event bus |
| **Native event sink** `native_event_bus` | four counters | `emit`, `close`, `snapshot` | hooks; vLLM event bus |
| **Lifecycle observer** `issue19_lifecycle`, `issue19_control` | active requests, abort attempts, resource observations | `request_started`, `abort_attempt`, `request_terminal`, `engine_failure`, `resource_transition`, snapshot | bridge; hooks |
| **Offline analysis** `trace`, `causal_attribution`, `kv_recovery`, `legacy_trace` | none | spans, bottleneck attribution, recovery decomposition | finished traces |
| **Attribution study** `blind_attribution`, `preblind_calibration` | case bundles, output directories | validate a bundle, calibrate noise, score, lock results | artifacts |
| **M0 baseline runner** `.benchmarks/run_issue19_m0_baseline.py` | clients, polls of the control endpoint, resource ledger, `summary.json` | run both arms of a repetition, kill the worker, judge the evidence, decide | the service with the plugin; shards |
| **Record builders and validators** `runtime_protocol`, `kv_recovery_profile_protocol` | none | draft to record, or refusal | every producer |
| **Artifacts, workloads, adapter, launcher, paper experiments** | none or files | encode, hash, convert, render | files |

What is hard here is concentrated in the sink. Producer threads, one writer
thread and any number of closers share it; the writer writes *outside* of the
lock; a closer gives up after 2000 ms and takes the account away from a writer
that is still running; a closer that cannot even get the lock claims a timeout
without it; the file system may fail at every call; and the verdict on all of
this is one `CloseResult` on which the run manifest relies. The bridge and the KV
recovery adapters come next: multi-record emissions of which any may be refused,
a preemption that is not atomic, and receipts from workers in any order. Around
them are forks (every object of the parent is inherited by a child that must not
use it), and a runner that kills a worker and has to judge from what is left.

What makes each part correct:

- sink, ledger: every attempted record is written or accounted as dropped; every
  interval is in the shard or counted; summary and receipt are true;
- sink, commit: one receipt; a committed pair of shards is complete and final; a
  refused sink leaves nothing that looks complete; `close()` returns;
- hooks: a forked child never touches the parent's shard and does not wait for the
  parent's locks;
- bridge: a span ends once, epochs grow, a terminal closes every open span;
- KV recovery: a receipt counts for its own episode, at most once, in any order;
- registry and observer: one native sink on the bus of a process, what was inherited
  is accounted for, a dying engine commits its shards, a finished request is not active;
- records: a draft of this repository's own producers is never refused for what
  the repository put into it, and its counters are those of the host;
- attribution study: the validator accepts exactly the well-formed bundles, what
  is published beats the noise, a locked file stays;
- M0 runner: evidence that it calls valid is what it says, it ends although the
  service stalls or dies, and its decision is the gate of the plan;
- offline analysis: the algorithms agree with their definitions.

`PROJECT.json` lists the hazards line by line with the properties that cover them.

## 2. Modules

| Module | Contents |
|---|---|
| `TraceLedger` | the sink's queue, ledger, summary and receipt |
| `TraceLedger_proofs` | TLAPS proofs about it: the accounts, and what the shard tells |
| `ShardCommit`, `ShardCommit_proofs` | initialization, `close()`, publication, retraction, claim, and proofs about it |
| `EvidenceCommit` | abstract specification: a sink's shards become evidence in one step, for good, or never |
| `LifecycleBridge`, `LifecycleBridge_proofs` | `RuntimeBaseLifecycleBridge`, shared by scheduler adapter and observer, and proofs about it |
| `KVRecoveryProfile` | rows of the recovery profile: wire builders and normalizer, as predicates |
| `KVRecovery` | scheduler and worker adapter, with what vLLM carries between them |
| `ProfileLedger` | `BoundedKVRecoveryProfileLedger` |
| `KVRecovery_proofs` | proofs about the adapters and about the ledger |
| `PluginProcess`, `PluginProcess_proofs` | registry, hooks, fork handling, native sink, observer, per process, and proofs about it |
| `RuntimeProtocol` | `runtime_protocol`'s builders and validators, as predicates |
| `LifecycleRecords`, `LifecycleRecords_proofs` | the drafts of this repository's producers, with the token counters, and a proof about them |
| `CaseBundle` | the validator of one observation of a case bundle |
| `BlindAttribution` | null calibration, full-DAG scorer, locked result files |
| `M0Ledger` | resource evidence of one M0 lifecycle |
| `M0Run`, `M0Run_proofs` | clients, control endpoint, worker kill and verdict of one M0 lifecycle, and proofs about it |
| `M0Decision` | the campaign: repetitions, `summary.json`, decision |
| `Judgement_proofs` | proofs about the locked files of `BlindAttribution` and the decision of `M0Decision` |
| `MC...` | instances for TLC |

`KVRecovery` extends `KVRecoveryProfile`, `LifecycleRecords` extends
`RuntimeProtocol`, `ShardCommit` refines `EvidenceCommit`. Modules that concern
each other without sharing state take the other's result as a nondeterministic
outcome: the bridge and the adapters a refusal of the sink, `BlindAttribution` an
accepted bundle, `M0Decision` the analysis of an arm.

Two runs hold several independent models (`MCKVRecovery`, `MCValidation`). A
variable `part` says which one a behaviour belongs to and the variables of the
others rest, so the states of the parts add up and do not multiply.

Operators commented as a *mistaken variant* stand before the definition they
vary. `PROJECT.json` pairs them with the property that notices the mistake.

### TraceLedger

A critical section of `_condition` is one action. The writer's steps between
critical sections (the write itself, the summary, the clock reads) are actions of
their own, so that producers and closers get in between. A record is its stream,
sequence numbers and capacity class. Base and profile streams have one set of
per-stream functions; the code has two copies of each counter.

`pending` is `_inflight_batch` followed by `_queue`, and `inflight` the length of
the first part: the code only takes batches from the head of the queue and
empties both together. `file` is what is in the shard, `hashed` what the digest
covers; they differ when an abandoned writer still writes. A deadline is a flag
that turns true once at any moment after `close()` was requested.

`WriteRecord` is each of the three write methods in full: allocate a sequence
number; clock or serialization failure; failed writer; no capacity; or seal the
open loss and enqueue, which for a terminal event may find that the seal took the
last reserved slot. The writer's actions follow `_writer_main`: `TakeBatch`,
`BeginWrite`, `WriteBytes` or `WriteFails`, `RecordWritten`, the cutoff
(`PrepareTimeoutControls`, `DropTimeoutControls`), `StartDrain`, `FinishDrained`,
the summaries, `FinalizeSummary`, and publication reduced to its outcome. The
closers' are `RequestClose`, `ForceTimeout`, `LockFreeTimeout`,
`CloseAfterFailure`.

Left out: payloads, timestamps, categories, diagnostics and logging, the test
seams (`writer_start_gate`, injected `write_function`), the in-memory profile
snapshot. The byte bound `MAX_QUEUED_BYTES` is the two record bounds times the
maximal record, so it refuses nothing that they admit. The reserved slot that the
summary holds while it is written is not counted: nothing else is admitted then.
`_finish_timeout_in_writer` runs only after the deadline, so its branches that
write controls or a timeout summary cannot be taken and are not modelled; this is
visible in the guard of `DropTimeoutControls`.

### ShardCommit

Here the queue is abstracted to "may be empty", and control is fine-grained: each
flag or clock read outside of a lock and each file system call is a step. The
closers have their own deadlines; `_close_deadline_ns` is the deadline of the one
that entered. Per stream the model keeps what the formal name names (nothing, the
shard, the empty sentinel), whether the incomplete name exists, and whether the
bytes are open, complete or invalid. `MaxFaults` bounds failing calls.
`committed_shard_path` is `Committed`.

`ShardCommit` refines `EvidenceCommit` under `Verdict` (from the claim) and
`Visible` (streams with a complete shard under its formal name).

### LifecycleBridge

A critical section of the bridge's lock is an action, and an operation is a *script*
of events and edges of which the sink takes a part: the code stops at the first
refusal, and `StopPoints`, `PreemptParts` and `CompletionParts` say where
(`MaxRefusals` bounds refusals). An event is known by its place in the log of its
request and a span by the event that starts it, for `new_span_id` never repeats an
identity. The engine core thread calls through the scheduler adapter (`Core...`), the
frontend through the observer (`Front...`, `EngineFailure`), on one bridge.
`emit_runtime_preempted` is three steps as in the code: read the active span, emit,
store. `engine_failure` may run between the two locks of `request_started`;
`overlapped` remembers for which requests it did. The capacity of the tables is chosen
initially from `Capacities`. Token counts are in `LifecycleRecords`; timestamps are
left out.

### KVRecovery, KVRecoveryProfile, ProfileLedger

A callback runs on one thread of its process and is one action; it writes a script:
base records, profile rows, then base records again (`Script`). Transfer contexts,
receipts and compute sidecars travel in sets (`envelope`, `receipts`, `computes`), so
that they arrive late, in any order, again or never. A worker may be told of a
completion again, or after it forgot the attempt (`CompletedAgain`). A chunk's rows,
the requeue bound and the canonical block set are kept; digests and sizes are not, nor
are the bounds and the order that the wire builders demand of the host's lists
(`kv_recovery_profile_protocol.py:429-430`, `449-452`, `469-482`): a list that breaks
them has the effect of a refused record, which any script may meet.
`NormalizesEpisode` is the normalizer as a predicate over the shards the adapters
wrote: the joins by request, epoch, transfer and row identity, without timestamps (the
stages of an episode are stamped by one clock in causal order) and numbers of the
result. It takes a single restored transfer, as the code does. `Plans` names the
optional steps (a second requeue, a reset, a close, a migration, a repeated delivery
or completion) which one behaviour may contain; every step is optional in its plan.

`ProfileLedger` is the in-memory ledger the adapters use without runtime hooks.

### PluginProcess

Memory is a record per process that `Fork` copies at any point, also in the middle of
`register_plugin`, whose parts are separate actions and may each fail (`Failures`).
The sink, the factory and the observer fail open, so that the registration goes on
without them; unregistering the inherited native sink, making the new one or
registering it raises (`RegisterNativeRaises`), with the bus as it was or without the
inherited sink and no global set, and `register_plugin` may be called again
(`MaxTries`). A hooks object is named after its creator and that process's call of
`register_plugin`, a shard after hooks and opener. `carried` is what an inherited
observer had counted at the fork. `EngineFailure` needs no registration: it works on
whatever `_OBSERVER_FACTORY` the process has. `AfterForkChild`, the fork callback with
`detach_after_fork_child`, is part of the fork: it runs before any other code of the
child. `reinitialize_after_fork` is an action of its own. Locks are left out: the fork
callbacks replace those of sink and hooks before any other code of the child, those of
an inherited bridge, adapter or observer they do not. So are the four diagnostic
counters of the native sink.

### RuntimeProtocol, LifecycleRecords

The validators are predicates on tagged metadata values; texts are one of a few
classes (plain, unprintable, overlong, empty). `LifecycleRecords` drives them with
what the bridge, the worker adapter, the native sink and the observer put into a
draft for a host that schedules, chunks, caches, preempts and ends a request.
Byte limits and canonical JSON are left to the unit tests.

### CaseBundle, BlindAttribution

An author writes spans, edges, links and charges, with slips in identities and
times, and submits. The depth-first search, the sweep over sorted intervals, the
precedence check and the drill-down keys are translated step by step and compared
with reachability, coverage and ordering. In `BlindAttribution` shares are
compared by cross-multiplication and medians doubled. The calibrated floor reaches
the scorer only through the operator, who may leave the default of `--noise-floor-ms`;
`Calibrate` chooses. The bootstrap interval
depends on a seeded generator: any interval between resample medians that holds
the sample median is possible. Output files are opened with `O_EXCL`, written in
two steps, unlinked in the handler, by concurrent runners that may die anywhere.

### M0Ledger, M0Run, M0Decision

The service is external in all three: it does whatever the hooks can observe.
`M0Ledger` has each process export rows through a queue that dies with it, the
failure injector's durable witness, and `_resource_ledger` over what is on disk;
rows of a resource are in the order of their timestamps, which are left out.
Loss records, unclean summaries and `incomplete_files` are left out of
`ObserverComplete`: shards have their formal names from the start
(`runtime_hooks.py:1335`), so a killed worker's is not incomplete.
`M0Run` has clients with their faults, the control endpoint (state and duplicate
abort), the polls with their deadlines, and the verdict. A stream has any number of
lines (`Line`, `ReadLine`); the socket's timeout is for one read, so it is not for a
client that has a line to read (`SocketTimeout`); an initial group is a
slice of the 63 clients, which meet only in the polls. `M0Decision` has the loop
over repetitions with its crash points and the truncating rewrite of
`summary.json`; a boundary without p99 acts as one that did not grow.

## 3. Runs

| Run | Instance | Shows |
|---|---|---|
| `ledger` | two streams with 1 data slot and 2 reserved slots each, batches of 2, 4 base records and 1 profile record | the ledger's invariants, `ReceiptFinal`, `AccountsSeparate`; a drained receipt stands for both summaries |
| `ledger_maximal` | as `ledger` | violation of the contract's rule on intervals |
| `commit` | two closers, two streams, 2 faults | commit protocol, refinement, `CloseReturns`, `WriterStops` |
| `commit_receipt` | no faults | violation: a drained receipt without publication |
| `bridge` | one request, 2 preemptions, 1 refusal, tables of 1 and 2 | `SpansConsistent`, `EpochsConsistent`, `RetiredIsForgotten` |
| `bridge_terminal` | the same without refusals | violation: a terminal in the admission window names the ended queue span, not the open admission span |
| `recovery` | adapters: one request, 2 epochs, 2 transfers, 1 failing step, five plans; ledger: 3 records, 6 sequence numbers | complete episodes normalize; nothing is unexplained; every sequence number once |
| `plugin` | a process and its fork, every part of a registration may fail, 2 calls of `register_plugin` and 3 records each | `ShardsOwned`, `InheritanceExplained`, `FactoryShardCommitted` |
| `plugin_failure` | one process without recovery profile, nothing fails | violation: an engine failure commits no shard |
| `validation` | eight parts, below | records, bundle, scoring, locking, M0 ledger, decision |
| `m0_run` | both arms, one client of each role before the worker's request | `VerdictIsSound`, `RunnerEnds` |
| `m0_run_failure_chain` | fault arm | violation: two terminals of one failure |

**Ledger and commit bounds.** One data slot overflows with the second record. Two
reserved slots let a terminal event and a loss interval compete for the last one.
Four records allow two separate intervals around accepted records, and a batch of
two leaves a record in flight while another is written. `MaxSeq` is per stream
(`MCSeq`): one profile record beside the four base records is enough to charge the
wrong account, to fill one reserve while the other is free, and to leave one of two
summaries unwritten. Two closers give the
two roles: holder of `_close_lock` and waiter; a third would only repeat the
second. Two faults reach the first two fallbacks of a retraction. With three
failing calls on one shard (rename, unlink and append)
`NothingVisibleUncommitted` is false in the code too, which its comment says.

**Bridge and recovery bounds.** Requests meet only in the capacity of the tables,
which 1 against 2 epochs fills. Two epochs give an episode that replaces another,
two transfers one that is invalidated or repeated beside one that counts, and a
requeue bound of 1 is met by the second requeue. One refusal cuts one script at
any record; what follows a loss is then compared only with what was counted.
Three blocks in chunks of two leave a partial chunk. In the ledger, three records
and six numbers leave room for two intervals between accepted records.

**Plugin bounds.** A grandchild differs from a child only in what it inherits,
which is covered by forking at every point of the parent's registration. A second call
of `register_plugin` meets what one that raised has left; a third would find the
same.

**Validation bounds.** Three spans are the smallest cycle that is not mutual and
the smallest diamond chain; three edges close it. Four points in time give nested,
adjacent, equal and disjoint intervals. One span and one link carry every slip.
The scorer has two candidates, two or three pairs and two null pairs (the code: at
least five), which reach both parities of a median and a rank between values.
Three runners, so that one finds what a dead and a failed one left. Two transfers,
one witnessed and one not, and a lease. The campaign has three repetitions of
which two must show the pathology (the code: ten and eight), every subset of them
as `--repetitions` and one out of order.

**M0 run bounds.** Clients of one group meet only in the polls, so a group of one
client of each role is a slice. A client with every fault, the worker's request
and the final request have any timing.

Deadlock is checked in every run. `Terminated`, `Quiescent` and the `Rest` actions
are the legal ends: every request finished, every process registered or failed, a
verdict, analysis or decision reached, or the bound on records used up.

**Fairness.** `CloseSpec` assumes only that a thread inside `close()` is scheduled
and that time passes; nothing of the writer. `WriterFairness`, the premise of
`WriterStops` and of the liveness part of the refinement, adds that the writer
thread and the constructor are scheduled and that no file system call blocks for
ever; the code has no remedy for a call that does, which is why `CloseReturns`
holds without it. Callers never have to call `close()`. In `M0Run` the runner and
its clients are weakly fair because every single wait of theirs has a timeout; the
service, its failures and the control endpoint's errors owe nothing. `EndOfRead` has
a fairness of its own: the client with a deadline looks at it before each read, and
what ends a stream is read once it is there. That does not make a run end:
`_read_stream` bounds each read and, but for that client, not their number. So
`RunnerEnds` has the premise that the service stops sending lines; without it
(`RunnerEndsAnyway`) TLC finds the client that reads for ever.

### What the properties say

| Property | Parts |
|---|---|
| `ShardTellsAll` | `EverySequenceAccounted`: no number twice, none missing unless counted; `ShardInOrder` |
| `AccountsSeparate` | counters, sequence numbers and summaries of two streams |
| `SpansConsistent` | `OpenSpanIsCurrent`: what is open in a lossless trace is what the bridge would end; `SpansBalanced` |
| `EpochsConsistent` | `EdgesMatchSpans`, `EpochsFollowRequeues` |
| `RetiredIsForgotten` | `RetiredLeavesNothing`: a terminal between the steps of a preemption leaves no episode; `TerminalAfterStartInactive`: the observer forgets the requests whose end did not overlap their start |
| `NothingUnexplained` | `EpisodesAccounted`, `StartedSpansExplained`: an episode or span ends, or a row or loss says why not |
| `IntervalsWellFormed` | `LossRecordsBuild`, `LossesMaximal` |
| `ShardsOwned` | `OwnShardsOnly`, `OneShardPerHooks` |
| `InheritanceExplained` | `OneNativeSink`; `SnapshotExplained`: an observer, own or inherited, reports what it had counted at the fork and the resource events this process has recorded |
| `FactoryShardCommitted` | when an engine fails, the shard of the recovery factory's hooks, own or inherited |
| `RecordsFaithful` | `RefusedForHostValuesOnly`, `CountersFollowHost`, `ColdPrefillReportsWork` |
| `ValidatorIsRight` | search = acyclicity, precedence = time, charges and sweep = coverage, links lead somewhere |
| `ResultIsSound` | clean evidence, above the noise, lockable |
| `OutputOfOneRunner` | one runner's files, half-written ones explained |
| `LedgerIsTrue` | `WitnessSettled`, `LeaksReported`, `ControlLedgerIsExact` |
| `VerdictIsSound` | `SurvivorsCompleted`, `CancelledTwice`, `OneEnd`, `ZombiesCounted` |

### Findings

1. `commit_receipt` / `CommittedIsComplete`. If the deadline passes after the last
   summary's clock check and before the eligibility check of the publication, the
   writer publishes nothing but leaves outcome `drained` and the summary flag, and
   its final critical section may claim them before the closer claims the timeout.
   `committed_shard_path` then names the empty sentinel. `CommitPointIsComplete`
   states what does hold: such receipts exist only after the deadline.
2. `ledger_maximal` / `LossesMaximal`. Sealing a loss can take the last reserved
   slot from the terminal event being written, whose drop then opens an interval
   adjacent to the sealed one with the same reason. The numbers stay right
   (`EverySequenceAccounted`); the contract's maximality does not hold.
3. `bridge_terminal` / `TerminalClosesOpen`. `emit_runtime_terminal` ends the
   active span, else the queue span. Between `admission_started` and `resumed` there
   is no active span; the queue span has already been ended by `admission_started`
   and is listed once more, and the admission span, the only open one, is not,
   against the contract's "**every** then-open span". The property is about a
   lifecycle with one registration and one owner, so that no other end or restart
   of the request plays a part. `SpansBalanced` leaves out terminals in that window.
4. `plugin_failure` / `FailureCommitsShards`. `close_engine_failure_observers`
   promises to "Commit process-local profiler shards" (`plugin.py:164`) and closes
   what `_OBSERVER_FACTORY` holds. A process without a factory of its own, because
   recovery is not configured or making the factory raised, has hooks with an open
   shard and commits nothing; with an inherited factory it commits that one's hooks
   only. `FactoryShardCommitted` states what does hold.
5. `m0_run_failure_chain` / `FailureChainWitnessed`. `_terminal_chain_valid`
   accepts the pair of failure terminals that EngineCore and the API record of one
   worker failure, and its comment explains why; `worker_failure_witnessed` asks
   for exactly one and calls the same evidence invalid.

### Other disagreements

Statements that a document or comment makes, or that one would expect, and that the
code does not keep. Each is a definition; adding it as an `INVARIANT` to the named
configuration (`PROPERTY` for `RunnerEndsAnyway`; for instanced modules, with the
instance's name) gives a counterexample. The properties above are stated so that they
leave these cases out and nothing else.

| Statement | Configuration | What happens |
|---|---|---|
| `LifecycleBridge!OneTerminal` (contract: "exactly one effective terminal") | `Bridge` | the observer ends a request, the scheduler adapter registers it again and ends it again; hence `OneOwner` |
| `SpansBalanced` without `OneOwner` | `Bridge` | a terminal between the critical sections of a preemption ends the span that the preemption ends too |
| `LifecycleBridge!FinishedIsInactive` (no request that ended is listed as active) | `Bridge` | an `engine_failure` between the two locks of `request_started` (`issue19_lifecycle.py:104-109`) discards the request before it is added; it stays in the list, and counts against its capacity, for ever unless the host ends it a second time; hence `TerminalAfterStartInactive` |
| `KVRecovery!StartedSpansEnd` (contract: "a started span ends exactly once") | `Recovery` | `transfer_invalidated` forgets the attempt, its communication span stays open |
| `KVRecovery!MigrationIsUnassociated` (comment in `kv_recovery_runtime.py:1839`) | `Recovery` | a migration of a request whose old episode is still in the table is recorded as its recovery |
| `PluginProcess!ObserverIsLocal` (docstring, `plugin.py:157`) | `Plugin` | in a child whose hooks are disabled, or whose own observer could not be made, `get_lifecycle_observer` returns the parent's, with what it had counted there; hence `SnapshotExplained` |
| `LifecycleRecords!WorkerExitsRecorded` (docstring, `issue19_lifecycle.py:163`) | `Validation` | the negative exit code of a killed worker is refused as metadata |
| `LifecycleRecords!PrefillReportsWork` (contract on `prompt_tokens_computed`) | `Validation` | cached tokens are counted as computed |
| `BlindAttribution!EveryResultLocks` (`docs/blind_attribution_contract.md:109`) | `Validation` | an abstention over a candidate without causal evidence cannot be locked |
| `CaseBundle!ValidatorDecides` (the schema allows 4096 spans) | `Validation`, `Graph`, with `RecursionLimit` below the number of spans | the recursive search raises `RecursionError` |
| `M0Ledger!FaultIsNoOrphan` (`docs/issue19_public_evidence.md:83`) | `Validation`, `Ledger` | a transfer whose pending row died in the worker's queue is a conservation failure |
| `M0Run!FaultsAsPlanned` (the plan in the runner, 2112) | `Run` | a broken or timed out connection passes for the planned client fault |
| `M0Run!RunnerEndsAnyway` (the runner ends) | `Run` | `_read_stream` has no bound on the number of lines: a service that keeps sending some without `[DONE]` holds the client, and so the runner, for ever |

## 4. Proofs

Each theorem is for every value of the constants that the named assumption of its
module allows. Every run evaluates the assumptions on its instance.

| Module | Theorem | Property |
|---|---|---|
| `TraceLedger_proofs` | `TypeCorrect` | `TypeOK` |
| | `QueueCountsExact` | `QueueCounts` |
| | `NoRecordLost` | `Conservation` |
| | `BatchIntact` | `InflightMatchesBatch` |
| | `WriterLeavesNothing` | `NoRecordLeftBehind` |
| | `ReceiptsReconcile` | `ReceiptReconciles` |
| | `ReceiptsFinal` | `ReceiptFinal` |
| | `NoIntervalLost` | `ControlConservation` |
| | `ShardComplete` | `ShardTellsAll` |
| | `SummaryTrue` | `SummaryHonest` |
| | `StreamsSeparate` | `AccountsSeparate` |
| | `DrainedIsSummarized` | `DrainedReceiptHasSummary` |
| `ShardCommit_proofs` | `CommitTypeCorrect` | `TypeOK` |
| | `SingleReceipt` | `OneReceipt` |
| | `CommittedBacked` | `CommitPointIsComplete` |
| | `RefusedHidden` | `NothingVisibleUncommitted` |
| | `PublicationFinal` | `CommitIsFinal` |
| | `SinkRefinesEvidence` | safety part of the refinement of `EvidenceCommit` |
| `LifecycleBridge_proofs` | `SpansFollowBridge` | `SpansConsistent` |
| | `EpochsFollowPreemptions` | `EpochsConsistent` |
| | `RetiredForgotten` | `RetiredIsForgotten` |
| `PluginProcess_proofs` | `ShardsAreOwned` | `ShardsOwned` |
| | `GlobalsExplained` | `InheritanceExplained` |
| | `FactoryShardIsCommitted` | `FactoryShardCommitted` |
| `KVRecovery_proofs` | `EvidenceIsAccounted` | `NothingUnexplained` |
| | `CleanRunIsLossless` | `FaultFreeIsLossless` |
| | `SequencesOnce` | `EverySequenceOnce` |
| | `IntervalsSound` | `IntervalsWellFormed` |
| `LifecycleRecords_proofs` | `RecordsAreFaithful` | `RecordsFaithful` |
| `Judgement_proofs` | `OutputIsOfOneRunner` | `OutputOfOneRunner` |
| | `LockedFilesStay` | `LockedStays` |
| | `DecisionIsTheGate` | `DecisionIsGate` |
| `M0Run_proofs` | `VerdictSound` | `VerdictIsSound` |

### The trace ledger

For every set of streams, capacities, batch size and number of records
(`StreamsAssumption`, `CapacityAssumption`). The accounts rest on `Invariance`,
that `IInv` is inductive. `IInv` joins the five state properties with two
auxiliary ones. `ReceiptReconciles` is not inductive: a receipt reconciles because
it is made when the queue is empty, which takes `Conservation` and, for the
writer's own receipts, `NoRecordLeftBehind`; that in turn needs `QueueCounts` and
`InflightMatchesBatch`, so that removing the head of the queue removes the record
whose counters move. `TimeoutInv` says that timeout controls exist only in the
window between their preparation and their drop, so the reserve is exact there
too. `ClaimInv` ties an exact receipt to the flags: once it exists the sink
accepts nothing and the writer is abandoned or done, its counters are the current
ones, and so no later step moves them.

The argument about sequences is in a few lemmas on `HowMany` (empty, append, tail)
and on what sealing a loss does to the counts; `NoteDropStep` and
`AcceptRecordStep` then treat all producer steps, `DiscardStep` all ways of giving
up a queue, and one `...Preserves` lemma per remaining action the rest.

What the shard tells is proved on top of `IInv`. `PhaseInv` relates the writer's
place to the flags, `ControlInv` counts the intervals as `IInv` counts the
records, and `OrderInv` says that the records of a stream follow each other without
overlap in the shard, then the queue, then the open loss, also for the record that
a writer holds while a closer empties the queue behind its back. `TileInv` is the
heart of `ShardTellsAll`: as long as no interval was given up, every number below
the next one is in one of the three. Neither is implied by the counters, which
would also be right if two records had swapped numbers. `HonestInv` and `DrainInv`
carry the numbers of a summary from the moment it is written to the receipt.

### The commit protocol

For any closers and number of faults, with or without a profile stream
(`CommitAssumption`). `FilesFollowStage` says, per stream, what the two names and the
bytes are at each stage of the writer, and that a complete shard which was published
without a claim is still to be retracted, or three calls have failed; `WorkRemains`
that a loop over the streams has one left to visit; `PublicationWon` that the claim of
a publication finds every shard in place; `CloseProtocol` that the closer who set the
deadline keeps the close lock until there is a receipt; `SummaryState` and
`LateReceipt` that a drained receipt without a publication comes after the deadline.
`OneReceipt` alone is not inductive: what a closer returns was read before, in another
step. The refinement maps every step to a step of `EvidenceCommit` or a stutter; its
liveness part stays with TLC. `NothingVisibleUncommitted` carries its limit, fewer
than three failing calls: the code's own comment says that nothing can be done once
rename, unlink and append have failed on the same shard.

### The bridge

For any set of requests, number of preemptions and refusals, and table sizes
(`BridgeAssumption`). `BridgeInvariance` is proved in three layers, each of which
uses the one before. `Base` has the types and what the tables hold: an episode is
of an epoch that has begun, and while a preemption waits to emit there is none for
its epoch; that makes `RetiredIsForgotten` inductive. `AllSound` says of a request
that lost nothing that every pair (event, span) held in the state, in an episode
or by the core thread between two critical sections is a pair of the log; the
next edge is made from such a pair, so `EdgesMatchSpans` follows. `AllPlaced` puts
a registered request at one of six places (`Queued`, `Working`, `Admitting`,
`Resuming`, and inside of a preemption `Leaving`, `Moving`), each with the spans
that are open there and the number of requeues, and says that a retired one has a
finished log. `OpenSpanIsCurrent` is not inductive without the places: the span
that a preemption ends was read before the lock was released, and is still the
open one only because of where the request is.

The proof separates what a step does from why that is right. One `...Acts` lemma
per operation of the bridge says what is left of it when nothing was refused;
`Described` collects these for every action of either thread (`EveryStep`); and
the invariant is carried through ten kinds of clean step, with lemmas on what one
appended event does to a log (`TraceAppend`, `FinishedAppend`).

### The KV recovery adapters

For any finite set of requests, every bound on preemptions, transfers and refusals,
every set of plans and every chunk size (`RecoveryAssumption`,
`ProfileAssumption`). `RecoveryInv` has the type invariant and, as `EvidenceInv`:
shards are sequences (`ShardsOK`); links lead to rows (`LinksOK`); `EngineInv`, that
an entry of `_episodes` is of an epoch that has begun, that the receipt it has
accepted names its own request and epoch, that a "preempt" row does so too, and
that a committed engine has no episodes left; `WorkerInv`, that transfers are
numbered, that a started span carries the number of its transfer, and that no
transfer of that number in flight is one that preserves. Neither part of
`NothingUnexplained` is inductive without them: an episode may leave the table with
a sidecar only if the receipt from which the sidecar is made was its own
(`EpisodeOK`); a new epoch may replace an entry only because no begun entry can be
there yet; and a transfer that leaves the ones in flight without a done event would
leave its span unexplained unless its context says that it had none
(`StartedOK`, `ContextOK`).

Every callback writes a script, so `PerformFacts` says once what a script that
succeeds or breaks off leaves in the two shards, and `DroppedFacts` what drops
leave. `KeyStep` lists the three ways in which an entry may change, and `Leaves` the
ways in which a transfer may leave; `EngineKeeps` and `SpansStep` carry the
invariant through every step that keeps to them, and one `...Keeps` lemma per
action shows that it does.

`CleanRunIsLossless` adds `CleanInv`: in a clean state (`Clean`, the hypothesis of
`FaultFreeIsLossless`) the adapters are `Ready`. That is: the shards have no loss; what
an entry of `_episodes` holds is enough for the rows that come next, a context with
its "preempt" row, a receipt with its row and transfer, an admission event before the
admission row (`EntriesReady`); a preempted request has an episode without a context
(`HostReady`); the context of an episode is in one place, on its way to the worker, in
flight or on its way back, and its episode still waits for it (`OnePlace`); a transfer
in flight has its attempt in `_pending`, with a row exactly if it restores an episode
(`AttemptsPending`); a sidecar has what the first-compute row needs (`ComputesReady`).
`OnePlace` is the heart: a receipt that arrives is accepted only because no other
receipt of its context can have been, and a transfer that completes finds its attempt.
The `...Valid` lemmas say which rows the builders accept, `CleanScript` that a script of
such rows is written to its end, one `...Ready` lemma per action that it leaves the
adapters ready, and `CleanBefore` that no step leads back to a clean state.

### The records of the producers

For every prompt, number of preemptions, cache hit, host text and exit code
(`RecordsAssumption`: token counts, preemptions and exit codes fit the validators'
integers, as vLLM's do; an exit code may be negative). `SampleBuilds` reduces "a
record is built" to what depends on the event: its spans, its metadata and what the
event asks of the metadata. One `...Meta` lemma per class of event gives the last
two from ranges of the counters, and one `...Builds` lemma per draft puts them
together. The ranges are `RecordsInv`. `CountersFollowHost` is not inductive: a
request admitted again starts counting anew, so an admission has to be of a later
epoch; that a chunk count fits needs that a prefill has at most one step more than
it has tokens done, and that a prefill has a step at all makes its reported count
the true one (`Coupling`).

### Locked result files and the decision of the campaign

The first part of `Judgement_proofs` is for any set of runners and any sequence of different
views (`BlindConstants`). A path is created exclusively, so the runner that created
the first one is alone with the rest. The invariant says it from both sides: a path
is absent, half written by the runner that is at it, or complete by a runner that
has passed it (`PathState`); what a runner has passed is complete and its own
(`RunnerState`).

The second part is for every plan that `--repetitions` can give and any outcome
of the arms (`DecisionConstants`). The invariant relates the loop, the results in
memory and the summary on disk: the repetitions run and those still to run are all
different (`RunsOnce`), all results but the last one are valid (`StopsAtInvalid`),
and a summary with a decision has the decision of the results it lists
(`SummarySound`). The number of repetitions with the dominant boundary is a maximum
over a finite set; `FiniteHasMax` gives it without induction from the
well-foundedness of strict inclusion.

### Plugin registry and profile ledger

For any finite set of processes, number of calls of `register_plugin`, of records and
of failing parts (`PluginAssumption`; no process is called "none"). The invariant adds
to `OwnShardsOnly` what holds of one process: hooks are named after a process that
exists and a call it has begun, so nothing inherited passes for its own (`Parentage`);
how far bus, native sink and pid are at each place of the registration, also after
calls that raised (`Registration`); what an observer has counted is what this process
has recorded, with what was there at the fork if the observer is not its own
(`Observations`); hooks that were not made yet or wait for reinitialization have no
shard here (`Unopened`), and those of the factory that opened one hold it until the
engine fails (`Held`, `FailureCommits`). A fork copies memory at any of these places,
which is why they are stated for every place and not only for a registered process.

The second part of `KVRecovery_proofs` is for every capacity, set of types and reasons
and number of sequence numbers (`LedgerAssumption`). `LedgerInv` states coverage
number by number instead of by sets, and adds that everything lies below the next
number and that no interval is empty: without it a new interval need not lie behind
the last. `DropStep` treats every loss, extending or opening an interval, `KeepStep`
every record taken, and `InvImpliesOnce` goes back to the sets. That the counts of an
interval add up would be an induction over the types if the sum were written as one.
`CountOf` is instead the size of the set of losses numbered by type, to which
`_drop_locked` adds one element (`OneMoreCounted`).

### The M0 lifecycle

For every group of roles in either arm (`RunAssumption`; `None` is no status),
where the run of TLC has one client before the worker's. `RunInv` ties the three
parties together. `AnsweredTaken`: a client that saw a status of 200 was answered
for a request the API took. `DoneCompleted`: for a survivor a stream that ends
with `[DONE]` has its completion in the chain, because only the duplicate client
aborts (`AbortsOfDuplicate`). `AttemptsCounted`: the aborts are those of its place,
and what was polled is no more than them. `HeldPolled` is what `ZombiesCounted`
needs: the group has ended when the polls begin, so no request of an answered
client becomes active after them, and one that is still held later was in the
state polled last; a request that the API had not begun to answer is left out.
`RunnerPlace` says what each phase of the runner implies, and
`ReportTrue` that the report is about the state the run has ended in, which
nothing changes any more. `ServiceStep`, `EndedStep`, `ContinueStep` and
`RunnerMoves` treat the steps by what they may do; each action is then a case of one.

### Only model-checked

- Liveness (`CloseReturns`, `WriterStops`, `RunnerEnds`, the liveness part of the
  refinement): fairness is out of the prover's reach.
- What a search, a sweep or a scorer computes (`ValidatorIsRight`,
  `ResultIsSound`) is an induction over data; `CaseBundle` is recursive as well.
- `CompleteEpisodeNormalizes`: the normalizer selects rows with higher-order
  operators, counts them and sorts them; what a sort returns is an induction.
- `LedgerIsTrue`: the model filters sequences (`SelectSeq`), about which the provers
  know nothing without induction.
- The properties of the violation runs, which are false.

## 5. Not modelled

- Offline analysis (`trace`, `causal_attribution`, `kv_recovery`, `legacy_trace`):
  arithmetic over one finished trace.
- M0 evaluation, public artifacts, `issue19_m0` beyond its scenario table,
  workloads, TraceLoom conversion, launcher, repository scripts, paper
  experiments: sequential format and file work without state across calls.
- Of the parts that are modelled: locks of objects that a fork copies;
  descriptor numbers and the in-memory list of profile records in the sink; the
  comparison methods and the reveal side of the attribution study; process
  discovery, device checks, manifests and latency statistics of the M0 runner;
  encoding, canonical JSON and byte limits; torn last lines of a killed writer,
  which make the reader raise.

## 6. Plan

What the runs check and no theorem states is in "Only model-checked". The next steps
would be:

1. `LedgerIsTrue` from a statement of the ledger by the rows of one resource, in the
   order in which they were observed, so that a proof needs no fact about filters.
2. The normalizer of `KVRecoveryProfile` likewise: what makes a complete episode
   acceptable, without the order in which its rows are sorted.
