----------------------------- MODULE KVRecovery -----------------------------
(***************************************************************************)
(* The two evidence adapters of the KV recovery profile: the scheduler     *)
(* adapter in the engine process and the worker adapter in the transfer    *)
(* process, with the contexts, receipts and compute sidecars that vLLM     *)
(* carries between them (external).                                        *)
(*                                                                         *)
(* A callback runs on one thread of its process and is one action.  What   *)
(* it writes is a script of base and profile records: a refusal by a sink  *)
(* or by the wire builder ends the script and leaves one loss in the       *)
(* profile shard.  The bridge is reduced to one base event per operation;  *)
(* LifecycleBridge has its detail.                                         *)
(***************************************************************************)
EXTENDS KVRecoveryProfile

CONSTANTS Requests,     \* runtime request ids
          MaxEpoch,     \* bound: preemptions of a request
          MaxTransfers, \* bound: transfers the worker submits
          MaxRefusals,  \* bound: failing steps (refused records, failed transfers)
          Plans         \* bound: sets of optional steps that occur in one behaviour

ASSUME RecoveryAssumption ==
    /\ IsFiniteSet(Requests)
    /\ {MaxEpoch, MaxTransfers, MaxRefusals} \subseteq Nat
    /\ \A plan \in Plans : plan \subseteq {"preserve", "migrate", "wait", "requeue",
                                            "requeue_again", "reset", "close", "repeat"}

VARIABLES
    host,       \* status of a request in the vLLM scheduler (external)
    epoch,      \* num_preemptions of a request (external)
    known,      \* requests with a base identity in the bridge
    issued,     \* base events of an episode that the bridge has recorded
    episodes,   \* _episodes of the scheduler adapter
    envelope,   \* transfer contexts on the way to the worker (external)
    inflight,   \* submitted transfers with their context (external)
    pending,    \* _pending of the worker adapter
    receipts,   \* receipts on the way to the engine (external)
    computes,   \* first-compute sidecars on the way to the worker (external)
    closed,     \* state of a process: "open", "closed" adapter, "committed" hooks
    base,       \* records in the base shard of a process
    profile,    \* record_seq -> row or loss, in the profile shard of a process
    refusals,   \* number of failing steps so far
    ahead,      \* optional steps that may still occur, each once
    made,       \* optional steps that have occurred
    attempts    \* number of transfer ids the worker has given out

hostVars == <<host, epoch>>
engineVars == <<known, issued, episodes>>
workerVars == <<inflight, pending, attempts>>
wireVars == <<envelope, receipts, computes>>
sinkVars == <<base, profile, refusals>>
planVars == <<ahead, made>>
vars == <<host, epoch, known, issued, episodes, envelope, inflight, pending, receipts,
          computes, closed, base, profile, refusals, ahead, made,
          attempts>>

Epochs == 1..MaxEpoch
NoEpisode == [at |-> "none"]
Kinds == {"prefill_started", "decode_started"}

Episodes == {k \in Requests \X Epochs : episodes[k] # NoEpisode}
EpisodesOf(r) == {k \in Episodes : k[1] = r}
\* Episodes whose profile chain has begun.
Begun == {k \in Episodes : episodes[k].preempt # None}

Lossless(p) == \A i \in DOMAIN profile[p] : profile[p][i] # Lost

-----------------------------------------------------------------------------
(* Scripts                                                                 *)

Event(name, r, e, context, transfer, start, end) ==
    [type |-> "event", name |-> name, request |-> r, epoch |-> e,
     context |-> context, transfer |-> transfer, start |-> start, end |-> end]

EngineEvent(name, r, e) == Event(name, r, e, None, None, 0, 0)

Edge(r, from, to, evidence) ==
    [type |-> "edge", request |-> r, from |-> from, to |-> to, evidence |-> evidence]

\* Identities of the n-th base or profile record of the running callback.
NthBase(p, n) == <<p, Len(base[p]) + n>>
NthRow(p, n) == <<p, Len(profile[p]) + n>>

\* A script: base records, then profile rows, then base records again.
Script(lead, rows, trail) == [lead |-> lead, rows |-> rows, trail |-> trail]

Steps(script) == Len(script.lead) + Len(script.rows) + Len(script.trail)

\* The number of steps of a script that can succeed.
Outcomes(p, script) ==
    {k \in 0..Steps(script) :
        /\ closed[p] # "committed"
        /\ \A i \in DOMAIN script.rows :
              Len(script.lead) + i <= k => ValidRow(script.rows[i], p)}

\* The row that comes after k steps.
AtRow(script, k) == {i \in DOMAIN script.rows : Len(script.lead) + i = k + 1}

\* A builder, not a sink, stopped the script after k steps.
Rejected(p, script, k) == \E i \in AtRow(script, k) : ~ValidRow(script.rows[i], p)

FirstOf(s, n) == SubSeq(s, 1, IF n < Len(s) THEN n ELSE Len(s))

\* The first k steps are written; the next one, if there is one, is lost.
Perform(p, script, k) ==
    LET failed == k < Steps(script)
        rows == FirstOf(script.rows, k - Len(script.lead))
        records == FirstOf(script.lead, k)
                       \o FirstOf(script.trail, k - Len(script.lead) - Len(script.rows))
        tail == IF failed THEN <<Lost>> ELSE <<>>
        baseTail == IF failed /\ AtRow(script, k) = {} THEN {<<Lost>>, <<>>} ELSE {<<>>}
        counted == failed /\ ~Rejected(p, script, k)
    IN  /\ counted => refusals < MaxRefusals
        /\ refusals' = IF counted THEN refusals + 1 ELSE refusals
        /\ profile' = [profile EXCEPT ![p] = @ \o rows \o tail]
        /\ \E more \in baseTail : base' = [base EXCEPT ![p] = @ \o records \o more]

\* profile.drop, n times.
Dropped(p, n) ==
    /\ profile' = IF closed[p] = "committed" THEN profile
                  ELSE [profile EXCEPT ![p] = @ \o [i \in 1..n |-> Lost]]
    /\ UNCHANGED base

Drop(p, n) == Dropped(p, n) /\ UNCHANGED refusals

\* A failing step that the adapter answers with drops.
Failing(p, n) ==
    /\ refusals < MaxRefusals
    /\ refusals' = refusals + 1
    /\ Dropped(p, n)

\* An optional step that this behaviour has planned: a callback that not every
\* request meets, or a delivery that is repeated.
Occurs(step) ==
    /\ step \in ahead
    /\ ahead' = ahead \ {step}
    /\ made' = made \cup {step}

-----------------------------------------------------------------------------
(* Scheduler adapter, engine process.  Its guard on _closed is an early    *)
(* return; vLLM goes on without evidence.                                  *)

EngineOpen == closed["engine"] = "open"

\* request_started
RequestStarted(r) ==
    /\ host[r] = "new"
    /\ host' = [host EXCEPT ![r] = "waiting"]
    /\ \/ /\ EngineOpen
          /\ \E k \in {0, 1} :
                /\ Perform("engine", Script(<<EngineEvent("queued", r, 0)>>, <<>>, <<>>), k)
                /\ known' = IF k = 1 THEN known \cup {r} ELSE known
       \/ ~EngineOpen /\ UNCHANGED <<known, sinkVars>>
    /\ UNCHANGED <<epoch, issued, episodes, workerVars, wireVars, closed, planVars>>

\* request_scheduled: the bridge's events are of no concern here, its
\* refusal leaves a loss.
RequestScheduled(r) ==
    /\ host[r] \in {"waiting", "preempted"}
    /\ host' = [host EXCEPT ![r] = "running"]
    /\ \/ EngineOpen /\ r \notin known /\ Drop("engine", 1)
       \/ EngineOpen /\ r \in known /\ Failing("engine", 1)
       \/ ~(EngineOpen /\ r \notin known) /\ UNCHANGED sinkVars
    /\ UNCHANGED <<epoch, engineVars, workerVars, wireVars, closed, planVars>>

\* A preemption the profile knows nothing of yet.
FreshEpisode(r, e) == [at |-> "preempted", preempt |-> None, context |-> None,
                       receipt |-> None, admission |-> FALSE, wakeup |-> None,
                       predecessor |-> None, occurrence |-> 0, admitted |-> None]

\* A mistaken variant: the older episodes of the request are dropped with their rows.
SupersededAll(r, e) ==
    [k \in DOMAIN episodes |->
        IF k = <<r, e>> THEN FreshEpisode(r, e)
        ELSE IF k \in EpisodesOf(r) THEN NoEpisode ELSE episodes[k]]

\* The new episode replaces those of the request without a profile row.
Superseded(r, e) ==
    [k \in DOMAIN episodes |->
        IF k = <<r, e>> THEN FreshEpisode(r, e)
        ELSE IF k \in EpisodesOf(r) \ Begun THEN NoEpisode ELSE episodes[k]]

\* request_preempted, for the epoch that begins.
RequestPreempted(r) ==
    LET e == epoch[r] + 1
    IN  /\ host[r] = "running" /\ epoch[r] < MaxEpoch
        /\ host' = [host EXCEPT ![r] = "preempted"]
        /\ epoch' = [epoch EXCEPT ![r] = e]
        /\ \/ /\ ~EngineOpen
              /\ UNCHANGED <<issued, episodes, sinkVars>>
           \/ /\ EngineOpen /\ r \notin known
              /\ Drop("engine", 1)
              /\ UNCHANGED <<issued, episodes>>
           \/ /\ EngineOpen /\ r \in known
              /\ \E k \in {0, 1} :
                    /\ Perform("engine",
                               Script(<<EngineEvent("preempted", r, e - 1)>>, <<>>, <<>>), k)
                    /\ IF k = 1
                       THEN /\ episodes' = Superseded(r, e)
                            /\ issued' = [issued EXCEPT ![<<r, e>>].preempted = NthBase("engine", 1)]
                       ELSE UNCHANGED <<issued, episodes>>
        /\ UNCHANGED <<known, workerVars, wireVars, closed, planVars>>

\* request_preempted again for an epoch that has begun: the episode is given
\* up, or, when it was given up before, starts anew.
PreemptedAgain(r) ==
    LET k == <<r, epoch[r]>>
    IN  /\ EngineOpen /\ host[r] = "preempted" /\ r \in known
        /\ Occurs("repeat")
        /\ issued[k].preempted # None
        /\ \/ /\ k \in Episodes
              /\ Drop("engine", 1)
              /\ episodes' = [episodes EXCEPT ![k] = NoEpisode]
           \/ /\ k \notin Episodes
              /\ episodes' = Superseded(r, epoch[r])
              /\ UNCHANGED sinkVars
        /\ UNCHANGED <<hostVars, known, issued, workerVars, wireVars, closed>>

BlockChunks(context) ==
    [i \in 1..ChunkCount(Blocks) |-> Chunk("block_set_chunk", context, Blocks, i - 1)]

\* prepare_transfer_context for a transfer outside of any episode.
PrepareUnassociated(r, op) ==
    LET context == [request |-> r, epoch |-> 0, op |-> op, preempted |-> None, preempt |-> None]
        script == Script(<<>>, BlockChunks(context), <<>>)
    IN  \E k \in Outcomes("engine", script) :
            /\ Perform("engine", script, k)
            /\ envelope' = IF k = Steps(script) THEN envelope \cup {context} ELSE envelope

\* The restore of the request's newest episode: the deferred "preempt" row,
\* then the block set.  A refused row ends the episode, a refused chunk does
\* not.
PrepareRestore(r, key) ==
    LET context == [request |-> r, epoch |-> key[2], op |-> "restore",
                    preempted |-> issued[key].preempted, preempt |-> NthRow("engine", 1)]
        row == Recovery([context EXCEPT !.preempt = None], "preempt", None,
                        issued[key].preempted, None)
        script == Script(<<>>, <<row>> \o BlockChunks(context), <<>>)
    IN  \E k \in Outcomes("engine", script) :
            /\ Perform("engine", script, k)
            /\ IF k = 0
               THEN episodes' = [episodes EXCEPT ![key] = NoEpisode]
               ELSE episodes' = [episodes EXCEPT
                        ![key].preempt = context.preempt,
                        ![key].context = IF k = Steps(script) THEN context ELSE None]
            /\ envelope' = IF k = Steps(script) THEN envelope \cup {context} ELSE envelope

\* prepare_transfer_context: a preempted request restores its blocks; a
\* running one preserves them, or migrates them between tiers.
PrepareContext(r, op) ==
    /\ \/ /\ op = "restore" /\ host[r] = "preempted"
          /\ host' = [host EXCEPT ![r] = "restoring"]
          /\ UNCHANGED planVars
       \/ /\ host[r] = "running"
          /\ Occurs(IF op = "restore" THEN "migrate" ELSE "preserve")
          /\ UNCHANGED host
    /\ \/ ~EngineOpen /\ UNCHANGED <<episodes, envelope, sinkVars>>
       \/ EngineOpen /\ r \notin known /\ Drop("engine", 1)
          /\ UNCHANGED <<episodes, envelope>>
       \/ /\ EngineOpen /\ r \in known
          /\ op = "preserve" \/ EpisodesOf(r) = {}
          /\ PrepareUnassociated(r, op)
          /\ UNCHANGED episodes
       \/ /\ EngineOpen /\ r \in known /\ op = "restore" /\ EpisodesOf(r) # {}
          /\ \E key \in EpisodesOf(r) :
                /\ \A k \in EpisodesOf(r) : k[2] <= key[2]
                /\ IF episodes[key].context # None
                   THEN Drop("engine", 1) /\ UNCHANGED <<episodes, envelope>>
                   ELSE PrepareRestore(r, key)
    /\ UNCHANGED <<epoch, known, issued, workerVars, receipts, computes, closed>>

\* Whether consume_h2d_receipts takes a receipt for the episode it names.
Accepts(receipt) ==
    LET key == <<receipt.context.request, receipt.context.epoch>>
    IN  /\ key \in Episodes
        /\ episodes[key].context = receipt.context
        /\ episodes[key].receipt = None

\* consume_h2d_receipts, one receipt; a delivery may be repeated.
ConsumeReceipt(receipt) ==
    LET key == <<receipt.context.request, receipt.context.epoch>>
    IN  /\ receipt \in receipts
        /\ \/ receipts' = receipts \ {receipt} /\ UNCHANGED planVars
           \/ Occurs("repeat") /\ UNCHANGED receipts
        /\ \/ ~EngineOpen /\ UNCHANGED <<episodes, sinkVars>>
           \/ /\ EngineOpen /\ Accepts(receipt)
              /\ episodes' = [episodes EXCEPT ![key].receipt = receipt]
              /\ UNCHANGED sinkVars
           \/ /\ EngineOpen /\ ~Accepts(receipt)
              /\ Drop("engine", 1)
              /\ UNCHANGED episodes
        /\ UNCHANGED <<hostVars, known, issued, workerVars, envelope, computes, closed>>

\* No transfer of the request is on its way: the scheduler promotes it.
Promotable(r) ==
    \A context \in envelope \cup {t[2] : t \in inflight} :
        context.request # r \/ context.op # "restore"

\* request_admission_started
AdmissionStarted(r) ==
    LET key == <<r, epoch[r]>>
        ready == EngineOpen /\ key \in Episodes
                     /\ episodes[key].receipt # None /\ ~episodes[key].admission
        receipt == episodes[key].receipt
        wakeup == Recovery(receipt.context, "scheduler_wakeup", receipt.row, None,
                           receipt.transfer)
        script == Script(<<EngineEvent("admission_started", r, epoch[r])>>, <<wakeup>>, <<>>)
    IN  /\ host[r] = "restoring" /\ Promotable(r)
        /\ host' = [host EXCEPT ![r] = "admitting"]
        /\ \/ ~ready /\ UNCHANGED <<issued, episodes, sinkVars>>
           \/ /\ ready
              /\ \E k \in Outcomes("engine", script) :
                    /\ Perform("engine", script, k)
                    /\ issued' = IF k = 0 THEN issued
                                 ELSE [issued EXCEPT ![key].admission = NthBase("engine", 1)]
                    /\ episodes' = IF k < 2 THEN episodes
                                   ELSE [episodes EXCEPT ![key].admission = TRUE,
                                            ![key].wakeup = NthRow("engine", 1),
                                            ![key].predecessor = NthRow("engine", 1)]
        /\ UNCHANGED <<epoch, known, workerVars, wireVars, closed, planVars>>

\* A mistaken variant: the chain goes on from the wakeup.
RequeuedFromWakeup(key) ==
    episodes' = [episodes EXCEPT ![key].occurrence = @ + 1]

\* What a written "requeue" row changes.
RequeueRecorded(key) ==
    episodes' = [episodes EXCEPT ![key].predecessor = NthRow("engine", 1),
                                 ![key].occurrence = @ + 1]

\* request_requeued
RequestRequeued(r) ==
    LET key == <<r, epoch[r]>>
        receipt == episodes[key].receipt
        row == [Recovery(receipt.context, "requeue", episodes[key].predecessor, None,
                         receipt.transfer)
                  EXCEPT !.occurrence = episodes[key].occurrence, !.reason = "token_budget"]
    IN  /\ host[r] = "admitting" /\ EngineOpen
        /\ Occurs(IF "requeue" \in made THEN "requeue_again" ELSE "requeue")
        /\ key \in Episodes /\ episodes[key].wakeup # None
        /\ episodes[key].admitted = None
        /\ \E k \in Outcomes("engine", Script(<<>>, <<row>>, <<>>)) :
              /\ Perform("engine", Script(<<>>, <<row>>, <<>>), k)
              /\ IF k = 1 THEN RequeueRecorded(key) ELSE UNCHANGED episodes
        /\ UNCHANGED <<hostVars, known, issued, workerVars, wireVars, closed>>

\* A mistaken variant: the "admission" row does not name the admission event.
AdmittedUnassociated(r, key, kind) ==
    LET receipt == episodes[key].receipt
    IN  Script(<<EngineEvent("resumed", r, key[2]),
                 Edge(r, receipt.done, issued[key].admission, "h2d")>>,
               <<Recovery(receipt.context, "admission", episodes[key].predecessor,
                          NthBase("engine", 1), receipt.transfer)>>,
               <<EngineEvent(kind, r, key[2])>>)

\* What request_admitted writes: the third H2D edge between resumed and the
\* "admission" row, then the base event of the first compute.
AdmittedScript(r, key, kind) ==
    LET receipt == episodes[key].receipt
    IN  Script(<<EngineEvent("resumed", r, key[2]),
                 Edge(r, receipt.done, issued[key].admission, "h2d")>>,
               <<[Recovery(receipt.context, "admission", episodes[key].predecessor,
                           NthBase("engine", 1), receipt.transfer)
                    EXCEPT !.admission = issued[key].admission]>>,
               <<EngineEvent(kind, r, key[2])>>)

\* request_admitted
RequestAdmitted(r, kind) ==
    LET key == <<r, epoch[r]>>
        receipt == episodes[key].receipt
        ready == EngineOpen /\ key \in Episodes /\ episodes[key].admission
                     /\ episodes[key].admitted = None
        script == AdmittedScript(r, key, kind)
        compute == [context |-> receipt.context, transfer |-> receipt.transfer, kind |-> kind,
                    admission |-> NthRow("engine", 1), started |-> NthBase("engine", 3)]
    IN  /\ host[r] = "admitting"
        /\ host' = [host EXCEPT ![r] = "running"]
        /\ \/ ~ready /\ UNCHANGED <<issued, episodes, computes, sinkVars>>
           \/ /\ ready
              /\ \E k \in Outcomes("engine", script) :
                    /\ Perform("engine", script, k)
                    /\ issued' = IF k < 4 THEN issued
                                 ELSE [issued EXCEPT ![key].resumed = NthBase("engine", 1),
                                                     ![key].firstCompute = NthBase("engine", 3)]
                    /\ episodes' = CASE k = 4 -> [episodes EXCEPT ![key] = NoEpisode]
                                     [] k = 3 -> [episodes EXCEPT ![key].admitted = NthRow("engine", 1)]
                                     [] OTHER -> episodes
                    /\ computes' = IF k = 4 THEN computes \cup {compute} ELSE computes
        /\ UNCHANGED <<epoch, known, workerVars, envelope, receipts, closed, planVars>>

\* request_terminal and reset: every begun episode among them is a loss.
Without(keys) ==
    [k \in DOMAIN episodes |-> IF k \in keys THEN NoEpisode ELSE episodes[k]]

Abandoned(keys) ==
    /\ episodes' = Without(keys)
    /\ Drop("engine", Cardinality(keys \cap Begun))

\* request_terminal.  The bridge's terminal is of no concern here; when it is
\* refused, as it is without an identity, there is another loss.
RequestTerminal(r) ==
    /\ host[r] \notin {"new", "finished"}
    /\ host' = [host EXCEPT ![r] = "finished"]
    /\ \/ r \in known /\ Abandoned(EpisodesOf(r))
       \/ /\ r \in known
          /\ Failing("engine", Cardinality(EpisodesOf(r) \cap Begun) + 1)
          /\ episodes' = Without(EpisodesOf(r))
       \/ r \notin known /\ Drop("engine", 1) /\ UNCHANGED episodes
    /\ known' = known \ {r}
    /\ UNCHANGED <<epoch, issued, workerVars, wireVars, closed, planVars>>

EngineReset ==
    /\ Occurs("reset") /\ EngineOpen /\ Episodes # {}
    /\ Abandoned(Episodes)
    /\ UNCHANGED <<hostVars, known, issued, workerVars, wireVars, closed>>

\* close: reset, then the hooks are closed and the shards committed.
EngineClose ==
    /\ Occurs("close") /\ EngineOpen
    /\ Abandoned(Episodes)
    /\ closed' = [closed EXCEPT !["engine"] = "committed"]
    /\ UNCHANGED <<hostVars, known, issued, workerVars, wireVars>>

-----------------------------------------------------------------------------
(* Worker adapter                                                          *)

WorkerOpen == closed["worker"] = "open"

\* The worker numbers its transfers, and the spans with them.
NextTransfer == <<"worker", attempts + 1>>

\* What transfer_submitted writes.
SubmitScript(t, context) ==
    LET started == NthBase("worker", 1)
        transfer == Transfer(context, t, "submit", "none")
        row == Recovery(context, "restore_start", context.preempt, started, t)
        start == Event("communication_started", context.request, context.epoch, context,
                       t, t[2], 0)
    IN  CASE context.op = "preserve" -> Script(<<>>, <<transfer>>, <<>>)
          [] context.op # "preserve" /\ context.epoch = 0 ->
                Script(<<start>>, <<transfer>>, <<>>)
          [] OTHER ->
                Script(<<start, Edge(context.request, context.preempted, started, "h2d")>>,
                       <<transfer, row>>, <<>>)

\* transfer_submitted.  The runtime tracks the transfer in any case.
TransferSubmitted(context) ==
    LET t == NextTransfer
        script == SubmitScript(t, context)
    IN  /\ context \in envelope /\ WorkerOpen /\ t[2] <= MaxTransfers
        /\ envelope' = envelope \ {context}
        /\ inflight' = inflight \cup {<<t, context>>}
        /\ attempts' = attempts + 1
        /\ \E k \in Outcomes("worker", script) :
              /\ Perform("worker", script, k)
              /\ pending' = IF k < Steps(script) THEN pending
                            ELSE pending \cup {[transfer |-> t, started |-> NthBase("worker", 1),
                                   row |-> IF context.epoch = 0 THEN None
                                           ELSE NthRow("worker", 2)]}
        /\ UNCHANGED <<hostVars, engineVars, receipts, computes, closed, planVars>>

\* transfer_not_submitted, and a worker that is closed: no record.
TransferNotSubmitted(context) ==
    /\ context \in envelope
    /\ envelope' = envelope \ {context}
    /\ UNCHANGED <<hostVars, engineVars, workerVars, receipts, computes, closed, sinkVars,
                   planVars>>

\* transfer_capacity_exhausted and evidence_failure: a loss and no evidence.
TransferUnobserved(context) ==
    /\ context \in envelope /\ WorkerOpen
    /\ envelope' = envelope \ {context}
    /\ Failing("worker", 1)
    /\ UNCHANGED <<hostVars, engineVars, workerVars, receipts, computes, closed, planVars>>

\* What a successful transfer_completed writes.
DoneScript(entry, context) ==
    LET t == entry.transfer
        transfer == Transfer(context, t, "done", "ok")
        comm == <<Event("communication_done", context.request, context.epoch, context,
                        t, 0, t[2]),
                  Edge(context.request, entry.started, NthBase("worker", 1), "program_order")>>
        row == Recovery(context, "restore_done", entry.row, NthBase("worker", 1), t)
    IN  CASE context.op = "preserve" -> Script(<<>>, <<transfer>>, <<>>)
          [] context.op # "preserve" /\ entry.row = None -> Script(comm, <<transfer>>, <<>>)
          [] OTHER -> Script(comm, <<transfer, row>>, <<>>)

Receipt(t, context) ==
    [transfer |-> t, context |-> context, done |-> NthBase("worker", 1),
     row |-> NthRow("worker", 2)]

\* transfer_completed.  A result that is not a success of a pending transfer
\* leaves a loss; only a restore with an episode returns a receipt.
TransferCompleted(t, context) ==
    LET entries == {p \in pending : p.transfer = t}
        entry == CHOOSE p \in entries : TRUE
        script == DoneScript(entry, context)
    IN  /\ <<t, context>> \in inflight /\ WorkerOpen
        /\ inflight' = inflight \ {<<t, context>>}
        /\ pending' = pending \ entries
        /\ \/ /\ entries = {}
              /\ Drop("worker", 1)
              /\ UNCHANGED receipts
           \/ entries # {} /\ Failing("worker", 1) /\ UNCHANGED receipts
           \/ /\ entries # {}
              /\ \E k \in Outcomes("worker", script) :
                    /\ Perform("worker", script, k)
                    /\ receipts' = IF k = Steps(script) /\ entry.row # None
                                   THEN receipts \cup {Receipt(t, context)} ELSE receipts
        /\ UNCHANGED <<hostVars, engineVars, envelope, computes, closed, attempts, planVars>>

\* transfer_completed for a transfer that a completion or an invalidation has
\* ended before, or that was never pending: a loss and no receipt.
CompletedAgain(t) ==
    /\ WorkerOpen /\ Occurs("repeat")
    /\ \A transfer \in inflight : transfer[1] # t
    /\ pending' = {p \in pending : p.transfer # t}
    /\ Drop("worker", 1)
    /\ UNCHANGED <<hostVars, engineVars, wireVars, closed, inflight, attempts>>

\* transfer_invalidated
TransferInvalidated(t, context) ==
    LET script == Script(<<>>, <<Transfer(context, t, "done", "cancelled")>>, <<>>)
    IN  /\ <<t, context>> \in inflight /\ WorkerOpen
        /\ inflight' = inflight \ {<<t, context>>}
        /\ pending' = {p \in pending : p.transfer # t}
        /\ \E k \in {0, 1} : Perform("worker", script, k)
        /\ UNCHANGED <<hostVars, engineVars, wireVars, closed, attempts, planVars>>

\* h2d_receipt_capacity_exhausted: the receipt is gone; the engine is told
\* with the next receipts and records a loss of its own.
ReceiptExhausted(receipt) ==
    /\ receipt \in receipts /\ refusals < MaxRefusals
    /\ refusals' = refusals + 1
    /\ receipts' = receipts \ {receipt}
    /\ profile' = [p \in Processes |->
                      IF closed[p] = "open" \/ <<p, closed[p]>> = <<"worker", "closed">>
                      THEN Append(profile[p], Lost) ELSE profile[p]]
    /\ UNCHANGED <<hostVars, engineVars, workerVars, envelope, computes, closed, base, planVars>>

\* wait_completed for the transfers in flight.
WaitCompleted ==
    LET n == Cardinality(inflight)
        chunks == [i \in 1..ChunkCount(n) |-> Chunk("wait_set_chunk", None, n, i - 1)]
        script == Script(<<>>, chunks, <<>>)
    IN  /\ Occurs("wait") /\ WorkerOpen /\ n > 0
        /\ \A i \in DOMAIN profile["worker"] : profile["worker"][i].type # "wait_set_chunk"
        /\ \E k \in Outcomes("worker", script) : Perform("worker", script, k)
        /\ UNCHANGED <<hostVars, engineVars, workerVars, wireVars, closed>>

\* first_compute, which does not look at _closed.
FirstCompute(compute) ==
    LET row == [Recovery(compute.context, "first_prefill_or_decode", compute.admission,
                         compute.started, compute.transfer) EXCEPT !.kind = compute.kind]
    IN  /\ compute \in computes
        /\ computes' = computes \ {compute}
        /\ \/ closed["worker"] = "committed" /\ UNCHANGED sinkVars
           \/ \E k \in Outcomes("worker", Script(<<>>, <<row>>, <<>>)) :
                 Perform("worker", Script(<<>>, <<row>>, <<>>), k)
        /\ UNCHANGED <<hostVars, engineVars, workerVars, envelope, receipts, closed, planVars>>

\* close: the open attempts are losses; evidence_disabled makes a shard that
\* looks complete a lossy one.
WorkerClose(disabled) ==
    /\ Occurs("close") /\ WorkerOpen
    /\ closed' = [closed EXCEPT !["worker"] = "closed"]
    /\ pending' = {}
    /\ inflight' = {}
    /\ Drop("worker", IF disabled /\ inflight = {} /\ Lossless("worker") THEN 1
                      ELSE Cardinality(inflight))
    /\ UNCHANGED <<hostVars, engineVars, wireVars, attempts>>

\* close_for_worker_failure commits without looking at the open attempts.
WorkerFailure(disabled) ==
    /\ Occurs("close") /\ WorkerOpen
    /\ closed' = [closed EXCEPT !["worker"] = "committed"]
    /\ pending' = {}
    /\ inflight' = {}
    /\ Drop("worker", IF disabled /\ Lossless("worker") THEN 1 ELSE 0)
    /\ UNCHANGED <<hostVars, engineVars, wireVars, attempts>>

-----------------------------------------------------------------------------
NoIssued == [preempted |-> None, admission |-> None, resumed |-> None, firstCompute |-> None]

Init ==
    /\ host = [r \in Requests |-> "new"]
    /\ epoch = [r \in Requests |-> 0]
    /\ known = {}
    /\ issued = [k \in Requests \X Epochs |-> NoIssued]
    /\ episodes = [k \in Requests \X Epochs |-> NoEpisode]
    /\ envelope = {} /\ inflight = {} /\ pending = {} /\ receipts = {} /\ computes = {}
    /\ closed = [p \in Processes |-> "open"]
    /\ base = [p \in Processes |-> <<>>]
    /\ profile = [p \in Processes |-> <<>>]
    /\ refusals = 0 /\ ahead \in Plans /\ made = {}
    /\ attempts = 0

EngineNext ==
    \/ EngineReset \/ EngineClose
    \/ \E receipt \in receipts : ConsumeReceipt(receipt)
    \/ \E r \in Requests :
          \/ RequestStarted(r) \/ RequestScheduled(r) \/ RequestPreempted(r)
          \/ PreemptedAgain(r) \/ AdmissionStarted(r) \/ RequestRequeued(r)
          \/ RequestTerminal(r)
          \/ \E op \in {"restore", "preserve"} : PrepareContext(r, op)
          \/ \E kind \in Kinds : RequestAdmitted(r, kind)

WorkerNext ==
    \/ WaitCompleted
    \/ \E disabled \in BOOLEAN : WorkerClose(disabled) \/ WorkerFailure(disabled)
    \/ \E context \in envelope : TransferSubmitted(context)
                                    \/ TransferNotSubmitted(context)
                                    \/ TransferUnobserved(context)
    \/ \E t \in inflight : TransferCompleted(t[1], t[2]) \/ TransferInvalidated(t[1], t[2])
    \/ \E i \in 1..attempts : CompletedAgain(<<"worker", i>>)
    \/ \E receipt \in receipts : ReceiptExhausted(receipt)
    \/ \E compute \in computes : FirstCompute(compute)

\* Every request is finished.
Rest == (\A r \in Requests : host[r] = "finished") /\ UNCHANGED vars

Next == EngineNext \/ WorkerNext \/ Rest

Spec == Init /\ [][Next]_vars

-----------------------------------------------------------------------------
(* Properties                                                              *)

TypeOK ==
    /\ host \in [Requests -> {"new", "waiting", "running", "preempted", "restoring",
                              "admitting", "finished"}]
    /\ epoch \in [Requests -> 0..MaxEpoch]
    /\ known \subseteq Requests
    /\ \A k \in Begun : episodes[k].preempt \in Present(profile)
    /\ \A entry \in pending : entry.row = None \/ entry.row \in Present(profile)
    /\ closed \in [Processes -> {"open", "closed", "committed"}]
    /\ refusals \in 0..MaxRefusals /\ ahead \cup made \in Plans /\ ahead \cap made = {}
    /\ attempts \in 0..MaxTransfers

\* The profile rows of a process with the given stage.
StageOf(p, stage) ==
    {row \in ToSet(profile[p]) : row.type = "recovery_event" /\ row.stage = stage}

\* The joins of the episode that a first-compute row completes.
Want(row) ==
    LET key == <<row.context.request, row.context.epoch>>
    IN  [request |-> key[1], epoch |-> key[2], transfer |-> row.transfer,
         context |-> row.context, kind |-> row.kind,
         preempted |-> issued[key].preempted, admission |-> issued[key].admission,
         resumed |-> issued[key].resumed, firstCompute |-> issued[key].firstCompute]

BaseLossless == \A p \in Processes : Lost \notin ToSet(base[p])

OnlyTransferOf(row) ==
    \A p \in Processes : \A item \in ToSet(base[p]) :
        IsComm(item) /\ item.request = row.context.request => item.transfer = row.transfer

\* An episode whose first compute was recorded, in shards without a loss, is
\* accepted by the normalizer: the chain of rows that two processes build from
\* receipts and sidecars has every link, association, edge and chunk.  It
\* must be the only restore of its trace, which the normalizer insists on
\* (kv_recovery_runtime.py:2506-2518).
CompleteEpisodeNormalizes ==
    \A row \in StageOf("worker", "first_prefill_or_decode") :
        BaseLossless /\ (\A p \in Processes : Lossless(p)) /\ OnlyTransferOf(row)
            => NormalizesEpisode(base, profile, Want(row))

\* An episode that has a "preempt" row is in progress, is complete, waits for
\* its sidecar to reach the worker, or has left a loss: no order of
\* preemptions, late or repeated receipts, refusals, terminal, reset and
\* close makes the shards look clean around a chain that breaks off.  The
\* exception is a worker that was committed because it fails.
EpisodesAccounted ==
    \A row \in StageOf("engine", "preempt") :
        LET OfEpisode(other) == other.context.request = row.context.request
                                    /\ other.context.epoch = row.context.epoch
        IN  \/ <<row.context.request, row.context.epoch>> \in Begun
            \/ \E compute \in computes : OfEpisode(compute)
            \/ \E first \in StageOf("worker", "first_prefill_or_decode") : OfEpisode(first)
            \/ \E p \in Processes : ~Lossless(p)
            \/ closed["worker"] = "committed"

\* As long as nothing fails, is repeated or is given up, and the host's lists of
\* blocks and transfers are in order and within their bounds, no shard has a loss:
\* every row that the adapters put together from the state of two processes
\* is one that the wire builder accepts; a second requeue may meet its bound.
FaultFreeIsLossless ==
    /\ refusals = 0 /\ made \cap {"repeat", "migrate", "reset", "requeue_again"} = {}
    /\ \A p \in Processes : closed[p] = "open"
    /\ \A r \in Requests : host[r] # "finished"
    => \A p \in Processes : Lossless(p)

StartedTransfers == {item \in ToSet(base["worker"]) : HasName(item, "communication_started")}

Ended(started) == \E item \in ToSet(base["worker"]) :
                      HasName(item, "communication_done") /\ item.end = started.start

Cancelled(started) == \E row \in ToSet(profile["worker"]) :
                          row.type = "transfer_event" /\ row.transfer = started.transfer
                              /\ row.result = "cancelled"

Running(started) == \E t \in inflight : t[1] = started.transfer

\* A communication span that was started ends, unless its transfer still runs
\* or was cancelled, in a worker that neither lost a record nor failed.
StartedSpansExplained ==
    \A started \in StartedTransfers :
        \/ Ended(started) \/ Running(started) \/ Cancelled(started)
        \/ ~Lossless("worker") \/ closed["worker"] = "committed"

\* The contract's rule: in a lossless shard every started span ends.
StartedSpansEnd ==
    \A started \in StartedTransfers :
        Ended(started) \/ Running(started) \/ ~Lossless("worker")
            \/ closed["worker"] # "open"

\* The transfers of a running request belong to no episode, as the comment
\* in prepare_transfer_context has it.
MigrationIsUnassociated ==
    \A context \in envelope : host[context.request] = "running" => context.epoch = 0

\* Whatever fails, is repeated or arrives late, the rows of the two processes
\* account for every episode and every span that was started.
NothingUnexplained == TypeOK /\ EpisodesAccounted /\ StartedSpansExplained
=============================================================================
