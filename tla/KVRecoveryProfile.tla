-------------------------- MODULE KVRecoveryProfile --------------------------
(***************************************************************************)
(* The rows of the KV recovery profile: which rows the wire builders of    *)
(* kv_recovery_profile_protocol accept, and which pairs of base and        *)
(* profile shards the normalizer of kv_recovery_runtime accepts as one     *)
(* recovery episode.                                                       *)
(*                                                                         *)
(* A shard is a sequence; the identity of a record is the pair of its      *)
(* process and its position.  A transfer context stands for the request    *)
(* fields, the episode and the canonical block set that the code derives   *)
(* from it.  Timestamps are left out: the stages of a chain are caused one *)
(* by the other and stamped by one monotonic clock.                        *)
(***************************************************************************)
EXTENDS Naturals, Sequences, FiniteSets, FiniteSetsExt, SequencesExt

CONSTANTS MaxRequeueObservations,  \* MAX_REQUEUE_OBSERVATIONS_PER_EPISODE
          Blocks,                  \* logical blocks of a transfer
          ChunkSize                \* rows of a chunk

ASSUME ProfileAssumption ==
    /\ MaxRequeueObservations \in Nat \ {0}
    /\ Blocks \in Nat \ {0}
    /\ ChunkSize \in Nat \ {0}

None == <<>>
Processes == {"engine", "worker"}
Lost == [type |-> "loss"]

UniqueStages == {"preempt", "restore_start", "restore_done", "scheduler_wakeup",
                 "admission", "first_prefill_or_decode"}
Stages == UniqueStages \cup {"requeue"}
BaseStages == UniqueStages \ {"scheduler_wakeup"}

-----------------------------------------------------------------------------
(* Builders and validators                                                 *)

\* A recovery_event row; its transfer is None only at the stage "preempt".
Recovery(context, stage, from, base, transfer) ==
    [type |-> "recovery_event", context |-> context, stage |-> stage,
     occurrence |-> 0, base |-> base, admission |-> None, from |-> from,
     transfer |-> transfer, reason |-> "none", kind |-> "none",
     bytes |-> stage \notin {"preempt", "restore_start"}]

\* _validate_recovery_fields
ValidRecovery(row) ==
    /\ row.stage \in Stages
    /\ IF row.stage = "requeue" THEN row.occurrence < MaxRequeueObservations
                                ELSE row.occurrence = 0
    /\ (row.base # None) = (row.stage \in BaseStages)
    /\ (row.from = None) = (row.stage = "preempt")
    /\ (row.admission # None) = (row.stage = "admission")
    /\ (row.transfer = None) = (row.stage = "preempt")
    /\ row.bytes = (row.stage \notin {"preempt", "restore_start"})
    /\ (row.reason # "none") = (row.stage = "requeue")
    /\ (row.kind # "none") = (row.stage = "first_prefill_or_decode")

\* A transfer_event row; result is "none" for submit, else "ok" or "cancelled".
Transfer(context, transfer, phase, result) ==
    [type |-> "transfer_event", context |-> context, transfer |-> transfer,
     phase |-> phase, result |-> result, bytes |-> result = "ok"]

\* _validate_transfer_fields: the transfer belongs to the writing process.
ValidTransfer(row, process) ==
    /\ row.transfer[1] = process
    /\ row.phase \in {"submit", "done"}
    /\ (row.result = "none") = (row.phase = "submit")
    /\ row.bytes = (row.result = "ok")

\* Chunks of n rows: the i-th holds ChunkSize of them, the last one the rest.
ChunkCount(n) == (n + ChunkSize - 1) \div ChunkSize

ChunkMembers(n, i) == {m \in 0..(n - 1) : m \div ChunkSize = i}

Chunk(type, context, n, i) ==
    [type |-> type, context |-> context, index |-> i, count |-> ChunkCount(n),
     total |-> n, members |-> ChunkMembers(n, i)]

\* _validate_chunk, _validate_block_fields and _validate_wait_fields, as far as the
\* adapters decide what they check.  The lists of blocks and of transfers are the
\* host's: a chunk of a set of more than 4096, or with members out of order or
\* repeated, is refused and ends its script like a record that a sink refuses,
\* which every script of KVRecovery may meet at every step.
ValidChunk(row) ==
    /\ row.index < row.count
    /\ row.total > 0
    /\ row.members # {}
    /\ Cardinality(row.members) <= ChunkSize

\* build_profile_data_record.  Request fields have no epoch exactly when they
\* have no episode, which a context guarantees.
ValidRow(row, process) ==
    CASE row.type = "recovery_event" -> ValidRecovery(row)
      [] row.type = "transfer_event" -> ValidTransfer(row, process)
      [] OTHER -> ValidChunk(row)

-----------------------------------------------------------------------------
(* Normalizer.  base and profile map a process to its shard; want holds    *)
(* the joins that the caller expects (ExpectedKVRecoveryEpisode).          *)

Present(shards) == UNION {{<<p, i>> : i \in DOMAIN shards[p]} : p \in Processes}

At(shards, x) == shards[x[1]][x[2]]

Select(shards, test(_)) == {x \in Present(shards) : test(At(shards, x))}

Only(shards, test(_)) == CHOOSE x \in Select(shards, test) : TRUE

HasName(row, name) == row.type = "event" /\ row.name = name

IsComm(row) == HasName(row, "communication_started") \/ HasName(row, "communication_done")

\* An event that the base shards hold under the expected identity.
IsThere(base, x, name, request, epoch) ==
    /\ x \in Present(base)
    /\ LET row == At(base, x)
       IN  HasName(row, name) /\ row.request = request /\ row.epoch = epoch

EdgesFrom(base, from, to, evidence) ==
    Select(base, LAMBDA row : row.type = "edge" /\ row.from = from
                                  /\ row.to = to /\ row.evidence = evidence)

\* normalize_h2d_recovery
NormalizesH2D(base, want) ==
    LET ofTrace == Select(base, LAMBDA row : IsComm(row) /\ row.request = want.request)
        Pair(name) == {x \in ofTrace : At(base, x).name = name}
        start == CHOOSE x \in Pair("communication_started") : TRUE
        done == CHOOSE x \in Pair("communication_done") : TRUE
        mapped == Select(base, LAMBDA row : row.type = "edge" /\ row.evidence = "h2d"
                                               /\ row.request = want.request)
    IN  /\ Select(base, LAMBDA row : row.type = "loss") = {}
        /\ IsThere(base, want.preempted, "preempted", want.request, want.epoch - 1)
        /\ IsThere(base, want.admission, "admission_started", want.request, want.epoch)
        /\ \A x \in ofTrace : At(base, x).transfer = want.transfer
        /\ Cardinality(Pair("communication_started")) = 1
        /\ Cardinality(Pair("communication_done")) = 1
        /\ \A x \in {start, done} : At(base, x).context = want.context
                                       /\ At(base, x).epoch = want.epoch
        /\ At(base, start).start = At(base, done).end
        /\ Cardinality(EdgesFrom(base, want.preempted, start, "h2d")) = 1
        /\ Cardinality(EdgesFrom(base, start, done, "program_order")) = 1
        /\ Cardinality(EdgesFrom(base, done, want.admission, "h2d")) = 1
        /\ Cardinality(mapped) = 2

\* The recovery rows of the episode with the given stage.
StageRows(profile, want, stage) ==
    Select(profile, LAMBDA row : row.type = "recovery_event" /\ row.stage = stage
                                    /\ row.context.request = want.request
                                    /\ row.context.epoch = want.epoch)

\* The chain of stages, in the order of a normalized episode.
Chain(profile, want) ==
    LET The(stage) == CHOOSE x \in StageRows(profile, want, stage) : TRUE
        requeues == SetToSortSeq(StageRows(profile, want, "requeue"), LAMBDA x, y :
                        At(profile, x).occurrence < At(profile, y).occurrence)
    IN  <<The("preempt"), The("restore_start"), The("restore_done"),
          The("scheduler_wakeup")>> \o requeues
            \o <<The("admission"), The("first_prefill_or_decode")>>

\* The predecessor links and transfer identity along the chain.
ChainLinked(profile, want) ==
    LET chain == Chain(profile, want)
    IN  \A i \in DOMAIN chain :
            LET row == At(profile, chain[i])
            IN  /\ row.from = IF i = 1 THEN None ELSE chain[i - 1]
                /\ i > 1 => row.transfer = want.transfer /\ row.context = want.context

\* The base events that the stages refer to.
ChainAssociated(base, profile, want) ==
    LET Row(stage) == At(profile, CHOOSE x \in StageRows(profile, want, stage) : TRUE)
        Comm(name) == Only(base, LAMBDA row : IsComm(row) /\ row.name = name
                                                 /\ row.transfer = want.transfer)
    IN  /\ Row("preempt").base = want.preempted
        /\ Row("restore_start").base = Comm("communication_started")
        /\ Row("restore_done").base = Comm("communication_done")
        /\ Row("admission").base = want.resumed
        /\ Row("admission").admission = want.admission
        /\ Row("first_prefill_or_decode").base = want.firstCompute
        /\ Row("first_prefill_or_decode").kind = want.kind
        /\ IsThere(base, want.resumed, "resumed", want.request, want.epoch)
        /\ IsThere(base, want.firstCompute, want.kind, want.request, want.epoch)

\* Submit and done of the transfer, and a complete block set.
TransferComplete(profile, want) ==
    LET phases == Select(profile, LAMBDA row : row.type = "transfer_event"
                                                  /\ row.transfer = want.transfer)
        chunks == Select(profile, LAMBDA row : row.type = "block_set_chunk"
                                                  /\ row.context = want.context)
        rows == {At(profile, x) : x \in chunks}
    IN  /\ Cardinality(phases) = 2
        /\ \A x, y \in phases : x[2] < y[2] =>
              At(profile, x).phase = "submit" /\ At(profile, y).phase = "done"
        /\ chunks # {}
        /\ {row.index : row \in rows} = 0..(Cardinality(chunks) - 1)
        /\ \A row \in rows :
              /\ row.count = Cardinality(chunks)
              /\ row.total = Cardinality(UNION {other.members : other \in rows})
        /\ \A row, other \in rows : row # other => row.members \cap other.members = {}

\* normalize_kv_recovery_episode.  The rosters, digests and summaries of the
\* shards are those of a drained sink; what is left of them is "no loss".
NormalizesEpisode(base, profile, want) ==
    LET requeues == StageRows(profile, want, "requeue")
    IN  /\ NormalizesH2D(base, want)
        /\ Select(profile, LAMBDA row : row.type = "loss") = {}
        /\ \A stage \in UniqueStages : Cardinality(StageRows(profile, want, stage)) = 1
        /\ {At(profile, x).occurrence : x \in requeues} = 0..(Cardinality(requeues) - 1)
        /\ ChainLinked(profile, want)
        /\ ChainAssociated(base, profile, want)
        /\ TransferComplete(profile, want)

=============================================================================
