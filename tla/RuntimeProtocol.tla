--------------------------- MODULE RuntimeProtocol ---------------------------
(***************************************************************************)
(* The builders and validators of runtime_protocol.py, as predicates that  *)
(* say which drafts a sink turns into records.                             *)
(*                                                                         *)
(* An identifier is a tuple of its parts.  A metadata value is tagged with *)
(* its type; a text is one of a few classes.  The texts that every literal *)
(* of the code belongs to, and the limits on encoded bytes, are left out.  *)
(***************************************************************************)
EXTENDS Integers, Sequences

CONSTANT UintMax     \* bound: stands for 2^32 - 1 and 2^64 - 1

ASSUME UintMaxAssumption == UintMax \in Nat \ {0}

Null == [type |-> "null", value |-> 0]
Uint(n) == [type |-> "int", value |-> n]
Bool(b) == [type |-> "bool", value |-> b]
Text(s) == [type |-> "text", value |-> s]

\* Texts that are no printable ASCII of at most 128 bytes, and the empty one.
Unprintable == "unprintable"
Overlong == "overlong"
Empty == ""

RecoveryMode == "issue2:kv-recovery-v1alpha1"
Modes == {"none", RecoveryMode}

-----------------------------------------------------------------------------
(* The frozen vocabulary: who owns which event in which scope.             *)

Owned(scope, component, names) == {<<scope, component, n>> : n \in names}

Ownership ==
    UNION {
      Owned("root_request", "frontend",
            {"received", "render_started", "render_done", "request_done", "cancelled",
             "error", "unsupported_mode", "cleanup_started", "cleanup_done"}),
      Owned("root_request", "tokenizer", {"tokenization_started", "tokenization_done"}),
      Owned("root_request", "engine_client", {"submitted"}),
      Owned("root_request", "output_processor", {"output_ready"}),
      Owned("engine_sample", "engine_core",
            {"requeued", "admission_started", "scheduled", "resumed", "prefill_started",
             "prefill_done", "decode_started", "decode_done", "preempted",
             "generation_done", "aborted", "cancelled", "error", "cleanup_started",
             "cleanup_done", "resource_acquired", "resource_transfer_pending",
             "resource_released", "resource_policy_retained", "resource_invalidated"}),
      Owned("engine_sample", "engine_client", {"queued"}),
      Owned("engine_sample", "output_processor", {"first_token", "output_batch_ready"}),
      Owned("engine_sample", "external_evidence",
            {"communication_started", "communication_done", "request_finished_observed",
             "request_preempted_observed", "request_kv_reclaimed_observed"}),
      Owned("response", "response",
            {"serialization_started", "serialization_done", "cancelled", "error",
             "cleanup_started", "cleanup_done"}),
      Owned("response", "transport", {"delivery_started", "delivery_done", "stream_done"})}

AbnormalTerminals == {"aborted", "cancelled", "error"}

SpanStartEvents ==
    {"render_started", "tokenization_started", "queued", "requeued", "admission_started",
     "prefill_started", "decode_started", "communication_started",
     "serialization_started", "delivery_started", "cleanup_started"}

SpanEndEvents ==
    {"render_done", "tokenization_done", "admission_started", "scheduled", "resumed",
     "prefill_done", "decode_done", "communication_done", "serialization_done",
     "delivery_done", "stream_done", "cleanup_done", "preempted"}

CommunicationEvents == {"communication_started", "communication_done"}

ChunkEvents == {"serialization_started", "serialization_done", "delivery_started",
                "delivery_done", "stream_done"}

\* The transition that the metadata of a resource event must name.
TransitionOf ==
    [resource_acquired |-> "acquire", resource_transfer_pending |-> "transfer_pending",
     resource_released |-> "release", resource_policy_retained |-> "policy_retain",
     resource_invalidated |-> "invalidate"]

NativeKeys ==
    [request_finished_observed |->
        {"runtime_request_id", "session_present", "prompt_tokens", "output_tokens",
         "sequence_tokens", "kv_blocks", "kv_reclaim_deferred", "finished_reason"},
     request_preempted_observed |->
        {"runtime_request_id", "session_present", "num_preemptions", "kv_blocks",
         "kv_reclaim_deferred"},
     request_kv_reclaimed_observed |->
        {"runtime_request_id", "session_present", "kv_blocks", "reclaim_path"}]

-----------------------------------------------------------------------------
(* Drafts.  Absent fields are the empty tuple.                             *)

Absent == <<>>
RootOf(trace) == <<trace, "r">>
EngineOf(trace, sample) == <<trace, "e", sample>>
ResponseOf(trace) == <<trace, "s">>

\* The identity that _validate_lifecycle_identity asks of a scope.
LifecycleOf(scope, trace, sample) ==
    CASE scope = "root_request" -> RootOf(trace)
      [] scope = "engine_sample" -> EngineOf(trace, sample)
      [] scope = "response" -> ResponseOf(trace)

ParentOf(scope, trace) == IF scope = "root_request" THEN Absent ELSE RootOf(trace)

-----------------------------------------------------------------------------
(* The validators                                                          *)

IsUint(v) == v.type = "int" /\ v.value \in 0..UintMax
OptionalUint(v) == v = Absent \/ (v # Absent /\ v[1] \in 0..UintMax)
IsText(v) == v.type = "text" /\ v.value # Empty
Has(m, key) == key \in DOMAIN m
HasUint(m, key) == Has(m, key) /\ IsUint(m[key])
HasText(m, key) == Has(m, key) /\ IsText(m[key])
Says(m, key, text) == Has(m, key) /\ m[key] = Text(text)
SaysOneOf(m, key, texts) == Has(m, key) /\ m[key] \in {Text(t) : t \in texts}

\* _validate_lifecycle_identity
ValidIdentity(d) ==
    /\ d.scope = "engine_sample" => d.sample # Absent
    /\ d.lifecycle = LifecycleOf(d.scope, d.trace,
                                 IF d.sample = Absent THEN 0 ELSE d.sample[1])
    /\ d.parent = ParentOf(d.scope, d.trace)

\* The index fields that belong to the scope of an engine.
ValidIndices(d) ==
    /\ \A v \in {d.epoch, d.sample, d.handoffIndex, d.chunk} : OptionalUint(v)
    /\ IF d.scope = "engine_sample"
       THEN d.epoch # Absent /\ d.sample # Absent
       ELSE d.epoch = Absent /\ d.sample = Absent

\* _validate_span_fields: a span is <<creator, number>>.  The closing spans are
\* sorted as texts; here they have one creator and one digit.
ValidSpans(d, process) ==
    /\ Len(d.closing) <= 16
    /\ \A i, j \in DOMAIN d.closing : i < j => d.closing[i][2] < d.closing[j][2]
    /\ d.start # Absent => d.start[1] = process
    /\ IF d.name \in AbnormalTerminals
       THEN d.start = Absent /\ d.end = Absent
       ELSE /\ d.closing = <<>>
            /\ (d.start # Absent) <=> d.name \in SpanStartEvents
            /\ (d.end # Absent) <=> d.name \in SpanEndEvents

\* _validate_handoff_and_chunk: a handoff is <<trace, index>>.
ValidHandoff(d) ==
    /\ CASE d.name \in {"output_batch_ready", "output_ready"} ->
                d.handoffIndex # Absent /\ d.handoff = <<d.trace>> \o d.handoffIndex
         [] d.name = "serialization_started" ->
                d.handoffIndex = Absent /\ d.handoff # Absent /\ d.handoff[1] = d.trace
         [] OTHER -> d.handoffIndex = Absent /\ d.handoff = Absent
    /\ IF d.name \in ChunkEvents
       THEN d.scope = "response" /\ d.chunk # Absent
       ELSE d.chunk = Absent

ForbiddenKeys == {"api_key", "authorization", "client_ip", "generated_text", "input_text",
                  "messages", "output_text", "prompt", "prompt_text", "raw_model_output",
                  "raw_output", "request_body", "token", "token_ids"}

\* _validate_metadata
ValidMetadata(m) ==
    /\ DOMAIN m \cap ForbiddenKeys = {}
    /\ \A key \in DOMAIN m :
          \/ m[key].type \in {"null", "bool"}
          \/ IsUint(m[key])
          \/ m[key].type = "text" /\ m[key].value \notin {Unprintable, Overlong}

ValidResource(d, m) ==
    /\ DOMAIN m = {"runtime_request_id", "resource_type", "resource_id",
                   "resource_transition", "resource_units", "worker_generation"}
    /\ m.resource_transition = Text(TransitionOf[d.name])
    /\ \A key \in {"runtime_request_id", "resource_type", "resource_id",
                   "worker_generation"} : IsText(m[key])
    /\ IsUint(m.resource_units) /\ m.resource_units.value >= 1

ValidNative(d, m) ==
    /\ DOMAIN m = NativeKeys[d.name]
    /\ IsText(m.runtime_request_id)
    /\ m.session_present.type = "bool"
    /\ \A key \in DOMAIN m \ {"runtime_request_id", "session_present",
                              "kv_reclaim_deferred", "finished_reason", "reclaim_path"} :
          IsUint(m[key])
    /\ Has(m, "kv_reclaim_deferred") => m.kv_reclaim_deferred.type = "bool"
    /\ d.name = "request_finished_observed" =>
          /\ m.sequence_tokens.value = m.prompt_tokens.value + m.output_tokens.value
          /\ IsText(m.finished_reason)
    /\ d.name = "request_kv_reclaimed_observed" =>
          SaysOneOf(m, "reclaim_path", {"immediate", "deferred"})

ValidReceived(m) ==
    /\ \A key \in {"sampling_n", "prompt_count"} : Has(m, key) /\ m[key] = Uint(1)
    /\ Says(m, "model_mode", "decoder_only")
    /\ Says(m, "frontend_stop_mode", "none")
    /\ Says(m, "communication_mode", "none")
    /\ SaysOneOf(m, "entry_mode", {"openai_http", "async_llm", "llm_engine"})
    /\ SaysOneOf(m, "input_mode", {"text", "pretokenized"})
    /\ SaysOneOf(m, "response_mode", {"streaming", "non_streaming", "none"})
    /\ Says(m, "entry_mode", "openai_http") <=> ~Says(m, "response_mode", "none")
    /\ \/ /\ Says(m, "kv_cache_mode", "local_homogeneous")
          /\ HasUint(m, "cache_block_size_tokens") /\ m.cache_block_size_tokens.value >= 1
       \/ /\ Says(m, "kv_cache_mode", "disabled")
          /\ Has(m, "cache_block_size_tokens") => m.cache_block_size_tokens = Null

UnsupportedReasons ==
    {"parallel_sampling", "beam_search", "pooling", "streaming_input", "cross_host",
     "response_boundary_uninstrumented", "communication_subtype_unfrozen",
     "zero_compute_prefix_hit", "kv_connector_enabled", "heterogeneous_kv_cache",
     "frontend_stop_string", "multimodal_input", "prompt_embeds",
     "encoder_decoder_model", "batched_prompts"}

CleanupComponent ==
    [root_request |-> "frontend_request", engine_sample |-> "engine_request",
     response |-> "response_stream"]

\* _validate_event_metadata: what the metadata of an event must say.
ValidEventMetadata(d, m) ==
    /\ d.name \in DOMAIN TransitionOf => ValidResource(d, m)
    /\ d.name \in DOMAIN NativeKeys => ValidNative(d, m)
    /\ (d.scope = "root_request" /\ d.name = "received") => ValidReceived(m)
    /\ d.name = "unsupported_mode" => SaysOneOf(m, "reason_code", UnsupportedReasons)
    /\ d.name \in {"cleanup_started", "cleanup_done"} =>
          Says(m, "cleanup_component", CleanupComponent[d.scope])
    /\ d.name \in {"scheduled", "resumed"} =>
          /\ \A key \in {"prompt_tokens_total", "prompt_tokens_cached",
                         "prompt_tokens_to_compute"} : HasUint(m, key)
          /\ m.prompt_tokens_total.value >= 1
          /\ m.prompt_tokens_cached.value < m.prompt_tokens_total.value
          /\ m.prompt_tokens_to_compute.value =
                m.prompt_tokens_total.value - m.prompt_tokens_cached.value
    /\ d.name \in {"prefill_done", "preempted"} =>
          /\ HasUint(m, "prompt_tokens_computed")
          /\ HasUint(m, "prefill_chunk_count") /\ m.prefill_chunk_count.value >= 1
    /\ d.name = "generation_done" =>
          HasUint(m, "generated_tokens_total") /\ m.generated_tokens_total.value >= 1

\* _validate_kv_recovery_communication_metadata; identifiers and constants of
\* the mapping are texts.
ValidCommunication(d, m) ==
    /\ DOMAIN m = {"operation", "direction", "transfer_id", "block_set_id",
                   "recovery_profile", "communication_mapping", "rank"}
                  \cup (IF d.name = "communication_done" THEN {"bytes_moved"} ELSE {})
    /\ Says(m, "operation", "h2d_restore") /\ Says(m, "direction", "h2d")
    /\ HasText(m, "transfer_id") /\ HasText(m, "block_set_id")
    /\ Says(m, "recovery_profile", "rlp.kv-recovery/v1alpha1")
    /\ Says(m, "communication_mapping", RecoveryMode)
    /\ m.rank = Uint(0)
    /\ d.name = "communication_done" => IsUint(m.bytes_moved) /\ m.bytes_moved.value >= 1

\* build_event_record: whether process builds a record of the draft.
BuildsEvent(d, process, mode) ==
    /\ <<d.scope, d.component, d.name>> \in Ownership
    /\ IF d.name \in CommunicationEvents THEN mode = RecoveryMode ELSE mode \in Modes
    /\ ValidIdentity(d) /\ ValidIndices(d)
    /\ ValidSpans(d, process) /\ ValidHandoff(d)
    /\ ValidMetadata(d.meta) /\ ValidEventMetadata(d, d.meta)
    /\ d.name \in CommunicationEvents => ValidCommunication(d, d.meta)

=============================================================================
