----------------------- MODULE LifecycleRecords_proofs -----------------------
(***************************************************************************)
(* That the records of the producers are faithful, for every prompt, every *)
(* number of preemptions and every text of the host.                       *)
(***************************************************************************)
EXTENDS LifecycleRecords, TLAPS

\* What the drafts need of the host and of the bridge: the counters are in
\* their ranges, an admission is never of the first epoch, and a prefill has
\* had at most one step more than it has done tokens.
HostType ==
    host \in [stage : {"new", "waiting", "running", "preempted", "admitting", "finished"},
              total : 0..MaxPrompt, done : Nat, work : Nat, steps : Nat, generated : 0..1]

StateType ==
    state \in [active : {"none", "prefill", "decode"}, computed : 0..MaxPrompt,
               chunks : 0..(MaxPrompt + 1), epoch : 0..MaxEpoch, queue : Nat, open : Nat]

Coupling ==
    /\ IF host.stage = "new" THEN host.done = 0 ELSE host.total >= 1
    /\ host.done <= host.total
    /\ host.stage = "running" => state.active # "none"
    /\ host.stage \in {"preempted", "admitting"} => state.epoch >= 1
    /\ host.stage = "running" /\ state.active = "prefill" =>
          state.chunks >= 1 /\ state.chunks <= 1 + host.done
    /\ transfer # Absent => Mode = RecoveryMode

RecordsInv ==
    /\ HostType /\ StateType /\ span \in Nat /\ Coupling
    /\ RefusedForHostValuesOnly /\ CountersFollowHost /\ ColdPrefillReportsWork

-----------------------------------------------------------------------------
(* The vocabulary                                                          *)

CoreNames == {"requeued", "admission_started", "scheduled", "resumed", "prefill_started",
              "prefill_done", "decode_started", "decode_done", "preempted",
              "generation_done", "aborted", "cancelled", "error", "resource_acquired",
              "resource_transfer_pending", "resource_released", "resource_policy_retained",
              "resource_invalidated"}

EvidenceNames == {"communication_started", "communication_done",
                  "request_finished_observed", "request_preempted_observed",
                  "request_kv_reclaimed_observed"}

\* The events of the producers have their owners.
LEMMA CoreOwned ==
    ASSUME NEW n \in CoreNames PROVE <<"engine_sample", "engine_core", n>> \in Ownership
<1> DEFINE S == Owned("engine_sample", "engine_core",
            {"requeued", "admission_started", "scheduled", "resumed", "prefill_started",
             "prefill_done", "decode_started", "decode_done", "preempted",
             "generation_done", "aborted", "cancelled", "error", "cleanup_started",
             "cleanup_done", "resource_acquired", "resource_transfer_pending",
             "resource_released", "resource_policy_retained", "resource_invalidated"})
<1>1. <<"engine_sample", "engine_core", n>> \in S
    BY DEF CoreNames, Owned
<1>2. S \subseteq Ownership
    <2> HIDE DEF S
    <2> QED  BY Zenon DEF Ownership, S
<1> QED  BY <1>1, <1>2

LEMMA ClientOwned == <<"engine_sample", "engine_client", "queued">> \in Ownership
<1> DEFINE S == Owned("engine_sample", "engine_client", {"queued"})
<1>1. <<"engine_sample", "engine_client", "queued">> \in S
    BY DEF Owned
<1>2. S \subseteq Ownership
    BY Zenon DEF Ownership
<1> QED  BY <1>1, <1>2

LEMMA EvidenceOwned ==
    ASSUME NEW n \in EvidenceNames
    PROVE  <<"engine_sample", "external_evidence", n>> \in Ownership
<1> DEFINE S == Owned("engine_sample", "external_evidence",
            {"communication_started", "communication_done", "request_finished_observed",
             "request_preempted_observed", "request_kv_reclaimed_observed"})
<1>1. <<"engine_sample", "external_evidence", n>> \in S
    BY DEF EvidenceNames, Owned
<1>2. S \subseteq Ownership
    BY Zenon DEF Ownership
<1> QED  BY <1>1, <1>2

LEMMA RootErrorOwned == <<"root_request", "frontend", "error">> \in Ownership
<1> DEFINE S == Owned("root_request", "frontend",
            {"received", "render_started", "render_done", "request_done", "cancelled",
             "error", "unsupported_mode", "cleanup_started", "cleanup_done"})
<1>1. <<"root_request", "frontend", "error">> \in S
    BY DEF Owned
<1>2. S \subseteq Ownership
    BY Zenon DEF Ownership
<1> QED  BY <1>1, <1>2

LEMMA Keys ==
    /\ DOMAIN TransitionOf = {"resource_acquired", "resource_transfer_pending",
           "resource_released", "resource_policy_retained", "resource_invalidated"}
    /\ DOMAIN NativeKeys = {"request_finished_observed", "request_preempted_observed",
           "request_kv_reclaimed_observed"}
BY DEF TransitionOf, NativeKeys

\* A span and an index are there.
LEMMA Present ==
    /\ \A n : Span(n) # Absent /\ Span(n)[1] = Process
    /\ \A n : <<n>> # Absent /\ <<n>>[1] = n
BY DEF Span, Absent

-----------------------------------------------------------------------------
(* Drafts                                                                  *)

LEMMA SampleFields ==
    ASSUME NEW component, NEW name, NEW epoch, NEW start, NEW end, NEW closing, NEW meta,
           NEW d, d = Draft("engine_sample", component, name, epoch, start, end, closing, meta)
    PROVE  /\ d.scope = "engine_sample" /\ d.component = component /\ d.name = name
           /\ d.trace = Trace /\ d.lifecycle = EngineOf(Trace, 0) /\ d.parent = RootOf(Trace)
           /\ d.epoch = epoch /\ d.start = start /\ d.end = end /\ d.closing = closing
           /\ d.sample = <<0>> /\ d.handoffIndex = Absent /\ d.handoff = Absent
           /\ d.chunk = Absent /\ d.meta = meta
BY DEF Draft, LifecycleOf, ParentOf

LEMMA RootFields ==
    ASSUME NEW component, NEW name, NEW start, NEW end, NEW closing, NEW meta, NEW d,
           d = Draft("root_request", component, name, Absent, start, end, closing, meta)
    PROVE  /\ d.scope = "root_request" /\ d.component = component /\ d.name = name
           /\ d.trace = Trace /\ d.lifecycle = RootOf(Trace) /\ d.parent = Absent
           /\ d.epoch = Absent /\ d.start = start /\ d.end = end /\ d.closing = closing
           /\ d.sample = Absent /\ d.handoffIndex = Absent /\ d.handoff = Absent
           /\ d.chunk = Absent /\ d.meta = meta
BY DEF Draft, LifecycleOf, ParentOf

\* The spans of a draft that closes none, and of one that ends its request.
LEMMA SpansOK ==
    ASSUME NEW d, d.closing = <<>>, d.name \notin AbnormalTerminals,
           d.start = Absent \/ (d.start # Absent /\ d.start[1] = Process),
           (d.start # Absent) <=> d.name \in SpanStartEvents,
           (d.end # Absent) <=> d.name \in SpanEndEvents
    PROVE  ValidSpans(d, Process)
<1>1. Len(d.closing) <= 16
    BY SMT
<1>2. DOMAIN d.closing = {}
    <2>1. DOMAIN << >> = {}
        OBVIOUS
    <2> QED  BY <2>1, Zenon
<1> QED  BY <1>1, <1>2, Zenon DEF ValidSpans

LEMMA SpansClose ==
    ASSUME NEW d, NEW s, d.closing = <<>> \/ d.closing = <<s>>,
           d.name \in AbnormalTerminals, d.start = Absent, d.end = Absent
    PROVE  ValidSpans(d, Process)
<1>1. Len(d.closing) <= 16 /\ DOMAIN d.closing \subseteq {1}
    <2>1. CASE d.closing = <<>>
        <3>1. Len(d.closing) <= 16
            BY <2>1, SMT
        <3>2. DOMAIN << >> = {}
            OBVIOUS
        <3>3. DOMAIN d.closing = {}
            BY <2>1, <3>2, Zenon
        <3> QED  BY <3>1, <3>3
    <2>2. CASE d.closing = <<s>>
        BY <2>2, SMT
    <2> QED  BY <2>1, <2>2
<1>3. \A i, j \in DOMAIN d.closing : ~(i < j)
    BY <1>1, SMT
<1> QED  BY <1>1, <1>3 DEF ValidSpans

LEMMA SampleBuilds ==
    ASSUME RecordsAssumption, UintMaxAssumption,
           NEW component, NEW name, NEW e \in 0..UintMax, NEW start, NEW end, NEW closing,
           NEW meta, NEW d,
           d = Draft("engine_sample", component, name, <<e>>, start, end, closing, meta),
           <<"engine_sample", component, name>> \in Ownership,
           name \notin ChunkEvents, name \notin {"output_batch_ready", "output_ready"},
           ValidSpans(d, Process), ValidMetadata(meta), ValidEventMetadata(d, meta),
           name \in CommunicationEvents => Mode = RecoveryMode /\ ValidCommunication(d, meta)
    PROVE  Builds(d)
<1>1. /\ d.scope = "engine_sample" /\ d.component = component /\ d.name = name
      /\ d.trace = Trace /\ d.lifecycle = EngineOf(Trace, 0) /\ d.parent = RootOf(Trace)
      /\ d.epoch = <<e>> /\ d.sample = <<0>> /\ d.handoffIndex = Absent
      /\ d.handoff = Absent /\ d.chunk = Absent /\ d.meta = meta
    BY SampleFields
<1>2. ValidIdentity(d)
    <2>1. d.sample # Absent /\ d.sample[1] = 0
        BY <1>1, Present
    <2>2. LifecycleOf("engine_sample", Trace, 0) = EngineOf(Trace, 0)
        BY DEF LifecycleOf
    <2>3. ParentOf("engine_sample", Trace) = RootOf(Trace)
        BY DEF ParentOf
    <2> QED  BY <1>1, <2>1, <2>2, <2>3 DEF ValidIdentity
<1>3. ValidIndices(d)
    <2>1. OptionalUint(d.epoch) /\ d.epoch # Absent
        <3>1. d.epoch # Absent /\ d.epoch[1] = e
            BY <1>1, Present
        <3> QED  BY <3>1 DEF OptionalUint
    <2>2. OptionalUint(d.sample) /\ d.sample # Absent
        <3>1. d.sample # Absent /\ d.sample[1] = 0
            BY <1>1, Present
        <3>2. 0 \in 0..UintMax
            BY DEF UintMaxAssumption
        <3> QED  BY <3>1, <3>2 DEF OptionalUint
    <2>3. OptionalUint(d.handoffIndex) /\ OptionalUint(d.chunk)
        BY <1>1 DEF OptionalUint
    <2> QED  BY <1>1, <2>1, <2>2, <2>3, Zenon DEF ValidIndices
<1>4. ValidHandoff(d)
    <2>1. name # "serialization_started"
        BY DEF ChunkEvents
    <2> QED  BY <1>1, <2>1 DEF ValidHandoff
<1>5. IF d.name \in CommunicationEvents THEN Mode = RecoveryMode ELSE Mode \in Modes
    BY <1>1 DEF RecordsAssumption
<1> QED  BY <1>1, <1>2, <1>3, <1>4, <1>5, Zenon DEF Builds, BuildsEvent
-----------------------------------------------------------------------------
(* Metadata                                                                *)

PlainNames == {"queued", "requeued", "admission_started", "prefill_started",
               "decode_started", "decode_done", "communication_started",
               "communication_done", "aborted", "cancelled", "error"}

\* These events may say anything.
LEMMA PlainMeta ==
    ASSUME NEW d, NEW m, d.name \in PlainNames PROVE ValidEventMetadata(d, m)
<1>1. d.name \notin DOMAIN TransitionOf /\ d.name \notin DOMAIN NativeKeys
    BY Keys DEF PlainNames
<1>2. /\ d.name # "received" /\ d.name # "unsupported_mode"
      /\ d.name \notin {"cleanup_started", "cleanup_done"}
      /\ d.name \notin {"scheduled", "resumed"}
      /\ d.name \notin {"prefill_done", "preempted"} /\ d.name # "generation_done"
    BY DEF PlainNames
<1> QED  BY <1>1, <1>2, Zenon DEF ValidEventMetadata

LEMMA NoMetaValid == ValidMetadata(NoMeta)
BY DEF ValidMetadata, NoMeta

\* The values that a record takes.
LEMMA UintFits ==
    ASSUME NEW n \in 0..UintMax PROVE IsUint(Uint(n)) /\ Uint(n).value = n
BY DEF IsUint, Uint

LEMMA TextFits ==
    ASSUME NEW s
    PROVE  /\ Text(s).type = "text" /\ Text(s).value = s
           /\ s # Empty => IsText(Text(s))
BY DEF IsText, Text

\* A text that every text field takes.
GoodText(s) ==
    /\ IsText(Text(s)) /\ Text(s).type = "text" /\ Text(s).value = s
    /\ Text(s).value \notin {Unprintable, Overlong}

LEMMA GoodTexts ==
    ASSUME NEW s, s \notin {Unprintable, Overlong, Empty} PROVE GoodText(s)
BY TextFits, Zenon DEF GoodText

LEMMA ScheduledMeta ==
    ASSUME RecordsAssumption, UintMaxAssumption, NEW d, d.name \in {"scheduled", "resumed"},
           NEW total \in 1..MaxPrompt, NEW c \in 0..(total - 1)
    PROVE  ValidMetadata(Counters(total, c)) /\ ValidEventMetadata(d, Counters(total, c))
<1> DEFINE m == Counters(total, c)
<1>0. total \in 0..UintMax /\ c \in 0..UintMax /\ total - c \in 0..UintMax
    BY DEF RecordsAssumption, UintMaxAssumption
<1>1. /\ DOMAIN m = {"prompt_tokens_total", "prompt_tokens_cached",
                     "prompt_tokens_to_compute"}
      /\ m.prompt_tokens_total = Uint(total) /\ m.prompt_tokens_cached = Uint(c)
      /\ m.prompt_tokens_to_compute = Uint(total - c)
    BY DEF Counters
<1> HIDE DEF m
<1>2. \A k \in DOMAIN m : IsUint(m[k])
    BY <1>0, <1>1, UintFits
<1>3. ValidMetadata(m)
    <2>1. DOMAIN m \cap ForbiddenKeys = {}
        BY <1>1 DEF ForbiddenKeys
    <2> QED  BY <1>2, <2>1, Zenon DEF ValidMetadata
<1>4. \A k \in {"prompt_tokens_total", "prompt_tokens_cached",
                "prompt_tokens_to_compute"} : HasUint(m, k)
    BY <1>1, <1>2, Zenon DEF HasUint, Has
<1>5. /\ m.prompt_tokens_total.value = total /\ m.prompt_tokens_cached.value = c
      /\ m.prompt_tokens_to_compute.value = total - c
    BY <1>0, <1>1, UintFits
<1>6. /\ m.prompt_tokens_total.value >= 1
      /\ m.prompt_tokens_cached.value < m.prompt_tokens_total.value
      /\ m.prompt_tokens_to_compute.value =
            m.prompt_tokens_total.value - m.prompt_tokens_cached.value
    BY <1>5 DEF RecordsAssumption
<1>7. d.name \notin DOMAIN TransitionOf /\ d.name \notin DOMAIN NativeKeys
    BY Keys
<1>8. /\ d.name # "received" /\ d.name # "unsupported_mode"
      /\ d.name \notin {"cleanup_started", "cleanup_done"}
      /\ d.name \notin {"prefill_done", "preempted"} /\ d.name # "generation_done"
    OBVIOUS
<1>9. ValidEventMetadata(d, m)
    BY <1>4, <1>6, <1>7, <1>8, Zenon DEF ValidEventMetadata
<1> QED  BY <1>3, <1>9 DEF m

LEMMA ClampedInside ==
    ASSUME NEW total \in Nat, total >= 1, NEW cached \in Nat
    PROVE  Clamped(cached, total) \in 0..(total - 1)
BY DEF Clamped

LEMMA PhaseMetaValid ==
    ASSUME RecordsAssumption, UintMaxAssumption, StateType,
           NEW d, d.name \in {"prefill_done", "preempted"}
    PROVE  ValidMetadata(PhaseMeta) /\ ValidEventMetadata(d, PhaseMeta)
<1> DEFINE m == PhaseMeta
<1>0. /\ state.computed \in 0..UintMax /\ Chunks \in 0..UintMax /\ Chunks >= 1
    BY DEF RecordsAssumption, UintMaxAssumption, StateType, Chunks
<1>1. /\ DOMAIN m = {"prompt_tokens_computed", "prefill_chunk_count"}
      /\ m.prompt_tokens_computed = Uint(state.computed)
      /\ m.prefill_chunk_count = Uint(Chunks)
    BY DEF PhaseMeta
<1> HIDE DEF m
<1>2. \A k \in DOMAIN m : IsUint(m[k])
    BY <1>0, <1>1, UintFits
<1>3. ValidMetadata(m)
    <2>1. DOMAIN m \cap ForbiddenKeys = {}
        BY <1>1 DEF ForbiddenKeys
    <2> QED  BY <1>2, <2>1, Zenon DEF ValidMetadata
<1>4. HasUint(m, "prompt_tokens_computed") /\ HasUint(m, "prefill_chunk_count")
    BY <1>1, <1>2 DEF HasUint, Has
<1>5. m.prefill_chunk_count.value >= 1
    BY <1>0, <1>1, UintFits
<1>7. d.name \notin DOMAIN TransitionOf /\ d.name \notin DOMAIN NativeKeys
    BY Keys
<1>8. /\ d.name # "received" /\ d.name # "unsupported_mode"
      /\ d.name \notin {"cleanup_started", "cleanup_done"}
      /\ d.name \notin {"scheduled", "resumed"} /\ d.name # "generation_done"
    OBVIOUS
<1>9. ValidEventMetadata(d, m)
    BY <1>4, <1>5, <1>7, <1>8, Zenon DEF ValidEventMetadata
<1> QED  BY <1>3, <1>9 DEF m

\* The metadata of an end of the generation.
EndMeta(generated) ==
    [terminal_cause |-> Text("complete"), generated_tokens_total |-> Uint(generated)]

LEMMA EndMetaValid ==
    ASSUME RecordsAssumption, UintMaxAssumption, NEW d, d.name = "generation_done",
           NEW g \in 1..2
    PROVE  ValidMetadata(EndMeta(g)) /\ ValidEventMetadata(d, EndMeta(g))
<1> DEFINE m == EndMeta(g)
<1>0. g \in 0..UintMax
    BY DEF RecordsAssumption, UintMaxAssumption
<1>1. /\ DOMAIN m = {"terminal_cause", "generated_tokens_total"}
      /\ m.terminal_cause = Text("complete") /\ m.generated_tokens_total = Uint(g)
    BY DEF EndMeta
<1> HIDE DEF m
<1>2. IsUint(m.generated_tokens_total) /\ m.generated_tokens_total.value >= 1
    BY <1>0, <1>1, UintFits
<1>3. /\ m.terminal_cause.type = "text"
      /\ m.terminal_cause.value \notin {Unprintable, Overlong}
    BY <1>1, TextFits DEF Unprintable, Overlong
<1>4. ValidMetadata(m)
    <2>1. DOMAIN m \cap ForbiddenKeys = {}
        BY <1>1 DEF ForbiddenKeys
    <2>2. \A k \in DOMAIN m : IsUint(m[k])
             \/ (m[k].type = "text" /\ m[k].value \notin {Unprintable, Overlong})
        BY <1>1, <1>2, <1>3
    <2> QED  BY <2>1, <2>2, Zenon DEF ValidMetadata
<1>5. HasUint(m, "generated_tokens_total")
    BY <1>1, <1>2 DEF HasUint, Has
<1>7. d.name \notin DOMAIN TransitionOf /\ d.name \notin DOMAIN NativeKeys
    BY Keys
<1>8. /\ d.name # "received" /\ d.name # "unsupported_mode"
      /\ d.name \notin {"cleanup_started", "cleanup_done"}
      /\ d.name \notin {"scheduled", "resumed"} /\ d.name \notin {"prefill_done", "preempted"}
    OBVIOUS
<1>9. ValidEventMetadata(d, m)
    BY <1>2, <1>5, <1>7, <1>8, Zenon DEF ValidEventMetadata
<1> QED  BY <1>4, <1>9 DEF m
\* The metadata of a resource event is as its event asks, whatever the host
\* calls the resource, unless that is no bounded printable text.
ResourceMeta(name, id, units) ==
    [runtime_request_id |-> Text("request"), resource_type |-> Text("kv"),
     resource_id |-> Text(id), resource_units |-> Uint(units),
     resource_transition |-> Text(TransitionOf[name]),
     worker_generation |-> Text("generation")]

LEMMA TransitionTexts ==
    ASSUME NEW name \in DOMAIN TransitionOf
    PROVE  TransitionOf[name] \notin {Unprintable, Overlong}
<1>1. /\ TransitionOf["resource_acquired"] = "acquire"
      /\ TransitionOf["resource_transfer_pending"] = "transfer_pending"
      /\ TransitionOf["resource_released"] = "release"
      /\ TransitionOf["resource_policy_retained"] = "policy_retain"
      /\ TransitionOf["resource_invalidated"] = "invalidate"
    BY DEF TransitionOf
<1> QED  BY <1>1, Keys DEF Unprintable, Overlong

LEMMA ResourceMetaValid ==
    ASSUME UintMaxAssumption, NEW d, d.name \in DOMAIN TransitionOf,
           NEW id, id \notin {Unprintable, Overlong, Empty}
    PROVE  /\ ValidMetadata(ResourceMeta(d.name, id, 1))
           /\ ValidEventMetadata(d, ResourceMeta(d.name, id, 1))
<1> DEFINE m == ResourceMeta(d.name, id, 1)
<1>1. /\ DOMAIN m = {"runtime_request_id", "resource_type", "resource_id",
                     "resource_transition", "resource_units", "worker_generation"}
      /\ m.runtime_request_id = Text("request") /\ m.resource_type = Text("kv")
      /\ m.resource_id = Text(id) /\ m.resource_units = Uint(1)
      /\ m.resource_transition = Text(TransitionOf[d.name])
      /\ m.worker_generation = Text("generation")
    BY DEF ResourceMeta
<1> HIDE DEF m
<1>2. IsUint(m.resource_units) /\ m.resource_units.value >= 1
    BY <1>1, UintFits DEF UintMaxAssumption
<1>3. \A k \in {"runtime_request_id", "resource_type", "resource_id", "worker_generation"} :
         /\ IsText(m[k]) /\ m[k].type = "text"
         /\ m[k].value \notin {Unprintable, Overlong}
    <2>1. GoodText("request") /\ GoodText("kv") /\ GoodText("generation")
        BY GoodTexts DEF Unprintable, Overlong, Empty
    <2>2. GoodText(id)
        BY GoodTexts, Zenon
    <2>3. \A k \in {"runtime_request_id", "resource_type", "resource_id",
                    "worker_generation"} :
             m[k] \in {Text("request"), Text("kv"), Text(id), Text("generation")}
        BY <1>1
    <2> QED  BY <2>1, <2>2, <2>3, Zenon DEF GoodText
<1>4. /\ m.resource_transition.type = "text"
      /\ m.resource_transition.value \notin {Unprintable, Overlong}
    BY <1>1, TextFits, TransitionTexts
<1>5. ValidMetadata(m)
    <2>1. DOMAIN m \cap ForbiddenKeys = {}
        BY <1>1 DEF ForbiddenKeys
    <2>2. \A k \in DOMAIN m : IsUint(m[k])
             \/ (m[k].type = "text" /\ m[k].value \notin {Unprintable, Overlong})
        BY <1>1, <1>2, <1>3, <1>4
    <2> QED  BY <2>1, <2>2, Zenon DEF ValidMetadata
<1>6. ValidResource(d, m)
    BY <1>1, <1>2, <1>3, Zenon DEF ValidResource
<1>7. d.name \notin DOMAIN NativeKeys
    BY Keys
<1>8. /\ d.name # "received" /\ d.name # "unsupported_mode"
      /\ d.name \notin {"cleanup_started", "cleanup_done"}
      /\ d.name \notin {"scheduled", "resumed"} /\ d.name \notin {"prefill_done", "preempted"}
      /\ d.name # "generation_done"
    BY Keys
<1>9. ValidEventMetadata(d, m)
    BY <1>6, <1>7, <1>8, Zenon DEF ValidEventMetadata
<1> QED  BY <1>5, <1>9 DEF m

\* The metadata of a native event.
NativeMeta(name, id, path) ==
    [k \in NativeKeys[name] |->
        CASE k = "runtime_request_id" -> Text(id)
          [] k \in {"session_present", "kv_reclaim_deferred"} -> Bool(TRUE)
          [] k = "finished_reason" -> Text("stop")
          [] k = "reclaim_path" -> Text(path)
          [] k = "sequence_tokens" -> Uint(host.total + host.generated)
          [] k = "prompt_tokens" -> Uint(host.total)
          [] k = "output_tokens" -> Uint(host.generated)
          [] OTHER -> Uint(0)]

LEMMA NativeKeysOf ==
    /\ NativeKeys["request_finished_observed"] =
        {"runtime_request_id", "session_present", "prompt_tokens", "output_tokens",
         "sequence_tokens", "kv_blocks", "kv_reclaim_deferred", "finished_reason"}
    /\ NativeKeys["request_preempted_observed"] =
        {"runtime_request_id", "session_present", "num_preemptions", "kv_blocks",
         "kv_reclaim_deferred"}
    /\ NativeKeys["request_kv_reclaimed_observed"] =
        {"runtime_request_id", "session_present", "kv_blocks", "reclaim_path"}
BY DEF NativeKeys

LEMMA NativeMetaValid ==
    ASSUME RecordsAssumption, UintMaxAssumption, HostType,
           NEW d, d.name \in DOMAIN NativeKeys,
           NEW id, id \notin {Unprintable, Overlong, Empty},
           NEW path \in {"immediate", "deferred"}
    PROVE  /\ ValidMetadata(NativeMeta(d.name, id, path))
           /\ ValidEventMetadata(d, NativeMeta(d.name, id, path))
<1> DEFINE m == NativeMeta(d.name, id, path)
<1>1. /\ DOMAIN m = NativeKeys[d.name]
      /\ \A k \in NativeKeys[d.name] :
           /\ k = "runtime_request_id" => m[k] = Text(id)
           /\ k \in {"session_present", "kv_reclaim_deferred"} => m[k] = Bool(TRUE)
           /\ k = "finished_reason" => m[k] = Text("stop")
           /\ k = "reclaim_path" => m[k] = Text(path)
           /\ k = "sequence_tokens" => m[k] = Uint(host.total + host.generated)
           /\ k = "prompt_tokens" => m[k] = Uint(host.total)
           /\ k = "output_tokens" => m[k] = Uint(host.generated)
           /\ k \in {"kv_blocks", "num_preemptions"} => m[k] = Uint(0)
    BY DEF NativeMeta
<1> HIDE DEF m
<1>2. /\ GoodText(id) /\ GoodText("stop") /\ GoodText(path)
    <2>1. GoodText(id)
        BY GoodTexts, Zenon
    <2>2. GoodText("stop")
        BY GoodTexts DEF Unprintable, Overlong, Empty
    <2>3. GoodText(path)
        BY GoodTexts DEF Unprintable, Overlong, Empty
    <2> QED  BY <2>1, <2>2, <2>3
<1>3. /\ host.total + host.generated \in 0..UintMax
      /\ host.total \in 0..UintMax /\ host.generated \in 0..UintMax /\ 0 \in 0..UintMax
    BY DEF RecordsAssumption, UintMaxAssumption, HostType
<1>4. /\ IsUint(Uint(host.total + host.generated))
      /\ Uint(host.total + host.generated).value = host.total + host.generated
      /\ IsUint(Uint(host.total)) /\ Uint(host.total).value = host.total
      /\ IsUint(Uint(host.generated)) /\ Uint(host.generated).value = host.generated
      /\ IsUint(Uint(0))
    BY <1>3, UintFits
<1>5. Bool(TRUE).type = "bool"
    BY DEF Bool
<1>6. NativeKeys[d.name] \subseteq
         {"runtime_request_id", "session_present", "prompt_tokens", "output_tokens",
          "sequence_tokens", "kv_blocks", "kv_reclaim_deferred", "finished_reason",
          "num_preemptions", "reclaim_path"}
    BY Keys, NativeKeysOf
<1>7. /\ "runtime_request_id" \in DOMAIN m /\ "session_present" \in DOMAIN m
      /\ d.name = "request_finished_observed" =>
            /\ "sequence_tokens" \in DOMAIN m /\ "prompt_tokens" \in DOMAIN m
            /\ "output_tokens" \in DOMAIN m /\ "finished_reason" \in DOMAIN m
      /\ d.name = "request_kv_reclaimed_observed" => "reclaim_path" \in DOMAIN m
    BY <1>1, Keys, NativeKeysOf
<1>8. \A k \in DOMAIN m :
         \/ IsUint(m[k]) /\ k \notin {"runtime_request_id", "session_present",
                              "kv_reclaim_deferred", "finished_reason", "reclaim_path"}
         \/ m[k] = Bool(TRUE) /\ k \in {"session_present", "kv_reclaim_deferred"}
         \/ m[k] \in {Text(id), Text("stop"), Text(path)}
               /\ k \in {"runtime_request_id", "finished_reason", "reclaim_path"}
    BY <1>1, <1>4, <1>6
<1>9. ValidMetadata(m)
    <2>1. DOMAIN m \cap ForbiddenKeys = {}
        BY <1>1, <1>6 DEF ForbiddenKeys
    <2>2. \A k \in DOMAIN m : \/ m[k].type = "bool" \/ IsUint(m[k])
             \/ (m[k].type = "text" /\ m[k].value \notin {Unprintable, Overlong})
        BY <1>2, <1>5, <1>8, Zenon DEF GoodText
    <2> QED  BY <2>1, <2>2, Zenon DEF ValidMetadata
<1>10. ValidNative(d, m)
    <2>1. IsText(m.runtime_request_id) /\ m.session_present.type = "bool"
        BY <1>1, <1>2, <1>5, <1>7 DEF GoodText
    <2>2. \A k \in DOMAIN m \ {"runtime_request_id", "session_present",
                              "kv_reclaim_deferred", "finished_reason", "reclaim_path"} :
             IsUint(m[k])
        BY <1>8, Zenon
    <2>3. Has(m, "kv_reclaim_deferred") => m.kv_reclaim_deferred.type = "bool"
        BY <1>1, <1>5 DEF Has
    <2>4. d.name = "request_finished_observed" =>
             /\ m.sequence_tokens.value = m.prompt_tokens.value + m.output_tokens.value
             /\ IsText(m.finished_reason)
        <3> SUFFICES ASSUME d.name = "request_finished_observed"
                     PROVE  /\ m.sequence_tokens.value =
                                  m.prompt_tokens.value + m.output_tokens.value
                            /\ IsText(m.finished_reason)
            OBVIOUS
        <3>1. /\ m.sequence_tokens = Uint(host.total + host.generated)
              /\ m.prompt_tokens = Uint(host.total) /\ m.output_tokens = Uint(host.generated)
            BY <1>1, <1>7
        <3>2. m.finished_reason = Text("stop")
            BY <1>1, <1>7
        <3> QED  BY <3>1, <3>2, <1>2, <1>4 DEF GoodText
    <2>5. d.name = "request_kv_reclaimed_observed" =>
             SaysOneOf(m, "reclaim_path", {"immediate", "deferred"})
        BY <1>1, <1>7 DEF SaysOneOf, Has
    <2> QED  BY <1>1, <2>1, <2>2, <2>3, <2>4, <2>5 DEF ValidNative
<1>11. d.name \notin DOMAIN TransitionOf
    BY Keys
<1>12. /\ d.name # "received" /\ d.name # "unsupported_mode"
       /\ d.name \notin {"cleanup_started", "cleanup_done"}
       /\ d.name \notin {"scheduled", "resumed"} /\ d.name \notin {"prefill_done", "preempted"}
       /\ d.name # "generation_done"
    BY Keys
<1>13. ValidEventMetadata(d, m)
    BY <1>10, <1>11, <1>12, Zenon DEF ValidEventMetadata
<1> QED  BY <1>9, <1>13 DEF m

\* The metadata of a restore, without and with the bytes moved.
DoneMeta(bytes) ==
    [k \in DOMAIN CommunicationMeta \cup {"bytes_moved"} |->
        IF k = "bytes_moved" THEN Uint(bytes) ELSE CommunicationMeta[k]]

RestoreKeys == {"operation", "direction", "transfer_id", "block_set_id",
                "recovery_profile", "communication_mapping", "rank"}

LEMMA RestoreFields ==
    /\ DOMAIN CommunicationMeta = RestoreKeys
    /\ CommunicationMeta["operation"] = Text("h2d_restore")
    /\ CommunicationMeta["direction"] = Text("h2d")
    /\ CommunicationMeta["transfer_id"] = Text("transfer")
    /\ CommunicationMeta["block_set_id"] = Text("blocks")
    /\ CommunicationMeta["recovery_profile"] = Text("rlp.kv-recovery/v1alpha1")
    /\ CommunicationMeta["communication_mapping"] = Text(RecoveryMode)
    /\ CommunicationMeta["rank"] = Uint(0)
BY DEF CommunicationMeta, RestoreKeys

LEMMA DoneFields ==
    ASSUME NEW bytes
    PROVE  /\ DOMAIN DoneMeta(bytes) = RestoreKeys \cup {"bytes_moved"}
           /\ DoneMeta(bytes)["bytes_moved"] = Uint(bytes)
           /\ \A k \in RestoreKeys : DoneMeta(bytes)[k] = CommunicationMeta[k]
<1>1. DOMAIN CommunicationMeta = RestoreKeys
    BY RestoreFields
<1>2. "bytes_moved" \notin RestoreKeys
    BY DEF RestoreKeys
<1> QED  BY <1>1, <1>2 DEF DoneMeta

\* A metadata that says what a restore must say.
LEMMA RestoreValid ==
    ASSUME UintMaxAssumption, NEW d, NEW m,
           \/ d.name = "communication_started" /\ m = CommunicationMeta
           \/ d.name = "communication_done" /\ m = DoneMeta(1)
    PROVE  ValidMetadata(m) /\ ValidCommunication(d, m)
<1>1. /\ \A k \in RestoreKeys : k \in DOMAIN m /\ m[k] = CommunicationMeta[k]
      /\ DOMAIN m = RestoreKeys \cup (IF d.name = "communication_done" THEN {"bytes_moved"}
                                      ELSE {})
      /\ d.name = "communication_done" => m["bytes_moved"] = Uint(1)
    <2>1. CASE d.name = "communication_started" /\ m = CommunicationMeta
        BY <2>1, RestoreFields
    <2>2. CASE d.name = "communication_done" /\ m = DoneMeta(1)
        BY <2>2, DoneFields, Zenon
    <2> QED  BY <2>1, <2>2
<1>2. /\ IsUint(Uint(0)) /\ IsUint(Uint(1)) /\ Uint(1).value = 1
    BY UintFits DEF UintMaxAssumption
<1>3. /\ GoodText("h2d_restore") /\ GoodText("h2d") /\ GoodText("transfer")
      /\ GoodText("blocks") /\ GoodText("rlp.kv-recovery/v1alpha1") /\ GoodText(RecoveryMode)
    BY GoodTexts DEF Unprintable, Overlong, Empty, RecoveryMode
<1>4. /\ Has(m, "operation") /\ m["operation"] = Text("h2d_restore")
      /\ Has(m, "direction") /\ m["direction"] = Text("h2d")
      /\ Has(m, "transfer_id") /\ m["transfer_id"] = Text("transfer")
      /\ Has(m, "block_set_id") /\ m["block_set_id"] = Text("blocks")
    BY <1>1, RestoreFields DEF RestoreKeys, Has
<1>5. /\ Has(m, "recovery_profile") /\ m["recovery_profile"] = Text("rlp.kv-recovery/v1alpha1")
      /\ Has(m, "communication_mapping") /\ m["communication_mapping"] = Text(RecoveryMode)
      /\ m["rank"] = Uint(0)
    BY <1>1, RestoreFields DEF RestoreKeys, Has
<1>6. ValidMetadata(m)
    <2>1. DOMAIN m \cap ForbiddenKeys = {}
        BY <1>1 DEF ForbiddenKeys, RestoreKeys
    <2>2. \A k \in DOMAIN m :
             \/ m[k] \in {Uint(0), Uint(1)}
             \/ m[k] \in {Text("h2d_restore"), Text("h2d"), Text("transfer"), Text("blocks"),
                          Text("rlp.kv-recovery/v1alpha1"), Text(RecoveryMode)}
        BY <1>1, <1>4, <1>5 DEF RestoreKeys
    <2>3. \A k \in DOMAIN m : IsUint(m[k])
             \/ (m[k].type = "text" /\ m[k].value \notin {Unprintable, Overlong})
        BY <1>2, <1>3, <2>2, Zenon DEF GoodText
    <2> QED  BY <2>1, <2>3, Zenon DEF ValidMetadata
<1>7. ValidCommunication(d, m)
    <2>1. /\ Says(m, "operation", "h2d_restore") /\ Says(m, "direction", "h2d")
          /\ HasText(m, "transfer_id") /\ HasText(m, "block_set_id")
        BY <1>3, <1>4, Zenon DEF Says, HasText, GoodText
    <2>2. /\ Says(m, "recovery_profile", "rlp.kv-recovery/v1alpha1")
          /\ Says(m, "communication_mapping", RecoveryMode) /\ m.rank = Uint(0)
        BY <1>5, Zenon DEF Says
    <2>3. d.name = "communication_done" => IsUint(m.bytes_moved) /\ m.bytes_moved.value >= 1
        BY <1>1, <1>2
    <2> QED  BY <1>1, <2>1, <2>2, <2>3, Zenon DEF ValidCommunication, RestoreKeys
<1> QED  BY <1>6, <1>7
-----------------------------------------------------------------------------
(* The drafts of the handlers build                                        *)

\* A span, or none.
MaybeSpan(s) == s = Absent \/ \E n : s = Span(n)

LEMMA NotAbnormal ==
    ASSUME NEW n \in (CoreNames \cup EvidenceNames \cup {"queued"}), n \notin AbnormalTerminals
    PROVE  /\ n \notin ChunkEvents /\ n \notin {"output_batch_ready", "output_ready"}
           /\ n \in CommunicationEvents => n \in EvidenceNames
BY DEF CoreNames, EvidenceNames, ChunkEvents, CommunicationEvents

LEMMA OpenBuilds ==
    ASSUME RecordsAssumption, UintMaxAssumption, NEW component, NEW name,
           <<"engine_sample", component, name>> \in Ownership,
           name \in CoreNames \cup EvidenceNames \cup {"queued"}, name \notin AbnormalTerminals,
           NEW e \in 0..UintMax, NEW start, NEW end, NEW meta, NEW d,
           d = Draft("engine_sample", component, name, <<e>>, start, end, <<>>, meta),
           MaybeSpan(start), (start # Absent) <=> name \in SpanStartEvents,
           (end # Absent) <=> name \in SpanEndEvents,
           ValidMetadata(meta), ValidEventMetadata(d, meta),
           name \in CommunicationEvents => Mode = RecoveryMode /\ ValidCommunication(d, meta)
    PROVE  Builds(d)
<1>1. d.closing = <<>> /\ d.name = name /\ d.start = start /\ d.end = end
    BY SampleFields
<1>2. start = Absent \/ (start # Absent /\ start[1] = Process)
    BY Present, Zenon DEF MaybeSpan
<1>3. ValidSpans(d, Process)
    BY <1>1, <1>2, SpansOK, Zenon
<1>4. name \notin ChunkEvents /\ name \notin {"output_batch_ready", "output_ready"}
    BY NotAbnormal, Zenon
<1> QED  BY <1>3, <1>4, SampleBuilds, Zenon

\* A draft of the bridge.
LEMMA EngineBuilds ==
    ASSUME RecordsAssumption, UintMaxAssumption,
           NEW name \in CoreNames \ AbnormalTerminals,
           NEW e \in 0..UintMax, NEW start, NEW end, NEW meta, NEW d,
           d = Engine(name, e, start, end, meta),
           MaybeSpan(start), (start # Absent) <=> name \in SpanStartEvents,
           (end # Absent) <=> name \in SpanEndEvents,
           ValidMetadata(meta), ValidEventMetadata(d, meta)
    PROVE  Builds(d)
<1>1. d = Draft("engine_sample", "engine_core", name, <<e>>, start, end, <<>>, meta)
    BY Zenon DEF Engine
<1>2. <<"engine_sample", "engine_core", name>> \in Ownership
    BY CoreOwned
<1>3. name \notin CommunicationEvents
    BY DEF CoreNames, CommunicationEvents
<1> QED  BY <1>1, <1>2, <1>3, OpenBuilds, Zenon

LEMMA EngineName ==
    ASSUME NEW name, NEW e, NEW start, NEW end, NEW meta, NEW d,
           d = Engine(name, e, start, end, meta)
    PROVE  d.name = name
<1>1. d = Draft("engine_sample", "engine_core", name, <<e>>, start, end, <<>>, meta)
    BY Zenon DEF Engine
<1> QED  BY <1>1, SampleFields

\* The starts of the bridge's spans: without metadata.
LEMMA StartBuilds ==
    ASSUME RecordsAssumption, UintMaxAssumption, NEW e \in 0..UintMax, NEW n,
           NEW name \in {"prefill_started", "decode_started", "requeued"}
    PROVE  Builds(Engine(name, e, Span(n), Absent, NoMeta))
<1> DEFINE d == Engine(name, e, Span(n), Absent, NoMeta)
<1> HIDE DEF d
<1>0. d = Engine(name, e, Span(n), Absent, NoMeta)
    BY Zenon DEF d
<1>1. d.name = name
    BY <1>0, EngineName
<1>2. name \in PlainNames /\ name \in CoreNames \ AbnormalTerminals
    BY DEF PlainNames, CoreNames, AbnormalTerminals
<1>3. ValidEventMetadata(d, NoMeta)
    BY <1>1, <1>2, PlainMeta, Zenon
<1>4. name \in SpanStartEvents /\ name \notin SpanEndEvents
    BY DEF SpanStartEvents, SpanEndEvents
<1>5. MaybeSpan(Span(n)) /\ Span(n) # Absent
    BY Present, Zenon DEF MaybeSpan
<1>7. Builds(d)
    BY <1>2, <1>3, <1>4, <1>5, <1>0, NoMetaValid, EngineBuilds, Zenon
<1> QED  BY <1>7, Zenon DEF d

\* The ends of the bridge's spans.
LEMMA EndBuilds ==
    ASSUME RecordsAssumption, UintMaxAssumption, NEW e \in 0..UintMax, NEW n, NEW meta,
           NEW name \in {"scheduled", "resumed", "prefill_done", "decode_done", "preempted"},
           ValidMetadata(meta), NEW d, d = Engine(name, e, Absent, Span(n), meta),
           ValidEventMetadata(d, meta)
    PROVE  Builds(d)
<1>2. name \in CoreNames \ AbnormalTerminals
    BY DEF CoreNames, AbnormalTerminals
<1>4. name \notin SpanStartEvents /\ name \in SpanEndEvents
    BY DEF SpanStartEvents, SpanEndEvents
<1>5. MaybeSpan(Absent) /\ Span(n) # Absent
    BY Present, Zenon DEF MaybeSpan
<1> QED  BY <1>2, <1>4, <1>5, EngineBuilds, Zenon

LEMMA ScheduledBuilds ==
    ASSUME RecordsAssumption, UintMaxAssumption, NEW e \in 0..UintMax, NEW n,
           NEW name \in {"scheduled", "resumed"},
           NEW total \in 1..MaxPrompt, NEW c \in 0..(total - 1)
    PROVE  Builds(Engine(name, e, Absent, Span(n), Counters(total, c)))
<1> DEFINE d == Engine(name, e, Absent, Span(n), Counters(total, c))
<1> HIDE DEF d
<1>0. d = Engine(name, e, Absent, Span(n), Counters(total, c))
    BY Zenon DEF d
<1>1. d.name = name
    BY <1>0, EngineName
<1>3. ValidMetadata(Counters(total, c)) /\ ValidEventMetadata(d, Counters(total, c))
    BY <1>1, ScheduledMeta
<1>4. name \in {"scheduled", "resumed", "prefill_done", "decode_done", "preempted"}
    OBVIOUS
<1>5. Builds(d)
    BY <1>0, <1>3, <1>4, EndBuilds, Zenon
<1> QED  BY <1>5, Zenon DEF d

LEMMA PhaseBuilds ==
    ASSUME RecordsAssumption, UintMaxAssumption, StateType, NEW n,
           NEW name \in {"prefill_done", "preempted"}
    PROVE  Builds(Engine(name, state.epoch, Absent, Span(n), PhaseMeta))
<1> DEFINE d == Engine(name, state.epoch, Absent, Span(n), PhaseMeta)
<1> HIDE DEF d
<1>0. d = Engine(name, state.epoch, Absent, Span(n), PhaseMeta)
    BY Zenon DEF d
<1>1. d.name = name
    BY <1>0, EngineName
<1>3. ValidMetadata(PhaseMeta) /\ ValidEventMetadata(d, PhaseMeta)
    BY <1>1, PhaseMetaValid
<1>4. name \in {"scheduled", "resumed", "prefill_done", "decode_done", "preempted"}
    OBVIOUS
<1>5. state.epoch \in 0..UintMax
    BY DEF StateType, RecordsAssumption, UintMaxAssumption
<1>6. Builds(d)
    BY <1>0, <1>3, <1>4, <1>5, EndBuilds, Zenon
<1> QED  BY <1>6, Zenon DEF d

LEMMA DecodeDoneBuilds ==
    ASSUME RecordsAssumption, UintMaxAssumption, NEW e \in 0..UintMax, NEW n
    PROVE  Builds(Engine("decode_done", e, Absent, Span(n), NoMeta))
<1> DEFINE d == Engine("decode_done", e, Absent, Span(n), NoMeta)
<1> HIDE DEF d
<1>0. d = Engine("decode_done", e, Absent, Span(n), NoMeta)
    BY Zenon DEF d
<1>1. d.name = "decode_done"
    BY <1>0, EngineName
<1>3. "decode_done" \in PlainNames
    BY DEF PlainNames
<1>4. ValidEventMetadata(d, NoMeta)
    BY <1>1, <1>3, PlainMeta, Zenon
<1>5. "decode_done" \in {"scheduled", "resumed", "prefill_done", "decode_done", "preempted"}
    OBVIOUS
<1>6. Builds(d)
    BY <1>0, <1>4, <1>5, NoMetaValid, EndBuilds, Zenon
<1> QED  BY <1>6, Zenon DEF d

LEMMA AdmissionBuilds ==
    ASSUME RecordsAssumption, UintMaxAssumption, NEW e \in 0..UintMax, NEW n, NEW o
    PROVE  Builds(Engine("admission_started", e, Span(n), Span(o), NoMeta))
<1> DEFINE d == Engine("admission_started", e, Span(n), Span(o), NoMeta)
<1> HIDE DEF d
<1>0. d = Engine("admission_started", e, Span(n), Span(o), NoMeta)
    BY Zenon DEF d
<1>1. d.name = "admission_started"
    BY <1>0, EngineName
<1>3. /\ "admission_started" \in PlainNames
      /\ "admission_started" \in CoreNames \ AbnormalTerminals
      /\ "admission_started" \in SpanStartEvents /\ "admission_started" \in SpanEndEvents
    BY DEF PlainNames, CoreNames, AbnormalTerminals, SpanStartEvents, SpanEndEvents
<1>4. ValidEventMetadata(d, NoMeta)
    BY <1>1, <1>3, PlainMeta, Zenon
<1>5. MaybeSpan(Span(n)) /\ Span(n) # Absent /\ Span(o) # Absent
    BY Present, Zenon DEF MaybeSpan
<1>6. Builds(d)
    BY <1>0, <1>3, <1>4, <1>5, NoMetaValid, EngineBuilds, Zenon
<1> QED  BY <1>6, Zenon DEF d

LEMMA GenerationDoneBuilds ==
    ASSUME RecordsAssumption, UintMaxAssumption, NEW e \in 0..UintMax, NEW g \in 1..2
    PROVE  Builds(Engine("generation_done", e, Absent, Absent, EndMeta(g)))
<1> DEFINE d == Engine("generation_done", e, Absent, Absent, EndMeta(g))
<1> HIDE DEF d
<1>0. d = Engine("generation_done", e, Absent, Absent, EndMeta(g))
    BY Zenon DEF d
<1>1. d.name = "generation_done"
    BY <1>0, EngineName
<1>3. /\ "generation_done" \in CoreNames \ AbnormalTerminals
      /\ "generation_done" \notin SpanStartEvents /\ "generation_done" \notin SpanEndEvents
    BY DEF CoreNames, AbnormalTerminals, SpanStartEvents, SpanEndEvents
<1>4. ValidMetadata(EndMeta(g)) /\ ValidEventMetadata(d, EndMeta(g))
    BY <1>1, EndMetaValid
<1>5. MaybeSpan(Absent)
    BY Zenon DEF MaybeSpan
<1>6. Builds(d)
    BY <1>0, <1>3, <1>4, <1>5, EngineBuilds, Zenon
<1> QED  BY <1>6, Zenon DEF d
LEMMA QueuedBuilds ==
    ASSUME RecordsAssumption, UintMaxAssumption, NEW n
    PROVE  Builds(Draft("engine_sample", "engine_client", "queued", <<0>>, Span(n), Absent,
                        <<>>, NoMeta))
<1> DEFINE d == Draft("engine_sample", "engine_client", "queued", <<0>>, Span(n), Absent,
                      <<>>, NoMeta)
<1> HIDE DEF d
<1>0. d = Draft("engine_sample", "engine_client", "queued", <<0>>, Span(n), Absent,
                <<>>, NoMeta)
    BY Zenon DEF d
<1>1. d.name = "queued"
    BY <1>0, SampleFields
<1>2. /\ "queued" \in PlainNames /\ "queued" \notin AbnormalTerminals
      /\ "queued" \notin CommunicationEvents
      /\ "queued" \in SpanStartEvents /\ "queued" \notin SpanEndEvents
      /\ "queued" \in CoreNames \cup EvidenceNames \cup {"queued"}
    BY DEF PlainNames, AbnormalTerminals, CommunicationEvents, SpanStartEvents, SpanEndEvents
<1>3. ValidEventMetadata(d, NoMeta)
    BY <1>1, <1>2, PlainMeta, Zenon
<1>4. MaybeSpan(Span(n)) /\ Span(n) # Absent
    BY Present, Zenon DEF MaybeSpan
<1>5. 0 \in 0..UintMax
    BY DEF UintMaxAssumption
<1>6. Builds(d)
    BY <1>0, <1>2, <1>3, <1>4, <1>5, ClientOwned, NoMetaValid, OpenBuilds, Zenon
<1> QED  BY <1>6, Zenon DEF d

CauseMeta(name) == [terminal_cause |-> Text(name)]

LEMMA AbnormalBuilds ==
    ASSUME RecordsAssumption, UintMaxAssumption, NEW e \in 0..UintMax, NEW s,
           NEW name \in AbnormalTerminals
    PROVE  Builds(Draft("engine_sample", "engine_core", name, <<e>>, Absent, Absent, <<s>>,
                        CauseMeta(name)))
<1> DEFINE d == Draft("engine_sample", "engine_core", name, <<e>>, Absent, Absent, <<s>>,
                      CauseMeta(name))
<1> HIDE DEF d
<1>0. d = Draft("engine_sample", "engine_core", name, <<e>>, Absent, Absent, <<s>>,
                CauseMeta(name))
    BY Zenon DEF d
<1>1. d.name = name /\ d.closing = <<s>> /\ d.start = Absent /\ d.end = Absent
    BY <1>0, SampleFields
<1>2. /\ name \in PlainNames /\ name \in CoreNames /\ name \notin CommunicationEvents
      /\ name \notin ChunkEvents /\ name \notin {"output_batch_ready", "output_ready"}
    BY DEF PlainNames, AbnormalTerminals, CommunicationEvents, CoreNames, ChunkEvents
<1>3. ValidEventMetadata(d, CauseMeta(name))
    BY <1>1, <1>2, PlainMeta, Zenon
<1>4. ValidMetadata(CauseMeta(name))
    <2>1. GoodText(name)
        <3>1. name \notin {Unprintable, Overlong, Empty}
            BY DEF AbnormalTerminals, Unprintable, Overlong, Empty
        <3> QED  BY <3>1, GoodTexts
    <2>2. DOMAIN CauseMeta(name) = {"terminal_cause"}
            /\ CauseMeta(name)["terminal_cause"] = Text(name)
        BY DEF CauseMeta
    <2>3. DOMAIN CauseMeta(name) \cap ForbiddenKeys = {}
        BY <2>2 DEF ForbiddenKeys
    <2>4. \A k \in DOMAIN CauseMeta(name) : CauseMeta(name)[k] = Text(name)
        BY <2>2
    <2> QED  BY <2>1, <2>3, <2>4, Zenon DEF ValidMetadata, GoodText
<1>5. ValidSpans(d, Process)
    BY <1>1, SpansClose, Zenon
<1>6. <<"engine_sample", "engine_core", name>> \in Ownership
    BY <1>2, CoreOwned
<1>7. Builds(d)
    BY <1>0, <1>2, <1>3, <1>4, <1>5, <1>6, SampleBuilds, Zenon
<1> QED  BY <1>7, Zenon DEF d

LEMMA CommunicationBuilds ==
    ASSUME RecordsAssumption, UintMaxAssumption, StateType, Mode = RecoveryMode,
           NEW name, NEW start, NEW end, NEW meta,
           \/ /\ name = "communication_started" /\ meta = CommunicationMeta
              /\ (\E n : start = Span(n)) /\ end = Absent
           \/ /\ name = "communication_done" /\ meta = DoneMeta(1)
              /\ start = Absent /\ end # Absent
    PROVE  Builds(Communication(name, start, end, meta))
<1> DEFINE d == Communication(name, start, end, meta)
<1> HIDE DEF d
<1>0. d = Draft("engine_sample", "external_evidence", name, <<state.epoch>>, start, end, <<>>,
                meta)
    BY Zenon DEF d, Communication
<1>1. d.name = name
    BY <1>0, SampleFields
<1>2. name \in {"communication_started", "communication_done"}
    BY Zenon
<1>3. /\ name \in PlainNames /\ name \in EvidenceNames /\ name \notin AbnormalTerminals
      /\ name \in CoreNames \cup EvidenceNames \cup {"queued"}
      /\ name \in SpanStartEvents <=> name = "communication_started"
      /\ name \in SpanEndEvents <=> name = "communication_done"
    BY <1>2 DEF PlainNames, EvidenceNames, AbnormalTerminals, SpanStartEvents, SpanEndEvents
<1>4. "communication_started" # "communication_done"
    OBVIOUS
<1>5. MaybeSpan(start) /\ (start # Absent <=> name \in SpanStartEvents)
    BY <1>3, <1>4, Present, Zenon DEF MaybeSpan
<1>6. end # Absent <=> name \in SpanEndEvents
    BY <1>3, <1>4, Zenon
<1>7. ValidMetadata(meta) /\ ValidCommunication(d, meta)
    BY <1>1, RestoreValid, Zenon
<1>8. ValidEventMetadata(d, meta)
    BY <1>1, <1>3, PlainMeta, Zenon
<1>9. state.epoch \in 0..UintMax
    BY DEF StateType, RecordsAssumption, UintMaxAssumption
<1>10. <<"engine_sample", "external_evidence", name>> \in Ownership
    BY <1>3, EvidenceOwned
<1>11. Builds(d)
    BY <1>0, <1>3, <1>5, <1>6, <1>7, <1>8, <1>9, <1>10, OpenBuilds, Zenon
<1> QED  BY <1>11, Zenon DEF d

\* What is observed of a request needs a text of the host.
LEMMA ObservedFields ==
    ASSUME NEW component, NEW name, NEW meta, NEW d, d = Observed(component, name, meta)
    PROVE  /\ d = Draft("engine_sample", component, name, <<0>>, Absent, Absent, <<>>, meta)
           /\ d.name = name /\ d.meta = meta
<1>1. d = Draft("engine_sample", component, name, <<0>>, Absent, Absent, <<>>, meta)
    BY Zenon DEF Observed
<1>2. d.name = name /\ d.meta = meta
    BY <1>1, SampleFields
<1> QED  BY <1>1, <1>2

LEMMA ObservedBuilds ==
    ASSUME RecordsAssumption, UintMaxAssumption, NEW component, NEW name, NEW meta, NEW d,
           d = Observed(component, name, meta),
           <<"engine_sample", component, name>> \in Ownership,
           name \in DOMAIN TransitionOf \/ name \in DOMAIN NativeKeys,
           ValidMetadata(meta), ValidEventMetadata(d, meta)
    PROVE  Builds(d)
<1>1. d = Draft("engine_sample", component, name, <<0>>, Absent, Absent, <<>>, meta)
    BY ObservedFields
<1>2. /\ name \in CoreNames \cup EvidenceNames \cup {"queued"}
      /\ name \notin AbnormalTerminals /\ name \notin CommunicationEvents
      /\ name \notin SpanStartEvents /\ name \notin SpanEndEvents
    BY Keys DEF CoreNames, EvidenceNames, AbnormalTerminals, CommunicationEvents,
                SpanStartEvents, SpanEndEvents
<1>3. MaybeSpan(Absent)
    BY Zenon DEF MaybeSpan
<1>4. 0 \in 0..UintMax
    BY DEF UintMaxAssumption
<1> QED  BY <1>1, <1>2, <1>3, <1>4, OpenBuilds, Zenon

LEMMA NativeBuilds ==
    ASSUME RecordsAssumption, UintMaxAssumption, HostType,
           NEW name \in DOMAIN NativeKeys, NEW id, id \notin {Unprintable, Overlong, Empty},
           NEW path \in {"immediate", "deferred"}
    PROVE  Builds(Observed("external_evidence", name, NativeMeta(name, id, path)))
<1> DEFINE m == NativeMeta(name, id, path)
           d == Observed("external_evidence", name, m)
<1> HIDE DEF d, m
<1>0. d = Observed("external_evidence", name, m) /\ m = NativeMeta(name, id, path)
    BY Zenon DEF d, m
<1>1. d.name = name
    BY <1>0, ObservedFields
<1>2. name \in EvidenceNames
    BY Keys DEF EvidenceNames
<1>3. ValidMetadata(m) /\ ValidEventMetadata(d, m)
    BY <1>0, <1>1, NativeMetaValid, Zenon
<1>4. Builds(d)
    BY <1>0, <1>2, <1>3, EvidenceOwned, ObservedBuilds, Zenon
<1> QED  BY <1>4, Zenon DEF d, m

LEMMA ResourceBuilds ==
    ASSUME RecordsAssumption, UintMaxAssumption,
           NEW name \in DOMAIN TransitionOf, NEW id, id \notin {Unprintable, Overlong, Empty}
    PROVE  Builds(Observed("engine_core", name, ResourceMeta(name, id, 1)))
<1> DEFINE m == ResourceMeta(name, id, 1)
           d == Observed("engine_core", name, m)
<1> HIDE DEF d, m
<1>0. d = Observed("engine_core", name, m) /\ m = ResourceMeta(name, id, 1)
    BY Zenon DEF d, m
<1>1. d.name = name
    BY <1>0, ObservedFields
<1>2. name \in CoreNames
    BY Keys DEF CoreNames
<1>3. ValidMetadata(m) /\ ValidEventMetadata(d, m)
    BY <1>0, <1>1, ResourceMetaValid, Zenon
<1>4. Builds(d)
    BY <1>0, <1>2, <1>3, CoreOwned, ObservedBuilds, Zenon
<1> QED  BY <1>4, Zenon DEF d, m

ExitMeta(code) ==
    [terminal_cause |-> Text("engine_failure"), worker_generation |-> Text("worker-0:10"),
     worker_exit_code |-> Uint(code)]

LEMMA ExitFields ==
    ASSUME NEW code
    PROVE  /\ DOMAIN ExitMeta(code) = {"terminal_cause", "worker_generation",
                                       "worker_exit_code"}
           /\ ExitMeta(code)["terminal_cause"] = Text("engine_failure")
           /\ ExitMeta(code)["worker_generation"] = Text("worker-0:10")
           /\ ExitMeta(code)["worker_exit_code"] = Uint(code)
BY DEF ExitMeta

LEMMA ExitBuilds ==
    ASSUME RecordsAssumption, UintMaxAssumption, NEW code \in ExitCodes, code >= 0
    PROVE  Builds(Draft("root_request", "frontend", "error", Absent, Absent, Absent, <<>>,
                        ExitMeta(code)))
<1> DEFINE m == ExitMeta(code)
           d == Draft("root_request", "frontend", "error", Absent, Absent, Absent, <<>>, m)
<1> HIDE DEF d, m
<1>0. d = Draft("root_request", "frontend", "error", Absent, Absent, Absent, <<>>, m)
    BY Zenon DEF d
<1>1. /\ d.scope = "root_request" /\ d.component = "frontend" /\ d.name = "error"
      /\ d.trace = Trace /\ d.lifecycle = RootOf(Trace) /\ d.parent = Absent
      /\ d.epoch = Absent /\ d.start = Absent /\ d.end = Absent /\ d.closing = <<>>
      /\ d.sample = Absent /\ d.handoffIndex = Absent /\ d.handoff = Absent
      /\ d.chunk = Absent /\ d.meta = m
    BY <1>0, RootFields
<1>2. /\ "error" \in PlainNames /\ "error" \in AbnormalTerminals
      /\ "error" \notin CommunicationEvents /\ "error" \notin ChunkEvents
      /\ "error" \notin {"output_batch_ready", "output_ready"}
      /\ "error" # "serialization_started"
    BY DEF PlainNames, AbnormalTerminals, CommunicationEvents, ChunkEvents
<1>3. ValidIdentity(d)
    <2>1. LifecycleOf("root_request", Trace, 0) = RootOf(Trace)
        BY DEF LifecycleOf
    <2>2. ParentOf("root_request", Trace) = Absent
        BY DEF ParentOf
    <2>3. "root_request" # "engine_sample"
        OBVIOUS
    <2> QED  BY <1>1, <2>1, <2>2, <2>3 DEF ValidIdentity
<1>4. ValidIndices(d)
    BY <1>1 DEF ValidIndices, OptionalUint
<1>5. ValidSpans(d, Process)
    BY <1>1, <1>2, SpansClose, Zenon
<1>6. ValidHandoff(d)
    BY <1>1, <1>2 DEF ValidHandoff
<1>7. ValidEventMetadata(d, m)
    BY <1>1, <1>2, PlainMeta, Zenon
<1>8. ValidMetadata(m)
    <2>1. GoodText("engine_failure") /\ GoodText("worker-0:10")
        BY GoodTexts DEF Unprintable, Overlong, Empty
    <2>2. code \in 0..UintMax
        BY DEF RecordsAssumption, UintMaxAssumption
    <2>3. IsUint(Uint(code))
        BY <2>2, UintFits
    <2>4. DOMAIN m = {"terminal_cause", "worker_generation", "worker_exit_code"}
        BY ExitFields DEF m
    <2>5. DOMAIN m \cap ForbiddenKeys = {}
        BY <2>4 DEF ForbiddenKeys
    <2>6. \A k \in DOMAIN m :
             m[k] \in {Text("engine_failure"), Text("worker-0:10"), Uint(code)}
        BY <2>4, ExitFields DEF m
    <2> QED  BY <2>1, <2>3, <2>5, <2>6, Zenon DEF ValidMetadata, GoodText
<1>9. Mode \in Modes
    BY DEF RecordsAssumption
<1>10. Builds(d)
    BY <1>1, <1>2, <1>3, <1>4, <1>5, <1>6, <1>7, <1>8, <1>9, RootErrorOwned, Zenon
       DEF Builds, BuildsEvent
<1> QED  BY <1>10, Zenon DEF d, m
-----------------------------------------------------------------------------
(* The handlers keep the invariant                                         *)

\* What the counters say, without the drafts.
CountInv ==
    HostType /\ StateType /\ span \in Nat /\ Coupling /\ CountersFollowHost
        /\ ColdPrefillReportsWork

LEMMA RecordsInit ==
    ASSUME RecordsAssumption, UintMaxAssumption, Init PROVE RecordsInv
<1>1. HostType
    BY DEF Init, HostType, RecordsAssumption
<1>2. StateType /\ span \in Nat
    BY DEF Init, NoState, StateType, RecordsAssumption
<1>3. Coupling
    BY DEF Init, NoState, Coupling
<1>4. CountersFollowHost
    BY DEF Init, NoState, CountersFollowHost
<1>5. RefusedForHostValuesOnly /\ ColdPrefillReportsWork
    BY DEF Init, RefusedForHostValuesOnly, ColdPrefillReportsWork
<1> QED  BY <1>1, <1>2, <1>3, <1>4, <1>5 DEF RecordsInv

LEMMA StartedCounts ==
    ASSUME RecordsAssumption, CountInv, NEW n \in 1..MaxPrompt, Started(n) PROVE CountInv'
<1> USE DEF CountInv
<1>0. /\ UNCHANGED <<transfer, prefills>> /\ span' = span + 1 /\ host.stage = "new"
      /\ host' = [host EXCEPT !.stage = "waiting", !.total = n]
      /\ state' = [state EXCEPT !.queue = span, !.open = span]
    BY DEF Started
<1>1. HostType'
    <2>1. n \in 0..MaxPrompt
        BY DEF RecordsAssumption
    <2> QED  BY <1>0, <2>1 DEF HostType
<1>2. host'.stage = "waiting" /\ host'.total = n /\ host'.done = host.done
    BY <1>0 DEF HostType
<1>3. StateType' /\ span' \in Nat
    <2>1. state' = [active |-> state.active, computed |-> state.computed,
                    chunks |-> state.chunks, epoch |-> state.epoch, queue |-> span, open |-> span]
        BY <1>0 DEF StateType
    <2>2. span' \in Nat
        BY <1>0
    <2> QED  BY <2>1, <2>2 DEF StateType
<1>4. Coupling'
    <2>1. host.done <= n /\ n >= 1
        BY <1>0 DEF Coupling, RecordsAssumption
    <2> QED  BY <1>0, <1>2, <2>1 DEF Coupling
<1>5. CountersFollowHost' /\ ColdPrefillReportsWork'
    BY <1>0, <1>2 DEF CountersFollowHost, ColdPrefillReportsWork
<1> QED  BY <1>1, <1>3, <1>4, <1>5

LEMMA FirstScheduledCounts ==
    ASSUME RecordsAssumption, CountInv, NEW n \in 1..MaxPrompt, NEW cached \in Cached,
           FirstScheduled(n, cached)
    PROVE  CountInv'
<1> USE DEF CountInv
<1> DEFINE c == Clamped(cached, host.total)
<1>0. /\ UNCHANGED <<transfer, prefills>> /\ span' = span + 1
      /\ host.stage = "waiting" /\ c + n <= host.total
      /\ host' = [host EXCEPT !.stage = "running", !.done = c + n, !.work = n, !.steps = 1]
      /\ state' = [state EXCEPT !.active = "prefill", !.chunks = 1, !.open = span,
                                !.computed = AtMost(host.total, c + n)]
    BY DEF FirstScheduled
<1>1. host.total \in Nat /\ host.total >= 1 /\ host.total <= MaxPrompt
    BY <1>0 DEF HostType, Coupling, RecordsAssumption
<1>2. c \in 0..(host.total - 1)
    BY <1>1, ClampedInside DEF RecordsAssumption
<1> HIDE DEF c
<1>3. AtMost(host.total, c + n) = c + n
    BY <1>0, <1>1, <1>2 DEF AtMost, RecordsAssumption
<1>4. c + n \in 0..MaxPrompt /\ c + n \in Nat /\ n \in Nat
    BY <1>0, <1>1, <1>2 DEF RecordsAssumption
<1>5. HostType'
    BY <1>0, <1>4 DEF HostType
<1>6. /\ host'.stage = "running" /\ host'.total = host.total /\ host'.done = c + n
      /\ host'.steps = 1
    BY <1>0, <1>4 DEF HostType
<1>7. StateType' /\ span' \in Nat
    <2>1. state' = [active |-> "prefill", computed |-> c + n, chunks |-> 1,
                    epoch |-> state.epoch, queue |-> state.queue, open |-> span]
        BY <1>0, <1>3 DEF StateType
    <2>2. 1 \in 0..(MaxPrompt + 1)
        BY DEF RecordsAssumption
    <2>3. span' \in Nat
        BY <1>0
    <2> QED  BY <1>4, <2>1, <2>2, <2>3 DEF StateType
<1>8. /\ state'.active = "prefill" /\ state'.chunks = 1 /\ state'.computed = c + n
      /\ state'.epoch = state.epoch
    BY <1>0, <1>3 DEF StateType
<1>9. Coupling'
    BY <1>0, <1>1, <1>2, <1>4, <1>6, <1>8 DEF Coupling
<1>10. CountersFollowHost' /\ ColdPrefillReportsWork'
    BY <1>0, <1>6, <1>8 DEF CountersFollowHost, ColdPrefillReportsWork
<1> QED  BY <1>5, <1>7, <1>9, <1>10

LEMMA PrefillScheduledCounts ==
    ASSUME RecordsAssumption, CountInv, NEW n \in 1..MaxPrompt, PrefillScheduled(n)
    PROVE  CountInv'
<1> USE DEF CountInv
<1>0. /\ UNCHANGED <<transfer, prefills, span>>
      /\ host.stage = "running" /\ state.active = "prefill" /\ host.done + n <= host.total
      /\ host' = [host EXCEPT !.done = @ + n, !.work = @ + n, !.steps = @ + 1]
      /\ state' = [state EXCEPT !.computed = Counted(n), !.chunks = @ + 1]
    BY DEF PrefillScheduled
<1>1. /\ host.total \in Nat /\ host.total >= 1 /\ host.total <= MaxPrompt
      /\ host.done \in Nat /\ host.steps \in Nat /\ n \in Nat /\ n >= 1 /\ MaxPrompt \in Nat
    BY <1>0 DEF HostType, Coupling, RecordsAssumption
<1>2. /\ state.chunks \in Nat /\ state.chunks >= 1 /\ state.chunks <= 1 + host.done
      /\ state.computed \in 0..MaxPrompt
    BY <1>0, <1>1 DEF StateType, Coupling
<1>3. Counted(n) \in 0..MaxPrompt
    BY <1>1, <1>2 DEF Counted, AtMost
<1>4. state.computed = host.done => Counted(n) = host.done + n
    BY <1>0, <1>1, <1>2 DEF Counted, AtMost
<1>5. HostType'
    <2>1. host' = [stage |-> host.stage, total |-> host.total, done |-> host.done + n,
                   work |-> host.work + n, steps |-> host.steps + 1,
                   generated |-> host.generated]
        BY <1>0 DEF HostType
    <2>2. host.done + n \in Nat /\ host.work + n \in Nat /\ host.steps + 1 \in Nat
        BY <1>1 DEF HostType
    <2> QED  BY <2>1, <2>2 DEF HostType
<1>6. /\ host'.stage = "running" /\ host'.total = host.total /\ host'.done = host.done + n
      /\ host'.steps = host.steps + 1
    BY <1>0 DEF HostType
<1>7. state.chunks + 1 \in 0..(MaxPrompt + 1)
    BY <1>0, <1>1, <1>2
<1>8. StateType' /\ span' \in Nat
    BY <1>0, <1>3, <1>7 DEF StateType
<1>9. /\ state'.active = "prefill" /\ state'.chunks = state.chunks + 1
      /\ state'.computed = Counted(n) /\ state'.epoch = state.epoch
    BY <1>0 DEF StateType
<1>10. Coupling'
    BY <1>0, <1>1, <1>2, <1>6, <1>9 DEF Coupling
<1>11. CountersFollowHost'
    BY <1>0, <1>4, <1>6, <1>9 DEF CountersFollowHost
<1>12. ColdPrefillReportsWork'
    BY <1>0 DEF ColdPrefillReportsWork
<1> QED  BY <1>5, <1>8, <1>10, <1>11, <1>12

\* The end of a prefill of the whole prompt.
LEMMA PrefillEndHonest ==
    ASSUME CountInv, host.stage = "running", state.active = "prefill", host.done = host.total,
           prefills' = prefills \cup {PrefillEnd}
    PROVE  ColdPrefillReportsWork'
<1> DEFINE p == PrefillEnd
<1>1. /\ p.epoch = state.epoch /\ p.computed = state.computed /\ p.chunks = Chunks
      /\ p.total = host.total /\ p.work = host.work /\ p.steps = host.steps
      /\ p.cached = host.done - host.work
    BY DEF PrefillEnd
<1> HIDE DEF p
<1>2. host.done \in Nat /\ host.work \in Nat /\ state.chunks \in Int /\ state.chunks >= 1
    BY DEF CountInv, HostType, StateType, Coupling
<1>3. Chunks = state.chunks
    BY <1>2 DEF Chunks
<1>4. p.epoch = 0 /\ p.cached = 0 =>
         p.computed = p.work /\ p.computed = p.total /\ p.chunks = p.steps
    BY <1>1, <1>2, <1>3 DEF CountInv, CountersFollowHost
<1>5. prefills' = prefills \cup {p}
    BY DEF p
<1> QED  BY <1>4, <1>5 DEF CountInv, ColdPrefillReportsWork

LEMMA DecodeScheduledCounts ==
    ASSUME RecordsAssumption, CountInv, DecodeScheduled PROVE CountInv'
<1> USE DEF CountInv
<1>0. /\ UNCHANGED transfer /\ span' = span + 1 /\ prefills' = prefills \cup {PrefillEnd}
      /\ host.stage = "running" /\ state.active = "prefill" /\ host.done = host.total
      /\ host' = [host EXCEPT !.generated = 1]
      /\ state' = [state EXCEPT !.active = "decode", !.computed = Counted(1), !.open = span]
    BY DEF DecodeScheduled
<1>1. Counted(1) \in 0..MaxPrompt
    BY DEF Counted, AtMost, HostType, StateType, RecordsAssumption
<1>2. HostType'
    BY <1>0 DEF HostType
<1>3. /\ host'.stage = "running" /\ host'.total = host.total /\ host'.done = host.done
    BY <1>0 DEF HostType
<1>4. StateType' /\ span' \in Nat
    <2>1. state' = [active |-> "decode", computed |-> Counted(1), chunks |-> state.chunks,
                    epoch |-> state.epoch, queue |-> state.queue, open |-> span]
        BY <1>0 DEF StateType
    <2>2. span' \in Nat
        BY <1>0
    <2> QED  BY <1>1, <2>1, <2>2 DEF StateType
<1>5. state'.active = "decode" /\ state'.epoch = state.epoch
    BY <1>0 DEF StateType
<1>6. Coupling'
    BY <1>0, <1>3, <1>5 DEF Coupling
<1>7. CountersFollowHost'
    BY <1>5 DEF CountersFollowHost
<1>8. ColdPrefillReportsWork'
    BY <1>0, PrefillEndHonest
<1> QED  BY <1>2, <1>4, <1>6, <1>7, <1>8

LEMMA PreemptedCounts ==
    ASSUME RecordsAssumption, CountInv, Preempted PROVE CountInv'
<1> USE DEF CountInv
<1>0. /\ UNCHANGED <<transfer, prefills>> /\ span' = span + 1
      /\ host.stage = "running" /\ state.epoch < MaxEpoch
      /\ host' = [host EXCEPT !.stage = "preempted", !.done = 0, !.work = 0, !.steps = 0]
      /\ state' = [NoState EXCEPT !.epoch = state.epoch + 1, !.queue = span, !.open = span]
    BY DEF Preempted
<1>1. state.epoch + 1 \in 0..MaxEpoch /\ state.epoch + 1 >= 1
    BY <1>0 DEF StateType, RecordsAssumption
<1>2. HostType'
    BY <1>0 DEF HostType
<1>3. /\ host'.stage = "preempted" /\ host'.total = host.total /\ host'.done = 0
    BY <1>0 DEF HostType
<1>4. state' = [active |-> "none", computed |-> 0, chunks |-> 0, epoch |-> state.epoch + 1,
                queue |-> span, open |-> span]
    BY <1>0 DEF NoState
<1>5. StateType' /\ span' \in Nat
    BY <1>0, <1>1, <1>4 DEF StateType, RecordsAssumption
<1>6. state'.epoch = state.epoch + 1
    BY <1>4
<1>7. Coupling'
    BY <1>0, <1>1, <1>3, <1>6 DEF Coupling, HostType
<1>8. CountersFollowHost' /\ ColdPrefillReportsWork'
    BY <1>0, <1>3 DEF CountersFollowHost, ColdPrefillReportsWork
<1> QED  BY <1>2, <1>5, <1>7, <1>8

LEMMA AdmissionCounts ==
    ASSUME CountInv, AdmissionStarted PROVE CountInv'
<1> USE DEF CountInv
<1>0. /\ UNCHANGED <<transfer, prefills>> /\ span' = span + 1 /\ host.stage = "preempted"
      /\ host' = [host EXCEPT !.stage = "admitting"] /\ state' = [state EXCEPT !.open = span]
    BY DEF AdmissionStarted
<1>1. HostType'
    BY <1>0 DEF HostType
<1>2. /\ host'.stage = "admitting" /\ host'.total = host.total /\ host'.done = host.done
    BY <1>0 DEF HostType
<1>3. StateType' /\ span' \in Nat /\ state'.epoch = state.epoch
    BY <1>0 DEF StateType
<1>4. Coupling'
    BY <1>0, <1>2, <1>3 DEF Coupling
<1>5. CountersFollowHost' /\ ColdPrefillReportsWork'
    BY <1>0, <1>2 DEF CountersFollowHost, ColdPrefillReportsWork
<1> QED  BY <1>1, <1>3, <1>4, <1>5

LEMMA AdmittedCounts ==
    ASSUME RecordsAssumption, CountInv, NEW cached \in Cached, Admitted(cached) PROVE CountInv'
<1> USE DEF CountInv
<1> DEFINE c == Clamped(cached, host.total)
           kind == IF host.generated > 0 /\ cached >= host.total THEN "decode" ELSE "prefill"
<1>0. /\ UNCHANGED <<transfer, prefills>> /\ span' = span + 1 /\ host.stage = "admitting"
      /\ host' = [host EXCEPT !.stage = "running", !.done = c]
      /\ state' = [state EXCEPT !.active = kind, !.computed = c, !.open = span,
                                !.chunks = IF kind = "prefill" THEN 1 ELSE 0]
    BY DEF Admitted
<1>1. kind \in {"prefill", "decode"}
    OBVIOUS
<1>2. host.total \in Nat /\ host.total >= 1 /\ host.total <= MaxPrompt
    BY <1>0 DEF HostType, Coupling, RecordsAssumption
<1>3. c \in 0..(host.total - 1)
    BY <1>2, ClampedInside DEF RecordsAssumption
<1> HIDE DEF c, kind
<1>4. c \in Nat /\ c \in 0..MaxPrompt /\ c <= host.total
    BY <1>2, <1>3 DEF RecordsAssumption
<1>5. HostType'
    BY <1>0, <1>4 DEF HostType
<1>6. /\ host'.stage = "running" /\ host'.total = host.total /\ host'.done = c
    BY <1>0 DEF HostType
<1>7. StateType' /\ span' \in Nat
    <2> DEFINE k == IF kind = "prefill" THEN 1 ELSE 0
    <2>1. k \in 0..(MaxPrompt + 1)
        BY DEF RecordsAssumption
    <2> HIDE DEF k
    <2>2. state' = [active |-> kind, computed |-> c, chunks |-> k,
                    epoch |-> state.epoch, queue |-> state.queue, open |-> span]
        BY <1>0 DEF StateType, k
    <2>3. span' \in Nat
        BY <1>0
    <2> QED  BY <1>1, <1>4, <2>1, <2>2, <2>3 DEF StateType
<1>8. /\ state'.active = kind /\ state'.epoch = state.epoch
      /\ state'.chunks = IF kind = "prefill" THEN 1 ELSE 0
    BY <1>0 DEF StateType
<1>9. Coupling'
    BY <1>0, <1>1, <1>2, <1>4, <1>6, <1>8 DEF Coupling
<1>10. CountersFollowHost'
    <2>1. state.epoch # 0
        BY <1>0 DEF Coupling, StateType
    <2> QED  BY <1>8, <2>1 DEF CountersFollowHost
<1>11. ColdPrefillReportsWork'
    BY <1>0 DEF ColdPrefillReportsWork
<1> QED  BY <1>5, <1>7, <1>9, <1>10, <1>11

\* A request that ends.
LEMMA FinishedCounts ==
    ASSUME CountInv, host' = [host EXCEPT !.stage = "finished"], host.stage # "new",
           UNCHANGED <<state, transfer, span>>, ColdPrefillReportsWork'
    PROVE  CountInv'
<1> USE DEF CountInv
<1>1. HostType'
    BY DEF HostType
<1>2. /\ host'.stage = "finished" /\ host'.total = host.total /\ host'.done = host.done
    BY DEF HostType
<1>3. StateType' /\ span' \in Nat
    BY DEF StateType
<1>4. Coupling'
    BY <1>2 DEF Coupling
<1>5. CountersFollowHost'
    BY <1>2 DEF CountersFollowHost
<1> QED  BY <1>1, <1>3, <1>4, <1>5

LEMMA CompleteCounts ==
    ASSUME CountInv, NEW g \in 0..2, Complete(g) PROVE CountInv'
<1>1. ColdPrefillReportsWork'
    <2>1. CASE g >= 1 /\ state.active = "prefill"
        <3>1. prefills' = prefills \cup {PrefillEnd} /\ host.stage = "running"
            BY <2>1 DEF Complete
        <3>2. host.done = host.total
            BY <2>1 DEF Complete
        <3> QED  BY <2>1, <3>1, <3>2, PrefillEndHonest
    <2>2. CASE ~(g >= 1 /\ state.active = "prefill")
        <3>1. prefills' = prefills
            BY <2>2 DEF Complete
        <3> QED  BY <3>1 DEF CountInv, ColdPrefillReportsWork
    <2> QED  BY <2>1, <2>2
<1>2. /\ host' = [host EXCEPT !.stage = "finished"] /\ host.stage # "new"
      /\ UNCHANGED <<state, transfer, span>>
    BY DEF Complete
<1> QED  BY <1>1, <1>2, FinishedCounts

LEMMA AbnormalCounts ==
    ASSUME CountInv, NEW name \in AbnormalTerminals, Abnormal(name) PROVE CountInv'
<1>1. /\ host' = [host EXCEPT !.stage = "finished"] /\ host.stage # "new"
      /\ UNCHANGED <<state, transfer, span, prefills>>
    BY DEF Abnormal
<1>2. ColdPrefillReportsWork'
    BY <1>1 DEF CountInv, ColdPrefillReportsWork
<1> QED  BY <1>1, <1>2, FinishedCounts

\* The steps of the worker and of the observers count nothing.
LEMMA OthersCount ==
    ASSUME CountInv, UNCHANGED <<host, state, prefills>>, span' \in Nat,
           transfer' # Absent => Mode = RecoveryMode
    PROVE  CountInv'
<1> USE DEF CountInv
<1>1. HostType' /\ StateType'
    BY DEF HostType, StateType
<1>2. Coupling'
    BY DEF Coupling
<1>3. CountersFollowHost' /\ ColdPrefillReportsWork'
    BY DEF CountersFollowHost, ColdPrefillReportsWork
<1> QED  BY <1>1, <1>2, <1>3
-----------------------------------------------------------------------------
(* No handler has a draft refused but for a value of the host              *)

LEMMA Epochs ==
    ASSUME RecordsAssumption, UintMaxAssumption, CountInv
    PROVE  /\ state.epoch \in 0..UintMax /\ 0 \in 0..UintMax
           /\ state.epoch < MaxEpoch => state.epoch + 1 \in 0..UintMax
BY DEF RecordsAssumption, UintMaxAssumption, CountInv, StateType

LEMMA NoneRefused == ASSUME refused' = {} PROVE RefusedForHostValuesOnly'
BY DEF RefusedForHostValuesOnly

LEMMA StartedRefuses ==
    ASSUME RecordsAssumption, UintMaxAssumption, NEW n, Started(n)
    PROVE  refused' = {}
BY QueuedBuilds DEF Started, Offer

LEMMA FirstScheduledRefuses ==
    ASSUME RecordsAssumption, UintMaxAssumption, CountInv, NEW n, NEW cached \in Cached,
           FirstScheduled(n, cached)
    PROVE  refused' = {}
<1> DEFINE c == Clamped(cached, host.total)
<1>1. host.total \in 1..MaxPrompt
    BY DEF FirstScheduled, CountInv, HostType, Coupling, RecordsAssumption
<1>2. c \in 0..(host.total - 1)
    BY <1>1, ClampedInside DEF RecordsAssumption
<1>3. refused' = {d \in {Engine("scheduled", 0, Absent, Span(state.queue),
                                Counters(host.total, c)),
                         Engine("prefill_started", 0, Span(span), Absent, NoMeta)} :
                    ~Builds(d)}
    BY Zenon DEF FirstScheduled, Offer
<1> HIDE DEF c
<1>4. Builds(Engine("scheduled", 0, Absent, Span(state.queue), Counters(host.total, c)))
    BY <1>1, <1>2, Epochs, ScheduledBuilds
<1>5. Builds(Engine("prefill_started", 0, Span(span), Absent, NoMeta))
    BY Epochs, StartBuilds
<1> QED  BY <1>3, <1>4, <1>5, Zenon

LEMMA DecodeScheduledRefuses ==
    ASSUME RecordsAssumption, UintMaxAssumption, CountInv, DecodeScheduled
    PROVE  refused' = {}
<1>1. refused' = {d \in {Engine("prefill_done", state.epoch, Absent, Span(state.open), PhaseMeta),
                         Engine("decode_started", state.epoch, Span(span), Absent, NoMeta)} :
                    ~Builds(d)}
    BY Zenon DEF DecodeScheduled, Offer
<1>2. Builds(Engine("prefill_done", state.epoch, Absent, Span(state.open), PhaseMeta))
    BY PhaseBuilds DEF CountInv
<1>3. Builds(Engine("decode_started", state.epoch, Span(span), Absent, NoMeta))
    BY Epochs, StartBuilds
<1> QED  BY <1>1, <1>2, <1>3, Zenon

LEMMA PreemptedRefuses ==
    ASSUME RecordsAssumption, UintMaxAssumption, CountInv, Preempted
    PROVE  refused' = {}
<1>1. refused' = {d \in {Engine("preempted", state.epoch, Absent, Span(state.open), PhaseMeta),
                         Engine("requeued", state.epoch + 1, Span(span), Absent, NoMeta)} :
                    ~Builds(d)}
    BY Zenon DEF Preempted, Offer
<1>2. Builds(Engine("preempted", state.epoch, Absent, Span(state.open), PhaseMeta))
    BY PhaseBuilds DEF CountInv
<1>3. state.epoch + 1 \in 0..UintMax
    BY Epochs DEF Preempted
<1>4. Builds(Engine("requeued", state.epoch + 1, Span(span), Absent, NoMeta))
    BY <1>3, StartBuilds
<1> QED  BY <1>1, <1>2, <1>4, Zenon

LEMMA AdmissionRefuses ==
    ASSUME RecordsAssumption, UintMaxAssumption, CountInv, AdmissionStarted
    PROVE  refused' = {}
<1>1. refused' = {d \in {Engine("admission_started", state.epoch, Span(span), Span(state.open),
                                NoMeta)} : ~Builds(d)}
    BY Zenon DEF AdmissionStarted, Offer
<1>2. Builds(Engine("admission_started", state.epoch, Span(span), Span(state.open), NoMeta))
    BY Epochs, AdmissionBuilds
<1> QED  BY <1>1, <1>2, Zenon

LEMMA AdmittedRefuses ==
    ASSUME RecordsAssumption, UintMaxAssumption, CountInv, NEW cached \in Cached,
           Admitted(cached)
    PROVE  refused' = {}
<1> DEFINE c == Clamped(cached, host.total)
           kind == IF host.generated > 0 /\ cached >= host.total THEN "decode" ELSE "prefill"
           first == IF kind = "decode" THEN "decode_started" ELSE "prefill_started"
<1>1. host.total \in 1..MaxPrompt
    BY DEF Admitted, CountInv, HostType, Coupling, RecordsAssumption
<1>2. c \in 0..(host.total - 1)
    BY <1>1, ClampedInside DEF RecordsAssumption
<1>3. first \in {"prefill_started", "decode_started", "requeued"}
    OBVIOUS
<1>4. refused' = {d \in {Engine("resumed", state.epoch, Absent, Span(state.open),
                                Counters(host.total, c)),
                         Engine(first, state.epoch, Span(span), Absent, NoMeta)} : ~Builds(d)}
    BY DEF Admitted, Offer
<1> HIDE DEF c, first
<1>5. Builds(Engine("resumed", state.epoch, Absent, Span(state.open), Counters(host.total, c)))
    BY <1>1, <1>2, Epochs, ScheduledBuilds
<1>6. Builds(Engine(first, state.epoch, Span(span), Absent, NoMeta))
    BY <1>3, Epochs, StartBuilds
<1> QED  BY <1>4, <1>5, <1>6, Zenon

LEMMA CompleteRefuses ==
    ASSUME RecordsAssumption, UintMaxAssumption, CountInv, NEW g \in 0..2, Complete(g)
    PROVE  refused' = {}
<1>1. CASE ~(g >= 1)
    BY <1>1 DEF Complete, Offer
<1>2. CASE g >= 1
    <2> DEFINE last == IF state.active = "prefill"
                       THEN Engine("prefill_done", state.epoch, Absent, Span(state.open), PhaseMeta)
                       ELSE Engine("decode_done", state.epoch, Absent, Span(state.open), NoMeta)
    <2>1. refused' = {d \in {last, Engine("generation_done", state.epoch, Absent, Absent,
                                          EndMeta(g))} : ~Builds(d)}
        BY <1>2 DEF Complete, Offer, EndMeta
    <2>2. Builds(last)
        <3>1. CASE state.active = "prefill"
            <4>1. Builds(Engine("prefill_done", state.epoch, Absent, Span(state.open), PhaseMeta))
                BY PhaseBuilds DEF CountInv
            <4> QED  BY <3>1, <4>1, Zenon
        <3>2. CASE state.active # "prefill"
            <4>1. Builds(Engine("decode_done", state.epoch, Absent, Span(state.open), NoMeta))
                BY Epochs, DecodeDoneBuilds
            <4> QED  BY <3>2, <4>1, Zenon
        <3> QED  BY <3>1, <3>2, Zenon
    <2>3. g \in 1..2
        BY <1>2
    <2>4. Builds(Engine("generation_done", state.epoch, Absent, Absent, EndMeta(g)))
        BY <2>3, Epochs, GenerationDoneBuilds
    <2> HIDE DEF last
    <2> QED  BY <2>1, <2>2, <2>4, Zenon
<1> QED  BY <1>1, <1>2

LEMMA AbnormalRefuses ==
    ASSUME RecordsAssumption, UintMaxAssumption, CountInv, NEW name \in AbnormalTerminals,
           Abnormal(name)
    PROVE  refused' = {}
<1> DEFINE s == Span(IF state.active = "none" THEN state.queue ELSE state.open)
<1>1. refused' = {d \in {Draft("engine_sample", "engine_core", name, <<state.epoch>>, Absent,
                               Absent, <<s>>, CauseMeta(name))} : ~Builds(d)}
    BY Zenon DEF Abnormal, Offer, CauseMeta
<1> HIDE DEF s
<1>2. Builds(Draft("engine_sample", "engine_core", name, <<state.epoch>>, Absent,
                   Absent, <<s>>, CauseMeta(name)))
    BY Epochs, AbnormalBuilds
<1> QED  BY <1>1, <1>2, Zenon

LEMMA SubmittedRefuses ==
    ASSUME RecordsAssumption, UintMaxAssumption, CountInv, TransferSubmitted
    PROVE  refused' = {}
<1>1. refused' = {d \in {Communication("communication_started", Span(span), Absent,
                                       CommunicationMeta)} : ~Builds(d)}
    BY Zenon DEF TransferSubmitted, Offer
<1>2. Mode = RecoveryMode
    BY DEF TransferSubmitted
<1>3. Builds(Communication("communication_started", Span(span), Absent, CommunicationMeta))
    BY <1>2, CommunicationBuilds, Zenon DEF CountInv
<1> QED  BY <1>1, <1>3, Zenon

LEMMA CompletedRefuses ==
    ASSUME RecordsAssumption, UintMaxAssumption, CountInv, NEW bytes \in 0..1,
           TransferCompleted(bytes)
    PROVE  refused' = {}
<1>1. CASE ~(bytes > 0)
    BY <1>1 DEF TransferCompleted, Offer
<1>2. CASE bytes > 0
    <2>1. bytes = 1
        BY <1>2
    <2>2. refused' = {d \in {Communication("communication_done", Absent, transfer,
                                           DoneMeta(bytes))} : ~Builds(d)}
        BY <1>2, Zenon DEF TransferCompleted, Offer, DoneMeta
    <2>3. transfer # Absent /\ Mode = RecoveryMode
        BY DEF TransferCompleted, CountInv, Coupling
    <2>4. Builds(Communication("communication_done", Absent, transfer, DoneMeta(1)))
        BY <2>3, CommunicationBuilds, Zenon DEF CountInv
    <2> QED  BY <2>1, <2>2, <2>4, Zenon
<1> QED  BY <1>1, <1>2
\* A refused draft with a text of the host that no record takes.
LEMMA BadText ==
    ASSUME NEW d, NEW k, k \in DOMAIN d.meta, NEW id, d.meta[k] = Text(id),
           id \in {Unprintable, Overlong, Empty}
    PROVE  \E j \in DOMAIN d.meta :
              IF d.meta[j].type = "text" THEN d.meta[j].value \in {Unprintable, Overlong, Empty}
              ELSE j = "worker_exit_code" /\ d.meta[j].value < 0
<1>1. d.meta[k].type = "text" /\ d.meta[k].value = id
    BY TextFits, Zenon
<1> QED  BY <1>1, Zenon

LEMMA NativeRefuses ==
    ASSUME RecordsAssumption, UintMaxAssumption, CountInv,
           NEW name \in DOMAIN NativeKeys, NEW id, NEW path \in {"immediate", "deferred"},
           NativeEvent(name, id, path)
    PROVE  RefusedForHostValuesOnly'
<1> DEFINE m == NativeMeta(name, id, path)
           x == Observed("external_evidence", name, m)
<1>1. refused' = {d \in (IF id = Empty THEN {} ELSE {x}) : ~Builds(d)}
    BY Zenon DEF NativeEvent, Offer, NativeMeta
<1>2. CASE id \notin {Unprintable, Overlong, Empty}
    <2>1. Builds(x)
        BY <1>2, NativeBuilds DEF CountInv
    <2> HIDE DEF x
    <2>2. refused' = {}
        BY <1>1, <2>1, Zenon
    <2> QED  BY <2>2, NoneRefused
<1>3. CASE id \in {Unprintable, Overlong, Empty}
    <2>1. "runtime_request_id" \in NativeKeys[name]
        BY Keys, NativeKeysOf
    <2>2. "runtime_request_id" \in DOMAIN m /\ m["runtime_request_id"] = Text(id)
        BY <2>1 DEF NativeMeta
    <2> HIDE DEF m
    <2>3. x.meta = m
        BY ObservedFields
    <2> HIDE DEF x
    <2>4. refused' \subseteq {x}
        BY <1>1, Zenon
    <2>5. \E j \in DOMAIN x.meta :
             IF x.meta[j].type = "text" THEN x.meta[j].value \in {Unprintable, Overlong, Empty}
             ELSE j = "worker_exit_code" /\ x.meta[j].value < 0
        BY <1>3, <2>2, <2>3, BadText, Zenon
    <2> QED  BY <2>4, <2>5, Zenon DEF RefusedForHostValuesOnly
<1> QED  BY <1>2, <1>3, Zenon

LEMMA ResourceRefuses ==
    ASSUME RecordsAssumption, UintMaxAssumption, NEW name \in DOMAIN TransitionOf, NEW id,
           NEW units \in 0..1, ResourceTransition(name, id, units)
    PROVE  RefusedForHostValuesOnly'
<1> DEFINE m == ResourceMeta(name, id, 1)
           x == Observed("engine_core", name, m)
<1>0. units = 1
    BY DEF ResourceTransition
<1>1. refused' = {d \in {x} : ~Builds(d)}
    BY <1>0, Zenon DEF ResourceTransition, Offer, ResourceMeta
<1>2. CASE id \notin {Unprintable, Overlong, Empty}
    <2>1. Builds(x)
        BY <1>2, ResourceBuilds
    <2> HIDE DEF x
    <2>2. refused' = {}
        BY <1>1, <2>1, Zenon
    <2> QED  BY <2>2, NoneRefused
<1>3. CASE id \in {Unprintable, Overlong, Empty}
    <2>2. "resource_id" \in DOMAIN m /\ m["resource_id"] = Text(id)
        BY DEF ResourceMeta
    <2> HIDE DEF m
    <2>3. x.meta = m
        BY ObservedFields
    <2> HIDE DEF x
    <2>4. refused' \subseteq {x}
        BY <1>1, Zenon
    <2>5. \E j \in DOMAIN x.meta :
             IF x.meta[j].type = "text" THEN x.meta[j].value \in {Unprintable, Overlong, Empty}
             ELSE j = "worker_exit_code" /\ x.meta[j].value < 0
        BY <1>3, <2>2, <2>3, BadText, Zenon
    <2> QED  BY <2>4, <2>5, Zenon DEF RefusedForHostValuesOnly
<1> QED  BY <1>2, <1>3, Zenon

LEMMA ExitRefuses ==
    ASSUME RecordsAssumption, UintMaxAssumption, NEW code \in ExitCodes, WorkerExit(code)
    PROVE  RefusedForHostValuesOnly'
<1> DEFINE m == ExitMeta(code)
           x == Draft("root_request", "frontend", "error", Absent, Absent, Absent, <<>>, m)
<1>1. refused' = {d \in {x} : ~Builds(d)}
    BY Zenon DEF WorkerExit, Offer, ExitMeta
<1>2. CASE code >= 0
    <2>1. Builds(x)
        BY <1>2, ExitBuilds
    <2> HIDE DEF x
    <2>2. refused' = {}
        BY <1>1, <2>1, Zenon
    <2> QED  BY <2>2, NoneRefused
<1>3. CASE code < 0
    <2>2. "worker_exit_code" \in DOMAIN m /\ m["worker_exit_code"] = Uint(code)
        BY ExitFields
    <2> HIDE DEF m
    <2>3. x.meta = m
        BY RootFields
    <2> HIDE DEF x
    <2>4. refused' \subseteq {x}
        BY <1>1, Zenon
    <2>5. /\ m["worker_exit_code"].type = "int" /\ "int" # "text"
          /\ m["worker_exit_code"].value = code
        BY <2>2 DEF Uint
    <2>6. \E j \in DOMAIN x.meta :
             IF x.meta[j].type = "text" THEN x.meta[j].value \in {Unprintable, Overlong, Empty}
             ELSE j = "worker_exit_code" /\ x.meta[j].value < 0
        BY <1>3, <2>2, <2>3, <2>5
    <2> QED  BY <2>4, <2>6, Zenon DEF RefusedForHostValuesOnly
<1>4. code \in Int
    BY DEF RecordsAssumption
<1> QED  BY <1>2, <1>3, <1>4

-----------------------------------------------------------------------------
(* The records are faithful                                                *)

LEMMA RecordsStep ==
    ASSUME RecordsAssumption, UintMaxAssumption, RecordsInv, [Next]_vars PROVE RecordsInv'
<1>0. CountInv
    BY DEF RecordsInv, CountInv
<1> DEFINE Kept == CountInv' /\ RefusedForHostValuesOnly'
<1> SUFFICES Kept
    BY DEF RecordsInv, CountInv
<1>1. ASSUME NEW n \in 1..MaxPrompt, Started(n) PROVE Kept
    BY <1>0, <1>1, StartedCounts, StartedRefuses, NoneRefused
<1>2. ASSUME NEW n \in 1..MaxPrompt, PrefillScheduled(n) PROVE Kept
    <2>1. refused' = {}
        BY <1>2 DEF PrefillScheduled, Offer
    <2> QED  BY <1>0, <1>2, <2>1, PrefillScheduledCounts, NoneRefused
<1>3. ASSUME NEW n \in 1..MaxPrompt, NEW c \in Cached, FirstScheduled(n, c) PROVE Kept
    BY <1>0, <1>3, FirstScheduledCounts, FirstScheduledRefuses, NoneRefused
<1>4. CASE DecodeScheduled
    BY <1>0, <1>4, DecodeScheduledCounts, DecodeScheduledRefuses, NoneRefused
<1>5. CASE Preempted
    BY <1>0, <1>5, PreemptedCounts, PreemptedRefuses, NoneRefused
<1>6. CASE AdmissionStarted
    BY <1>0, <1>6, AdmissionCounts, AdmissionRefuses, NoneRefused
<1>7. ASSUME NEW c \in Cached, Admitted(c) PROVE Kept
    BY <1>0, <1>7, AdmittedCounts, AdmittedRefuses, NoneRefused
<1>8. ASSUME NEW g \in 0..2, Complete(g) PROVE Kept
    BY <1>0, <1>8, CompleteCounts, CompleteRefuses, NoneRefused
<1>9. ASSUME NEW name \in AbnormalTerminals, Abnormal(name) PROVE Kept
    BY <1>0, <1>9, AbnormalCounts, AbnormalRefuses, NoneRefused
<1>10. CASE TransferSubmitted
    <2>1. UNCHANGED <<host, state, prefills>> /\ span' \in Nat /\ Mode = RecoveryMode
        BY <1>0, <1>10 DEF TransferSubmitted, CountInv
    <2> QED  BY <1>0, <1>10, <2>1, OthersCount, SubmittedRefuses, NoneRefused
<1>11. ASSUME NEW bytes \in 0..1, TransferCompleted(bytes) PROVE Kept
    <2>1. UNCHANGED <<host, state, prefills>> /\ span' \in Nat /\ transfer' = Absent
        BY <1>0, <1>11 DEF TransferCompleted, CountInv
    <2> QED  BY <1>0, <1>11, <2>1, OthersCount, CompletedRefuses, NoneRefused
<1>12. ASSUME UNCHANGED <<host, state, transfer, span, prefills>> PROVE CountInv'
    <2>1. span' \in Nat /\ (transfer' # Absent => Mode = RecoveryMode)
        BY <1>0, <1>12 DEF CountInv, Coupling
    <2> QED  BY <1>0, <1>12, <2>1, OthersCount
<1>13. ASSUME NEW id \in HostTexts, NEW name \in DOMAIN NativeKeys,
              NEW path \in {"immediate", "deferred"}, NativeEvent(name, id, path)
       PROVE  Kept
    <2>1. UNCHANGED <<host, state, transfer, span, prefills>>
        BY <1>13 DEF NativeEvent
    <2> QED  BY <1>0, <1>12, <1>13, <2>1, NativeRefuses
<1>14. ASSUME NEW id \in HostTexts, NEW name \in DOMAIN TransitionOf, NEW units \in 0..1,
              ResourceTransition(name, id, units)
       PROVE  Kept
    <2>1. UNCHANGED <<host, state, transfer, span, prefills>>
        BY <1>14 DEF ResourceTransition
    <2> QED  BY <1>12, <1>14, <2>1, ResourceRefuses
<1>15. ASSUME NEW code \in ExitCodes, WorkerExit(code) PROVE Kept
    <2>1. UNCHANGED <<host, state, transfer, span, prefills>>
        BY <1>15 DEF WorkerExit
    <2> QED  BY <1>12, <1>15, <2>1, ExitRefuses
<1>16. CASE UNCHANGED vars
    <2>1. UNCHANGED <<host, state, transfer, span, prefills>> /\ refused' = refused
        BY <1>16 DEF vars
    <2>2. RefusedForHostValuesOnly'
        BY <2>1 DEF RecordsInv, RefusedForHostValuesOnly
    <2> QED  BY <1>12, <2>1, <2>2
<1> HIDE DEF Kept
<1> QED
    BY <1>1, <1>2, <1>3, <1>4, <1>5, <1>6, <1>7, <1>8, <1>9, <1>10, <1>11, <1>13, <1>14,
       <1>15, <1>16, Zenon DEF Next

\* Whatever the order of the host's calls, for every prompt, number of
\* preemptions, cache hit and text of the host: a draft that the producers of
\* this repository make is refused by the validators only for a text of the
\* host or a negative exit code, the counters of the bridge follow the
\* scheduler, and a cold prefill reports the work that was done.
THEOREM RecordsAreFaithful == Spec => []RecordsFaithful
<1> USE RecordsAssumption, UintMaxAssumption
<1>1. Init => RecordsInv
    BY RecordsInit
<1>2. RecordsInv /\ [Next]_vars => RecordsInv'
    BY RecordsStep
<1>3. RecordsInv => RecordsFaithful
    <2> SUFFICES ASSUME RecordsInv PROVE RecordsFaithful
        OBVIOUS
    <2>1. TypeOK
        BY DEF RecordsInv, HostType, StateType, TypeOK
    <2> QED  BY <2>1 DEF RecordsInv, RecordsFaithful
<1> QED  BY <1>1, <1>2, <1>3, PTL DEF Spec
=============================================================================
