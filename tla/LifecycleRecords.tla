-------------------------- MODULE LifecycleRecords --------------------------
(***************************************************************************)
(* The drafts that this repository's own producers make for the calls of   *)
(* vLLM (the lifecycle bridge and its token counters, the worker adapter,  *)
(* the native event sink, the lifecycle observer) and what the validators  *)
(* of RuntimeProtocol make of them; and the drafts of call sites in vLLM.  *)
(*                                                                         *)
(* One request, and a sink that takes every record it can build: what a    *)
(* full queue does is LifecycleBridge and TraceLedger.                     *)
(***************************************************************************)
EXTENDS RuntimeProtocol, FiniteSets

CONSTANTS Mode,        \* communication_mode of the sink
          MaxPrompt,   \* bound: prompt tokens
          MaxEpoch,    \* bound: preemptions
          MaxSpans,    \* bound: spans, when a transfer starts
          HostTexts,   \* request and resource ids that the host passes
          ExitCodes,   \* exit codes of worker processes
          Cached       \* prefix cache hits, in tokens

ASSUME RecordsAssumption ==
    /\ Mode \in Modes /\ MaxPrompt \in Nat \ {0} /\ MaxEpoch \in Nat /\ MaxSpans \in Nat
    /\ MaxPrompt + 1 <= UintMax /\ MaxEpoch <= UintMax
    /\ ExitCodes \subseteq Int /\ (\A code \in ExitCodes : code <= UintMax)
    /\ Cached \subseteq Nat

VARIABLES host,     \* vLLM's view of the request (external)
          state,    \* _RuntimeRequestState and the open episode of the bridge
          transfer, \* the worker's pending H2D transfer: its span, or Absent
          span,     \* number of the next span
          refused,  \* drafts of the last call that no record could be built of
          prefills  \* what the ends of prefills reported, with what was done

vars == <<host, state, transfer, span, refused, prefills>>

Trace == "trace"
Process == "process"
Span(n) == <<Process, n>>

\* queue is the queue span, open the one the next boundary ends.
NoState == [active |-> "none", computed |-> 0, chunks |-> 0, epoch |-> 0,
            queue |-> 0, open |-> 0]

-----------------------------------------------------------------------------
(* Drafts                                                                  *)

Draft(scope, component, name, epoch, start, end, closing, meta) ==
    [trace |-> Trace, scope |-> scope, component |-> component, name |-> name,
     lifecycle |-> LifecycleOf(scope, Trace, 0), parent |-> ParentOf(scope, Trace),
     epoch |-> epoch, start |-> start, end |-> end, closing |-> closing,
     sample |-> IF scope = "engine_sample" THEN <<0>> ELSE Absent,
     handoffIndex |-> Absent, handoff |-> Absent, chunk |-> Absent, meta |-> meta]

NoMeta == [k \in {} |-> Null]

\* A draft of the bridge, in the epoch e of the request.
Engine(name, e, start, end, meta) ==
    Draft("engine_sample", "engine_core", name, <<e>>, start, end, <<>>, meta)

\* An event without spans that is seen from outside the engine.
Observed(component, name, meta) ==
    Draft("engine_sample", component, name, <<0>>, Absent, Absent, <<>>, meta)

Builds(d) == BuildsEvent(d, Process, Mode)

\* The drafts of a handler are offered; those that do not build are refused.
Offer(drafts) == refused' = {d \in drafts : ~Builds(d)}

-----------------------------------------------------------------------------
(* The bridge                                                              *)

\* register_runtime_request; the host decides on the prompt.
Started(total) ==
    /\ host.stage = "new"
    /\ host' = [host EXCEPT !.stage = "waiting", !.total = total]
    /\ state' = [state EXCEPT !.queue = span, !.open = span]
    /\ Offer({Draft("engine_sample", "engine_client", "queued", <<0>>, Span(span), Absent,
                    <<>>, NoMeta)})
    /\ span' = span + 1
    /\ UNCHANGED <<transfer, prefills>>

\* A mistaken variant: the prompt tokens that are cached are not limited.
NotClamped(cached, total) == IF cached < 0 THEN 0 ELSE cached

\* min(max(0, prompt_tokens_cached), prompt_tokens_total - 1)
Clamped(cached, total) ==
    IF cached < 0 THEN 0 ELSE IF cached < total THEN cached ELSE total - 1

Counters(total, cached) ==
    [prompt_tokens_total |-> Uint(total), prompt_tokens_cached |-> Uint(cached),
     prompt_tokens_to_compute |-> Uint(total - cached)]

AtMost(a, b) == IF a < b THEN a ELSE b

\* max(1, prefill_chunk_count)
Chunks == IF state.chunks < 1 THEN 1 ELSE state.chunks

PhaseMeta ==
    [prompt_tokens_computed |-> Uint(state.computed), prefill_chunk_count |-> Uint(Chunks)]

\* What the end of a prefill reports, and what the host has done in the epoch.
PrefillEnd ==
    [epoch |-> state.epoch, computed |-> state.computed, chunks |-> Chunks,
     total |-> host.total, work |-> host.work, steps |-> host.steps,
     cached |-> host.done - host.work]

\* emit_runtime_scheduled for the first step.
FirstScheduled(n, cached) ==
    LET c == Clamped(cached, host.total)
    IN  /\ host.stage = "waiting" /\ c + n <= host.total
        /\ host' = [host EXCEPT !.stage = "running", !.done = c + n, !.work = n, !.steps = 1]
        /\ Offer({Engine("scheduled", 0, Absent, Span(state.queue), Counters(host.total, c)),
                  Engine("prefill_started", 0, Span(span), Absent, NoMeta)})
        /\ state' = [state EXCEPT !.active = "prefill", !.chunks = 1, !.open = span,
                                  !.computed = AtMost(host.total, c + n)]
        /\ span' = span + 1
        /\ UNCHANGED <<transfer, prefills>>

\* prompt_tokens_computed after a step of n tokens.
Counted(n) == AtMost(host.total, state.computed + n)

\* Another chunk of the prompt.
PrefillScheduled(n) ==
    /\ host.stage = "running" /\ state.active = "prefill"
    /\ host.done + n <= host.total
    /\ host' = [host EXCEPT !.done = @ + n, !.work = @ + n, !.steps = @ + 1]
    /\ state' = [state EXCEPT !.computed = Counted(n), !.chunks = @ + 1]
    /\ UNCHANGED <<transfer, span, prefills>>
    /\ Offer({})

\* The first decode step ends the prefill.
DecodeScheduled ==
    /\ host.stage = "running" /\ state.active = "prefill" /\ host.done = host.total
    /\ Offer({Engine("prefill_done", state.epoch, Absent, Span(state.open), PhaseMeta),
              Engine("decode_started", state.epoch, Span(span), Absent, NoMeta)})
    /\ prefills' = prefills \cup {PrefillEnd}
    /\ state' = [state EXCEPT !.active = "decode", !.computed = Counted(1), !.open = span]
    /\ host' = [host EXCEPT !.generated = 1]
    /\ span' = span + 1
    /\ UNCHANGED <<transfer>>

\* emit_runtime_preempted with emit_preempted_and_requeued.
Preempted ==
    /\ host.stage = "running" /\ state.epoch < MaxEpoch
    /\ host' = [host EXCEPT !.stage = "preempted", !.done = 0, !.work = 0, !.steps = 0]
    /\ Offer({Engine("preempted", state.epoch, Absent, Span(state.open), PhaseMeta),
              Engine("requeued", state.epoch + 1, Span(span), Absent, NoMeta)})
    /\ state' = [NoState EXCEPT !.epoch = state.epoch + 1, !.queue = span, !.open = span]
    /\ span' = span + 1
    /\ UNCHANGED <<transfer, prefills>>

\* emit_admission_started
AdmissionStarted ==
    /\ host.stage = "preempted"
    /\ host' = [host EXCEPT !.stage = "admitting"]
    /\ Offer({Engine("admission_started", state.epoch, Span(span), Span(state.open), NoMeta)})
    /\ state' = [state EXCEPT !.open = span]
    /\ span' = span + 1
    /\ UNCHANGED <<transfer, prefills>>

\* request_admitted: emit_runtime_resumed and emit_first_compute.  When the
\* whole prompt was restored the host goes on with a decode step.
Admitted(cached) ==
    LET c == Clamped(cached, host.total)
        kind == IF host.generated > 0 /\ cached >= host.total THEN "decode" ELSE "prefill"
    IN  /\ host.stage = "admitting"
        /\ host' = [host EXCEPT !.stage = "running", !.done = c]
        /\ Offer({Engine("resumed", state.epoch, Absent, Span(state.open),
                         Counters(host.total, c)),
                  Engine(IF kind = "decode" THEN "decode_started" ELSE "prefill_started",
                         state.epoch, Span(span), Absent, NoMeta)})
        /\ state' = [state EXCEPT !.active = kind, !.computed = c, !.open = span,
                                  !.chunks = IF kind = "prefill" THEN 1 ELSE 0]
        /\ span' = span + 1
        /\ UNCHANGED <<transfer, prefills>>

\* emit_runtime_terminal for a normal end, with the tokens generated.
Complete(generated) ==
    /\ host.stage = "running"
    /\ host.done = host.total \/ state.active = "decode"
    /\ host' = [host EXCEPT !.stage = "finished"]
    /\ IF generated >= 1
       THEN Offer({IF state.active = "prefill"
                   THEN Engine("prefill_done", state.epoch, Absent, Span(state.open), PhaseMeta)
                   ELSE Engine("decode_done", state.epoch, Absent, Span(state.open), NoMeta),
                   Engine("generation_done", state.epoch, Absent, Absent,
                          [terminal_cause |-> Text("complete"),
                           generated_tokens_total |-> Uint(generated)])})
       ELSE Offer({})
    /\ prefills' = IF generated >= 1 /\ state.active = "prefill"
                   THEN prefills \cup {PrefillEnd} ELSE prefills
    /\ UNCHANGED <<state, transfer, span>>

\* emit_runtime_terminal for an abnormal end.
Abnormal(name) ==
    /\ host.stage \notin {"new", "finished"}
    /\ host' = [host EXCEPT !.stage = "finished"]
    /\ Offer({Draft("engine_sample", "engine_core", name, <<state.epoch>>, Absent, Absent,
                    <<Span(IF state.active = "none" THEN state.queue ELSE state.open)>>,
                    [terminal_cause |-> Text(name)])})
    /\ UNCHANGED <<state, transfer, span, prefills>>

-----------------------------------------------------------------------------
(* The worker adapter                                                      *)

CommunicationMeta ==
    [operation |-> Text("h2d_restore"), direction |-> Text("h2d"),
     transfer_id |-> Text("transfer"), block_set_id |-> Text("blocks"),
     recovery_profile |-> Text("rlp.kv-recovery/v1alpha1"),
     communication_mapping |-> Text(RecoveryMode), rank |-> Uint(0)]

Communication(name, start, end, meta) ==
    Draft("engine_sample", "external_evidence", name, <<state.epoch>>, start, end, <<>>, meta)

\* transfer_submitted of an H2D restore.
TransferSubmitted ==
    /\ Mode = RecoveryMode /\ host.stage = "preempted" /\ transfer = Absent
    /\ span < MaxSpans
    /\ transfer' = Span(span)
    /\ span' = span + 1
    /\ Offer({Communication("communication_started", Span(span), Absent, CommunicationMeta)})
    /\ UNCHANGED <<host, state, prefills>>

\* transfer_completed: without bytes the transfer is dropped.
TransferCompleted(bytes) ==
    /\ transfer # Absent
    /\ transfer' = Absent
    /\ IF bytes > 0
       THEN Offer({Communication("communication_done", Absent, transfer,
                                 [k \in DOMAIN CommunicationMeta \cup {"bytes_moved"} |->
                                     IF k = "bytes_moved" THEN Uint(bytes)
                                     ELSE CommunicationMeta[k]])})
       ELSE Offer({})
    /\ UNCHANGED <<host, state, span, prefills>>

-----------------------------------------------------------------------------
(* The native event sink and the lifecycle observer                        *)

\* NativeLifecycleEventSink.emit with _translate: an empty id is not offered.
NativeEvent(name, id, path) ==
    /\ host.stage # "new"
    /\ Offer(IF id = Empty THEN {} ELSE
             {Observed("external_evidence", name,
                 [k \in NativeKeys[name] |->
                     CASE k = "runtime_request_id" -> Text(id)
                       [] k \in {"session_present", "kv_reclaim_deferred"} -> Bool(TRUE)
                       [] k = "finished_reason" -> Text("stop")
                       [] k = "reclaim_path" -> Text(path)
                       [] k = "sequence_tokens" -> Uint(host.total + host.generated)
                       [] k = "prompt_tokens" -> Uint(host.total)
                       [] k = "output_tokens" -> Uint(host.generated)
                       [] OTHER -> Uint(0)])})
    /\ UNCHANGED <<host, state, transfer, span, prefills>>

\* resource_transition takes only positive units.
ResourceTransition(name, id, units) ==
    /\ units >= 1
    /\ Offer({Observed("engine_core", name,
                 [runtime_request_id |-> Text("request"), resource_type |-> Text("kv"),
                  resource_id |-> Text(id), resource_units |-> Uint(units),
                  resource_transition |-> Text(TransitionOf[name]),
                  worker_generation |-> Text("generation")])})
    /\ UNCHANGED <<host, state, transfer, span, prefills>>

\* worker_generation_exit; a worker that a signal ended has a negative code.
WorkerExit(code) ==
    /\ Offer({Draft("root_request", "frontend", "error", Absent, Absent, Absent, <<>>,
                    [terminal_cause |-> Text("engine_failure"),
                     worker_generation |-> Text("worker-0:10"),
                     worker_exit_code |-> Uint(code)])})
    /\ UNCHANGED <<host, state, transfer, span, prefills>>

-----------------------------------------------------------------------------
Init ==
    /\ host = [stage |-> "new", total |-> 0, done |-> 0, work |-> 0, steps |-> 0,
               generated |-> 0]
    /\ state = NoState
    /\ transfer = Absent /\ span = 0
    /\ refused = {} /\ prefills = {}

Next ==
    \/ \E n \in 1..MaxPrompt : Started(n) \/ PrefillScheduled(n)
    \/ \E n \in 1..MaxPrompt : \E c \in Cached : FirstScheduled(n, c)
    \/ DecodeScheduled \/ Preempted \/ AdmissionStarted
    \/ \E c \in Cached : Admitted(c)
    \/ \E g \in 0..2 : Complete(g)
    \/ \E name \in AbnormalTerminals : Abnormal(name)
    \/ TransferSubmitted
    \/ \E bytes \in 0..1 : TransferCompleted(bytes)
    \/ \E id \in HostTexts :
          \/ \E name \in DOMAIN NativeKeys : \E path \in {"immediate", "deferred"} :
                NativeEvent(name, id, path)
          \/ \E name \in DOMAIN TransitionOf : \E units \in 0..1 :
                ResourceTransition(name, id, units)
    \/ \E code \in ExitCodes : WorkerExit(code)

Spec == Init /\ [][Next]_vars

-----------------------------------------------------------------------------
(* Properties                                                              *)

TypeOK ==
    /\ host.stage \in {"new", "waiting", "running", "preempted", "admitting", "finished"}
    /\ state.computed \in 0..MaxPrompt /\ state.chunks \in 0..(MaxPrompt + 1)
    /\ state.epoch \in 0..MaxEpoch

\* Whatever the order of the host's calls, a draft of this repository's own
\* producers fails to build a record only for a text of the host that is no
\* bounded printable ASCII, or for the negative exit code of a killed worker:
\* never for a counter, a span or an identity.
RefusedForHostValuesOnly ==
    \A d \in refused : \E k \in DOMAIN d.meta :
        IF d.meta[k].type = "text" THEN d.meta[k].value \in {Unprintable, Overlong, Empty}
        ELSE k = "worker_exit_code" /\ d.meta[k].value < 0

\* In the first epoch the counters of the bridge follow the scheduler: tokens
\* in the cache or computed, and the number of prefill steps.
CountersFollowHost ==
    (state.epoch = 0 /\ state.active = "prefill" /\ host.stage = "running") =>
        state.computed = host.done /\ state.chunks = host.steps

\* A prefill that was not preempted and found nothing in the prefix cache
\* reports the tokens that were computed, all of the prompt.
ColdPrefillReportsWork ==
    \A p \in prefills : p.epoch = 0 /\ p.cached = 0 =>
        p.computed = p.work /\ p.computed = p.total /\ p.chunks = p.steps

\* A prefill that was not preempted reports the tokens that were computed.
PrefillReportsWork == \A p \in prefills : p.epoch = 0 => p.computed = p.work

\* The exit of a worker generation is recorded.
WorkerExitsRecorded ==
    \A d \in refused : "worker_exit_code" \notin DOMAIN d.meta

\* The records of the producers say what the host did, and none is refused for
\* what this repository put into it.
RecordsFaithful ==
    TypeOK /\ RefusedForHostValuesOnly /\ CountersFollowHost /\ ColdPrefillReportsWork
=============================================================================
