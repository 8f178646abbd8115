--------------------------- MODULE LifecycleBridge ---------------------------
(***************************************************************************)
(* RuntimeBaseLifecycleBridge and its two users in one process: the KV     *)
(* recovery scheduler adapter, on the engine core thread ("core"), and     *)
(* Issue19LifecycleObserver, called by the frontend and by the thread that *)
(* monitors the engine.  plugin.register_plugin gives both the same        *)
(* bridge.                                                                 *)
(*                                                                         *)
(* A critical section of the bridge's lock is one action.  Each record it  *)
(* emits may be refused by the sink, and the code stops at the first       *)
(* refusal: an operation has a script of events and edges of which only a  *)
(* part may be emitted.  Event identities are numbered per request; token  *)
(* counts, timestamps and wording are left out.                            *)
(***************************************************************************)
EXTENDS Naturals, Sequences, FiniteSets

CONSTANTS Requests,     \* runtime request ids
          MaxEpoch,     \* bound: preemptions of one request
          MaxRefusals,  \* bound: records the sink refuses
          Capacities    \* values of the capacity of bridge and observer

ASSUME BridgeAssumption ==
    /\ IsFiniteSet(Requests)
    /\ MaxEpoch \in Nat \ {0}
    /\ MaxRefusals \in Nat
    /\ Capacities \subseteq Nat \ {0}

VARIABLES
    capacity,   \* _capacity, given to the constructors
    state,      \* _runtime_states (and _identities, which has the same keys)
    episode,    \* _episodes
    call,       \* locals of the core thread inside emit_runtime_preempted
    host,       \* status of a request in the vLLM scheduler (external)
    epoch,      \* num_preemptions of a request in the vLLM scheduler (external)
    front,      \* calls of the observer for a request: "new", "starting",
                \* "started" or "finished"; "none" if no frontend runs in this process
    active,     \* _active_requests of the observer
    overlapped, \* requests whose terminal ran while request_started did
    sinkOpen,   \* whether the sink still accepts records
    refusals,   \* number of records refused while the sink was open
    log,        \* the events of a request that the sink accepted, in order
    edges,      \* the edges of a request that the sink accepted
    lossy,      \* requests that lost a base record, which the sink counts
    skipped     \* requests with a step that the bridge or adapter left out

bridgeVars == <<state, episode>>
hostVars == <<host, epoch, call>>
frontVars == <<front, active, overlapped>>
sinkVars == <<sinkOpen, refusals, log, edges, lossy>>
vars == <<capacity, state, episode, call, host, epoch, front, active, overlapped,
          sinkOpen, refusals, log, edges, lossy, skipped>>

Epochs == 1..MaxEpoch
Kinds == {"prefill", "decode"}
NoState == [queueStarted |-> 0]
NoEpisode == [preempted |-> 0]
NoCall == [at |-> "idle"]

Live == {r \in Requests : state[r] # NoState}
Computing == {r \in Live : state[r].activeStarted # 0}
Episodes == {k \in Requests \X Epochs : episode[k] # NoEpisode}

-----------------------------------------------------------------------------
(* Records.  A span or an event reference of 0 is Python's None.           *)

Event(name, e, start, ends) ==
    [name |-> name, epoch |-> e, start |-> start, ends |-> ends]

Edge(from, to) == <<from, to>>

\* What an operation emits: its events, and its edges, in order.
Script(events, links) == [events |-> events, edges |-> links]

\* The identity of the n-th event that the running operation emits.
Nth(r, n) == Len(log[r]) + n

\* hooks.new_span_id() for the span that this event starts: an identity that
\* no other event starts, so the number of the event will do.
NewSpan(r, n) == Nth(r, n)

\* The sink takes the first n events of the script, and its edges in kept.
Accept(r, script, n, kept) ==
    /\ log' = [log EXCEPT ![r] = @ \o SubSeq(script.events, 1, n)]
    /\ edges' = [edges EXCEPT ![r] = @ \cup {script.edges[i] : i \in kept}]

\* The whole script is accepted.
Emitted(r, script) ==
    /\ sinkOpen
    /\ log' = [log EXCEPT ![r] = @ \o script.events]
    /\ edges' = [edges EXCEPT ![r] = @ \cup {script.edges[i] : i \in DOMAIN script.edges}]
    /\ UNCHANGED <<sinkOpen, refusals, lossy>>

\* One of the given proper parts of the script is accepted, the rest refused:
\* as a loss the sink accounts for, or because the sink is closed meanwhile.
PartlyEmitted(r, script, parts) ==
    \/ /\ sinkOpen
       /\ \E part \in parts : Accept(r, script, part[1], part[2])
       /\ \/ /\ refusals < MaxRefusals
             /\ refusals' = refusals + 1
             /\ lossy' = lossy \cup {r}
             /\ UNCHANGED sinkOpen
          \/ /\ sinkOpen' = FALSE
             /\ UNCHANGED <<refusals, lossy>>
    \/ ~sinkOpen /\ UNCHANGED sinkVars

\* Where an operation that emits its events and then its edges can stop at a
\* refusal: <<events emitted, positions of the edges emitted>>.
StopPoints(script) ==
    {<<n, {}>> : n \in 0..(Len(script.events) - 1)}
        \cup {<<Len(script.events), 1..n>> : n \in 0..(Len(script.edges) - 1)}

Refused(r, script) == PartlyEmitted(r, script, StopPoints(script))

-----------------------------------------------------------------------------
(* Operations of the bridge, each one critical section.                    *)

\* register_runtime_request
RegisterRuntime(r) ==
    LET span == NewSpan(r, 1)
        script == Script(<<Event("queued", 0, span, {})>>, <<>>)
    IN  \/ /\ r \in Live \/ Cardinality(Live) >= capacity
           /\ UNCHANGED <<bridgeVars, sinkVars>>
        \/ /\ r \notin Live /\ Cardinality(Live) < capacity
           /\ Refused(r, script)
           /\ UNCHANGED bridgeVars
        \/ /\ r \notin Live /\ Cardinality(Live) < capacity
           /\ Emitted(r, script)
           /\ state' = [state EXCEPT ![r] =
                  [queueStarted |-> Nth(r, 1), queueSpan |-> span,
                   activeStarted |-> 0, activeSpan |-> 0, kind |-> "none",
                   epoch |-> 0]]
           /\ UNCHANGED episode

\* What emit_runtime_scheduled emits when a prefill span becomes a decode span.
PhaseChange(r) ==
    Script(<<Event("prefill_done", state[r].epoch, 0, {state[r].activeSpan}),
             Event("decode_started", state[r].epoch, NewSpan(r, 2), {})>>,
           <<Edge(state[r].activeStarted, Nth(r, 1)), Edge(Nth(r, 1), Nth(r, 2))>>)

\* What it emits when a queued request gets its first step.
FirstStep(r, kind) ==
    Script(<<Event("scheduled", state[r].epoch, 0, {state[r].queueSpan}),
             Event(kind, state[r].epoch, NewSpan(r, 2), {})>>,
           <<Edge(state[r].queueStarted, Nth(r, 1)), Edge(Nth(r, 1), Nth(r, 2))>>)

\* Both end with the event that starts the new active span.
Activated(r, kind) ==
    state' = [state EXCEPT ![r].activeStarted = Nth(r, 2),
                           ![r].activeSpan = NewSpan(r, 2),
                           ![r].kind = kind]

\* emit_runtime_scheduled
EmitScheduled(r, kind) ==
    /\ UNCHANGED episode
    /\ \/ r \notin Live /\ UNCHANGED <<state, sinkVars>>
       \/ /\ r \in Computing
          /\ state[r].kind = kind \/ kind = "prefill"
          /\ UNCHANGED <<state, sinkVars>>
       \/ /\ r \in Computing
          /\ state[r].kind = "prefill" /\ kind = "decode"
          /\ \/ Refused(r, PhaseChange(r)) /\ UNCHANGED state
             \/ Emitted(r, PhaseChange(r)) /\ Activated(r, kind)
       \/ /\ r \in Live \ Computing
          /\ \/ Refused(r, FirstStep(r, kind)) /\ UNCHANGED state
             \/ Emitted(r, FirstStep(r, kind)) /\ Activated(r, kind)

\* emit_preempted_and_requeued for the span that the caller read before.
PreemptScript(r, e, started, span) ==
    Script(<<Event("preempted", e - 1, 0, {span}), Event("requeued", e, NewSpan(r, 2), {})>>,
           <<Edge(started, Nth(r, 1)), Edge(Nth(r, 1), Nth(r, 2))>>)

\* The edge to preempted is emitted before requeued.
PreemptParts == {<<0, {}>>, <<1, {}>>, <<1, {1}>>, <<2, {1}>>}

\* A mistaken variant: the identity is not looked up again.
CanPreemptAnyway(r, e) ==
    /\ <<r, e>> \notin Episodes
    /\ Cardinality(Episodes) < capacity

CanPreempt(r, e) ==
    /\ r \in Live
    /\ <<r, e>> \notin Episodes
    /\ Cardinality(Episodes) < capacity

EpisodeOpened(r, e) ==
    episode' = [episode EXCEPT ![<<r, e>>] =
        [preempted |-> Nth(r, 1), requeued |-> Nth(r, 2), queueSpan |-> NewSpan(r, 2),
         admission |-> 0, admissionSpan |-> 0, resumed |-> 0, firstCompute |-> 0]]

\* emit_admission_started
CanStartAdmission(r, e) ==
    /\ r \in Live
    /\ <<r, e>> \in Episodes
    /\ episode[<<r, e>>].admission = 0

AdmissionScript(r, e) ==
    Script(<<Event("admission_started", e, NewSpan(r, 1), {episode[<<r, e>>].queueSpan})>>,
           <<Edge(episode[<<r, e>>].requeued, Nth(r, 1))>>)

EmitAdmissionStarted(r, e) ==
    /\ CanStartAdmission(r, e)
    /\ UNCHANGED state
    /\ \/ Refused(r, AdmissionScript(r, e)) /\ UNCHANGED episode
       \/ /\ Emitted(r, AdmissionScript(r, e))
          /\ episode' = [episode EXCEPT ![<<r, e>>].admission = Nth(r, 1),
                                        ![<<r, e>>].admissionSpan = NewSpan(r, 1)]

\* emit_resumed
CanResume(r, e) ==
    /\ r \in Live
    /\ <<r, e>> \in Episodes
    /\ episode[<<r, e>>].admission # 0
    /\ episode[<<r, e>>].resumed = 0

ResumeScript(r, e) ==
    Script(<<Event("resumed", e, 0, {episode[<<r, e>>].admissionSpan})>>,
           <<Edge(episode[<<r, e>>].admission, Nth(r, 1))>>)

EmitResumed(r, e) ==
    /\ CanResume(r, e)
    /\ UNCHANGED state
    /\ \/ Refused(r, ResumeScript(r, e)) /\ UNCHANGED episode
       \/ /\ Emitted(r, ResumeScript(r, e))
          /\ episode' = [episode EXCEPT ![<<r, e>>].resumed = Nth(r, 1)]

\* emit_first_compute
CanCompute(r, e) ==
    /\ r \in Live
    /\ <<r, e>> \in Episodes
    /\ episode[<<r, e>>].resumed # 0
    /\ episode[<<r, e>>].firstCompute = 0

FirstComputeScript(r, e, kind) ==
    Script(<<Event(kind, e, NewSpan(r, 1), {})>>,
           <<Edge(episode[<<r, e>>].resumed, Nth(r, 1))>>)

EmitFirstCompute(r, e, kind) ==
    /\ CanCompute(r, e)
    /\ \/ Refused(r, FirstComputeScript(r, e, kind)) /\ UNCHANGED bridgeVars
       \/ /\ Emitted(r, FirstComputeScript(r, e, kind))
          /\ episode' = [episode EXCEPT ![<<r, e>>].firstCompute = Nth(r, 1)]
          /\ state' = [state EXCEPT ![r].activeStarted = Nth(r, 1),
                                    ![r].activeSpan = NewSpan(r, 1),
                                    ![r].kind = kind]

\* The end of emit_runtime_terminal, whatever was emitted.
Retire(r) ==
    /\ state' = [state EXCEPT ![r] = NoState]
    /\ episode' = [k \in DOMAIN episode |-> IF k[1] = r THEN NoEpisode ELSE episode[k]]

\* A mistaken variant: the queue span is closed although a phase is active.
TerminalOfQueue(r) ==
    Script(<<Event("terminal", state[r].epoch, 0, {state[r].queueSpan})>>,
           <<Edge(state[r].queueStarted, Nth(r, 1))>>)

\* The event and span that an abnormal terminal closes.
TerminalScript(r) ==
    LET started == IF state[r].activeStarted # 0 THEN state[r].activeStarted
                                                 ELSE state[r].queueStarted
        span == IF state[r].activeSpan # 0 THEN state[r].activeSpan
                                           ELSE state[r].queueSpan
    IN  Script(<<Event("terminal", state[r].epoch, 0, {span})>>, <<Edge(started, Nth(r, 1))>>)

\* A normal one ends the phase first; both edges are tried in any case.
CompletionScript(r) ==
    Script(<<Event("phase_done", state[r].epoch, 0, {state[r].activeSpan}),
             Event("terminal", state[r].epoch, 0, {})>>,
           <<Edge(state[r].activeStarted, Nth(r, 1)), Edge(Nth(r, 1), Nth(r, 2))>>)

CompletionParts == {<<0, {}>>, <<1, {}>>, <<2, {}>>, <<2, {1}>>, <<2, {2}>>}

\* emit_runtime_terminal
EmitTerminal(r, cause) ==
    \/ /\ r \notin Live
       /\ UNCHANGED <<bridgeVars, sinkVars>>
    \/ /\ r \in Live
       /\ Retire(r)
       /\ \/ /\ cause = "complete"  \* no active phase, or no generated token
             /\ UNCHANGED sinkVars
          \/ /\ cause = "complete" /\ r \in Computing
             /\ \/ Emitted(r, CompletionScript(r))
                \/ PartlyEmitted(r, CompletionScript(r), CompletionParts)
          \/ /\ cause # "complete"
             /\ Emitted(r, TerminalScript(r)) \/ Refused(r, TerminalScript(r))

-----------------------------------------------------------------------------
(* The core thread: callbacks of the scheduler adapter, in the order in    *)
(* which the vLLM scheduler moves a request.                               *)

Idle == call = NoCall

\* request_started
CoreStarted(r) ==
    /\ Idle /\ host[r] = "new"
    /\ host' = [host EXCEPT ![r] = "waiting"]
    /\ RegisterRuntime(r)
    /\ UNCHANGED <<epoch, call, frontVars, skipped>>

\* request_scheduled.  A preempted request comes here without an admission
\* when its blocks are recomputed, and out of an admission only when the
\* adapter gave it up.
CoreScheduled(r, kind) ==
    /\ Idle
    /\ host[r] \in {"waiting", "running", "preempted", "admitted"}
    /\ host' = [host EXCEPT ![r] = "running"]
    /\ EmitScheduled(r, kind)
    /\ UNCHANGED <<epoch, call, frontVars, skipped>>

\* request_preempted: the first critical section of emit_runtime_preempted
\* reads the active span.
PreemptRead(r) ==
    /\ Idle /\ host[r] = "running" /\ epoch[r] < MaxEpoch
    /\ host' = [host EXCEPT ![r] = "preempted"]
    /\ epoch' = [epoch EXCEPT ![r] = @ + 1]
    /\ \/ /\ r \in Computing
          /\ call' = [at |-> "emit", request |-> r,
                      started |-> state[r].activeStarted, span |-> state[r].activeSpan]
          /\ UNCHANGED skipped
       \/ /\ r \notin Computing
          /\ skipped' = skipped \cup {r}
          /\ UNCHANGED call
    /\ UNCHANGED <<bridgeVars, frontVars, sinkVars>>

\* The second emits under the lock, with what the first has read.
PreemptEmit ==
    /\ call.at = "emit"
    /\ LET r == call.request
           e == epoch[r]
           script == PreemptScript(r, e, call.started, call.span)
       IN  \/ /\ ~CanPreempt(r, e)
              /\ call' = NoCall
              /\ skipped' = skipped \cup {r}
              /\ UNCHANGED <<episode, sinkVars>>
           \/ /\ CanPreempt(r, e)
              /\ PartlyEmitted(r, script, PreemptParts)
              /\ call' = NoCall
              /\ UNCHANGED <<episode, skipped>>
           \/ /\ CanPreempt(r, e)
              /\ Emitted(r, script)
              /\ EpisodeOpened(r, e)
              /\ call' = [at |-> "commit", request |-> r]
              /\ UNCHANGED skipped
    /\ UNCHANGED <<state, host, epoch, frontVars>>

\* A mistaken variant: the queue still starts at the first queued event.
RequeuedFromStart(r, e) ==
    [queueStarted |-> state[r].queueStarted, queueSpan |-> episode[<<r, e>>].queueSpan,
     activeStarted |-> 0, activeSpan |-> 0, kind |-> "none", epoch |-> e]

\* The state of a request in the epoch that its episode has opened.
Requeued(r, e) ==
    [queueStarted |-> episode[<<r, e>>].requeued, queueSpan |-> episode[<<r, e>>].queueSpan,
     activeStarted |-> 0, activeSpan |-> 0, kind |-> "none", epoch |-> e]

\* The third moves the request's state into the new epoch, if it still exists.
PreemptCommit ==
    /\ call.at = "commit"
    /\ LET r == call.request
       IN  IF r \in Live /\ <<r, epoch[r]>> \in Episodes
           THEN state' = [state EXCEPT ![r] = Requeued(r, epoch[r])]
           ELSE UNCHANGED state
    /\ call' = NoCall
    /\ UNCHANGED <<episode, host, epoch, frontVars, sinkVars, skipped>>

\* request_admission_started, once the restore's receipt has arrived.
CoreAdmission(r) ==
    /\ Idle /\ host[r] = "preempted"
    /\ host' = [host EXCEPT ![r] = "admitting"]
    /\ \/ EmitAdmissionStarted(r, epoch[r]) /\ UNCHANGED skipped
       \/ /\ ~CanStartAdmission(r, epoch[r])
          /\ skipped' = skipped \cup {r}
          /\ UNCHANGED <<bridgeVars, sinkVars>>
    /\ UNCHANGED <<epoch, call, frontVars>>

\* request_admitted: emit_runtime_resumed ...
CoreResumed(r) ==
    /\ Idle /\ host[r] = "admitting"
    /\ host' = [host EXCEPT ![r] = "resuming"]
    /\ \/ EmitResumed(r, epoch[r]) /\ UNCHANGED skipped
       \/ /\ ~CanResume(r, epoch[r])
          /\ skipped' = skipped \cup {r}
          /\ UNCHANGED <<bridgeVars, sinkVars>>
    /\ UNCHANGED <<epoch, call, frontVars>>

\* ... and emit_first_compute, before the adapter returns.
CoreFirstCompute(r, kind) ==
    /\ Idle /\ host[r] = "resuming"
    /\ host' = [host EXCEPT ![r] = "admitted"]
    /\ \/ EmitFirstCompute(r, epoch[r], kind) /\ UNCHANGED skipped
       \/ /\ ~CanCompute(r, epoch[r])
          /\ skipped' = skipped \cup {r}
          /\ UNCHANGED <<bridgeVars, sinkVars>>
    /\ UNCHANGED <<epoch, call, frontVars>>

\* The adapter leaves an admission when a profile record of it was refused;
\* the scheduler runs the request all the same.
CoreGivesUp(r) ==
    /\ Idle /\ host[r] = "admitting"
    /\ host' = [host EXCEPT ![r] = "admitted"]
    /\ skipped' = skipped \cup {r}
    /\ UNCHANGED <<bridgeVars, epoch, call, frontVars, sinkVars>>

\* request_terminal.  Only a running request completes; the scheduler's
\* request_admitted is not interrupted by its own thread.
CoreTerminal(r, cause) ==
    /\ Idle
    /\ IF cause = "complete" THEN host[r] = "running"
                             ELSE host[r] \notin {"new", "resuming", "finished"}
    /\ host' = [host EXCEPT ![r] = "finished"]
    /\ EmitTerminal(r, cause)
    /\ UNCHANGED <<epoch, call, frontVars, skipped>>

-----------------------------------------------------------------------------
(* The observer: request_started registers with the bridge, then takes its *)
(* own lock.  request_terminal, called at the end of a request and by      *)
(* engine_failure for every request, emits, then always discards.          *)

\* Only a request that the bridge has, or had already, is added.
FrontRegister(r) ==
    /\ front[r] = "new"
    /\ RegisterRuntime(r)
    /\ front' = [front EXCEPT ![r] = IF state'[r] # NoState THEN "starting" ELSE "started"]
    /\ UNCHANGED <<hostVars, active, overlapped, skipped>>

FrontActivate(r) ==
    /\ front[r] = "starting"
    /\ front' = [front EXCEPT ![r] = IF r \in overlapped THEN "finished" ELSE "started"]
    /\ active' = IF Cardinality(active) < capacity THEN active \cup {r} ELSE active
    /\ UNCHANGED <<bridgeVars, hostVars, overlapped, sinkVars, skipped>>

Discarded(r) == active' = active \ {r}

\* The call of a request's own consumer, after its start returned.
FrontTerminal(r, cause) ==
    /\ front[r] = "started"
    /\ front' = [front EXCEPT ![r] = "finished"]
    /\ EmitTerminal(r, cause)
    /\ Discarded(r)
    /\ UNCHANGED <<hostVars, overlapped, skipped>>

\* engine_failure, from the monitor thread, also while a request is starting.
EngineFailure(r) ==
    /\ front[r] \in {"starting", "started"} /\ r \notin overlapped
    /\ front' = [front EXCEPT ![r] = IF @ = "started" THEN "finished" ELSE @]
    /\ overlapped' = IF front[r] = "starting" THEN overlapped \cup {r} ELSE overlapped
    /\ EmitTerminal(r, "engine_failure")
    /\ Discarded(r)
    /\ UNCHANGED <<hostVars, skipped>>

-----------------------------------------------------------------------------
Init ==
    /\ capacity \in Capacities
    /\ state = [r \in Requests |-> NoState]
    /\ episode = [k \in Requests \X Epochs |-> NoEpisode]
    /\ call = NoCall
    /\ host = [r \in Requests |-> "new"]
    /\ epoch = [r \in Requests |-> 0]
    /\ \E f \in {"none", "new"} : front = [r \in Requests |-> f]
    /\ active = {}
    /\ overlapped = {}
    /\ sinkOpen = TRUE
    /\ refusals = 0
    /\ log = [r \in Requests |-> <<>>]
    /\ edges = [r \in Requests |-> {}]
    /\ lossy = {}
    /\ skipped = {}

Causes == {"complete", "explicit_cancel"}

CoreNext ==
    \/ PreemptEmit \/ PreemptCommit
    \/ \E r \in Requests :
          \/ CoreStarted(r) \/ PreemptRead(r) \/ CoreAdmission(r)
          \/ CoreResumed(r) \/ CoreGivesUp(r)
          \/ \E kind \in Kinds : CoreScheduled(r, kind) \/ CoreFirstCompute(r, kind)
          \/ \E cause \in Causes : CoreTerminal(r, cause)

FrontNext ==
    \E r \in Requests :
        \/ FrontRegister(r) \/ FrontActivate(r) \/ EngineFailure(r)
        \/ \E cause \in Causes : FrontTerminal(r, cause)

\* Every request is finished and no thread is inside a call.
Rest ==
    /\ Idle
    /\ \A r \in Requests : host[r] = "finished" /\ front[r] \in {"none", "new", "finished"}
    /\ UNCHANGED vars

Next == ((CoreNext \/ FrontNext) /\ UNCHANGED capacity) \/ Rest

Spec == Init /\ [][Next]_vars

-----------------------------------------------------------------------------
(* Properties                                                              *)

\* The spans that the events of a log start, the events that end one of them,
\* the spans that no event ends, and the events with a name.
Started(l) == {l[i].start : i \in DOMAIN l} \ {0}
EndsOf(l, s) == {i \in DOMAIN l : s \in l[i].ends}
Open(l) == {s \in Started(l) : EndsOf(l, s) = {}}
Named(l, name) == {i \in DOMAIN l : l[i].name = name}

\* Nothing of the request is missing from the trace so far; a sink that is
\* closed while requests are running cuts their lifecycles at any record.
Clean(r) == sinkOpen /\ r \notin lossy \cup skipped

\* The frontend has not ended the request on the bridge, which it shares with
\* the scheduler adapter.
OneOwner(r) == front[r] # "finished" /\ r \notin overlapped

\* Registered and retired at most once, as a lifecycle should be.
OneLife(r) == Cardinality(Named(log[r], "queued")) <= 1

\* The episode of the request's epoch; NoEpisode before its first preemption.
EpisodeNow(r) == IF epoch[r] = 0 THEN NoEpisode ELSE episode[<<r, epoch[r]>>]

\* The span that the bridge would end next.  Until emit_runtime_preempted has
\* returned, the state still holds the active span of the epoch before.
Current(r) ==
    LET now == EpisodeNow(r)
    IN  IF state[r].activeSpan # 0 /\ (now = NoEpisode \/ state[r].epoch = epoch[r])
        THEN {state[r].activeSpan}
        ELSE IF now = NoEpisode THEN {state[r].queueSpan}
        ELSE IF now.admission = 0 THEN {now.queueSpan}
        ELSE IF now.resumed = 0 THEN {now.admissionSpan}
        ELSE {}

StateRecord ==
    [queueStarted : Nat \ {0}, queueSpan : Nat, activeStarted : Nat, activeSpan : Nat,
     kind : Kinds \cup {"none"}, epoch : Nat]

EpisodeRecord ==
    [preempted : Nat \ {0}, requeued : Nat \ {0}, queueSpan : Nat, admission : Nat,
     admissionSpan : Nat, resumed : Nat, firstCompute : Nat]

CallRecord ==
    [at : {"emit"}, request : Requests, started : Nat, span : Nat]
        \cup [at : {"commit"}, request : Requests]

EventNames ==
    {"queued", "scheduled", "prefill", "decode", "prefill_done", "decode_started",
     "preempted", "requeued", "admission_started", "resumed", "phase_done", "terminal"}

EventRecord == [name : EventNames, epoch : Nat, start : Nat, ends : SUBSET Nat]

TypeOK ==
    /\ capacity \in Capacities
    /\ state \in [Requests -> StateRecord \cup {NoState}]
    /\ \A r \in Live :
          /\ {state[r].queueStarted, state[r].activeStarted} \subseteq 0..Len(log[r])
          /\ state[r].epoch \in 0..epoch[r]
    /\ episode \in [Requests \X Epochs -> EpisodeRecord \cup {NoEpisode}]
    /\ \A k \in Episodes : episode[k].requeued \in 1..Len(log[k[1]])
    /\ call \in CallRecord \cup {NoCall}
    /\ host \in [Requests -> {"new", "waiting", "running", "preempted", "admitting",
                              "resuming", "admitted", "finished"}]
    /\ epoch \in [Requests -> 0..MaxEpoch]
    /\ front \in [Requests -> {"none", "new", "starting", "started", "finished"}]
    /\ active \subseteq Requests /\ overlapped \subseteq Requests
    /\ sinkOpen \in BOOLEAN
    /\ refusals \in 0..MaxRefusals
    /\ log \in [Requests -> Seq(EventRecord)]
    /\ DOMAIN edges = Requests
    /\ lossy \subseteq Requests /\ skipped \subseteq Requests

\* As long as a request is registered and no record of it was lost, the
\* trace has exactly one open span, the one that the bridge holds as queue,
\* admission or active span; between resumed and the first compute, none.
\* The span is tracked in two tables that are updated in different critical
\* sections (kv_recovery_runtime.py:504-515, 848-855).
OpenSpanIsCurrent ==
    \A r \in Live : Clean(r) /\ OneLife(r) => Open(log[r]) = Current(r)

\* A lossless lifecycle that was terminated outside of an admission has
\* started and ended each of its spans exactly once, and its terminal is
\* its last event.
SpansBalanced ==
    \A r \in Requests :
        Clean(r) /\ OneLife(r) /\ OneOwner(r) /\ r \notin Live =>
            \A t \in Named(log[r], "terminal") :
                /\ t = Len(log[r])
                /\ log[r][t - 1].name \notin {"admission_started", "resumed"} =>
                      \A s \in Started(log[r]) : Cardinality(EndsOf(log[r], s)) = 1

\* The contract's rule: the terminal of a lifecycle that was registered once and
\* ended by its one owner leaves no open span.  In the admission window the
\* terminal names the queue span, which admission_started has ended, and not the
\* admission span, which is open (kv_recovery_runtime.py:919-920).
TerminalClosesOpen ==
    \A r \in Requests :
        Clean(r) /\ OneLife(r) /\ OneOwner(r) /\ Named(log[r], "terminal") # {} =>
            Open(log[r]) = {}

\* In a lossless lifecycle the event that ends a span has a program-order
\* edge from the event that started it: the pairs (started, span) that the
\* bridge keeps never drift apart.
EdgesMatchSpans ==
    \A r \in Requests : Clean(r) =>
        \A i, j \in DOMAIN log[r] :
            log[r][i].start \in log[r][j].ends => <<i, j>> \in edges[r]

\* The epoch of an event is the number of requeues before and including it:
\* preempted still belongs to the old epoch, and no callback that is late or
\* repeated writes into an epoch that is over or has not begun.
EpochsFollowRequeues ==
    \A r \in Requests : Clean(r) /\ OneLife(r) /\ OneOwner(r) =>
        \A i \in DOMAIN log[r] :
            log[r][i].epoch = Cardinality({j \in Named(log[r], "requeued") : j <= i})

\* A retired request leaves no episode behind, also when the terminal runs
\* between the critical sections of a preemption (line 540 checks the
\* identity again); otherwise the bounded table would fill up for good.
RetiredLeavesNothing == \A k \in Episodes : k[1] \in Live

\* Each lifecycle has exactly one effective terminal.
OneTerminal == \A r \in Requests : Cardinality(Named(log[r], "terminal")) <= 1

\* No request that the observer has started and ended is listed as active.  The
\* code does not keep this: an engine_failure between the two locks of
\* request_started discards the request before it is added, and nothing removes
\* it afterwards (issue19_lifecycle.py:104-109).
FinishedIsInactive == \A r \in active : front[r] # "finished"

\* What it keeps: the request_terminal that begins after request_started has
\* returned, or an engine_failure then, leaves the request off the list.
TerminalAfterStartInactive ==
    \A r \in active : front[r] = "finished" => r \in overlapped

\* The spans of the trace follow the state of the bridge.
SpansConsistent == TypeOK /\ OpenSpanIsCurrent /\ SpansBalanced

\* Edges and epochs of the trace follow preemptions and requeues.
EpochsConsistent == EdgesMatchSpans /\ EpochsFollowRequeues

\* A request that was retired, on whichever thread and between whichever critical
\* sections, has no entry in the bridge's tables of states and episodes; the
\* observer's list forgets those whose terminal did not overlap their start.
RetiredIsForgotten == RetiredLeavesNothing /\ TerminalAfterStartInactive
=============================================================================
