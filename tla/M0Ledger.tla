------------------------------- MODULE M0Ledger -------------------------------
(***************************************************************************)
(* The resource evidence of one M0 lifecycle                               *)
(* (.benchmarks/run_issue19_m0_baseline.py).  A service holds KV capacity  *)
(* leases, observed by EngineCore, and offload transfers, observed by its  *)
(* worker; each process exports what it observes through an asynchronous   *)
(* writer.  In the fault arm the runner arms a failure injector, waits for *)
(* the fsync-backed witness of one pending transfer and kills the worker,  *)
(* whose queued rows are lost.  In the control arm the service is stopped. *)
(* Then _resource_ledger and the verdict of _analyze or                    *)
(* _normal_control_analysis are taken from what is on disk.                *)
(*                                                                         *)
(* The service is external: what it does is what the hooks of the plugin   *)
(* observe.  Timestamps are left out: the rows of a resource are written   *)
(* by one process in the order of their timestamps, and the exit of the    *)
(* worker is seen after everything it observed.  Rows that _resource_ledger*)
(* finds malformed are refused at the source (LifecycleRecords).           *)
(***************************************************************************)
EXTENDS Naturals, Sequences, SequencesExt, FiniteSets

CONSTANTS Jobs,      \* offload transfers
          Leases,    \* KV capacity leases
          Arms,      \* the arms explored, a subset of {"fault", "control"}
          None

\* What the constants are.
LedgerConstants ==
    /\ Arms \subseteq {"fault", "control"}
    /\ Jobs \cap Leases = {} /\ IsFiniteSet(Jobs) /\ IsFiniteSet(Leases)

VARIABLES arm,      \* which arm this run is
          held,     \* what each resource really is (external)
          worker,   \* "up", "armed", "stalled", "killed" or "closed"
          engine,   \* "up", "seen" (it saw the worker exit), "closed", "killed"
                    \* or "stopped" (the run failed)
          queue,    \* rows each process has observed and not yet written
          shard,    \* rows of each process on disk
          summary,  \* the processes whose shards have a summary
          witness,  \* the transfer the injector witnessed, or None
          report    \* the analysis, or None

service == <<held, worker, engine>>
vars == <<arm, held, worker, engine, queue, shard, summary, witness, report>>

Processes == {"worker", "engine"}
Resources == Jobs \cup Leases

Row(stream, kind, r) == [stream |-> stream, kind |-> kind, of |-> r]
Base(kind, r) == Row("base", kind, r)
Profile(kind, r) == Row("profile", kind, r)

-----------------------------------------------------------------------------
(* The service *)

Observe(p, rows) == queue' = [queue EXCEPT ![p] = @ \o rows]

Become(r, s) == held' = [held EXCEPT ![r] = s]

(* A lease is acquired and closed by EngineCore, which may forget one.      *)
LeaseStep(l) ==
    /\ engine = "up"
    /\ \/ /\ held[l] = "free"
          /\ Become(l, "held")
          /\ Observe("engine", <<Base("acquire", l)>>)
       \/ /\ held[l] = "held"
          /\ Become(l, "closed")
          /\ \E kind \in {"release", "policy_retain"} :
                Observe("engine", <<Base(kind, l)>>)
    /\ UNCHANGED <<arm, worker, engine, shard, summary, witness, report>>

(* The worker submits a transfer; the resource seam and the transfer seam   *)
(* observe it one after the other.                                          *)
Submit(j) ==
    /\ worker \in {"up", "armed"}
    /\ held[j] = "free"
    /\ Become(j, "held")
    /\ \/ Observe("worker", <<Base("acquire", j), Base("transfer_pending", j),
                              Profile("submit", j)>>)
       \/ Observe("worker", <<Base("acquire", j), Profile("submit", j),
                              Base("transfer_pending", j)>>)
    /\ UNCHANGED <<arm, worker, engine, shard, summary, witness, report>>

Finish(j) ==
    /\ worker \in {"up", "armed"}
    /\ held[j] = "held"
    /\ Become(j, "closed")
    /\ Observe("worker", <<Profile("done", j), Base("release", j)>>)
    /\ UNCHANGED <<arm, worker, engine, shard, summary, witness, report>>

(* The writer of a process takes the oldest row.                            *)
Flush(p) ==
    /\ queue[p] # <<>>
    /\ p = "worker" => worker \in {"up", "armed", "stalled"}
    /\ p = "engine" => engine \in {"up", "seen"}
    /\ shard' = [shard EXCEPT ![p] = Append(@, Head(queue[p]))]
    /\ queue' = [queue EXCEPT ![p] = Tail(@)]
    /\ UNCHANGED <<arm, service, summary, witness, report>>

(* EngineCore sees the worker exit: the generation exit is observed, unless *)
(* its record is refused, and the leases still held are invalidated, all    *)
(* but those EngineCore has lost track of.                                  *)
SeeExit ==
    /\ worker = "killed" /\ engine = "up"
    /\ engine' = "seen"
    /\ \E lost \in SUBSET {l \in Leases : held[l] = "held"}, refused \in BOOLEAN :
        LET open == {l \in Leases : held[l] = "held"} \ lost
        IN  /\ held' = [r \in Resources |-> IF r \in open THEN "closed" ELSE held[r]]
            /\ Observe("engine",
                   (IF refused THEN <<>> ELSE <<Base("exit", None)>>)
                   \o SetToSeq({Base("invalidate", l) : l \in open}))
    /\ UNCHANGED <<arm, worker, shard, summary, witness, report>>

(* A clean end drains the queue and writes the summary.                     *)
Close(p) ==
    /\ shard' = [shard EXCEPT ![p] = @ \o queue[p]]
    /\ queue' = [queue EXCEPT ![p] = <<>>]
    /\ summary' = summary \cup {p}

-----------------------------------------------------------------------------
(* The runner *)

Arm ==
    /\ arm = "fault" /\ worker = "up"
    /\ worker' = "armed"
    /\ UNCHANGED <<arm, held, engine, queue, shard, summary, witness, report>>

(* The injector stops the worker at a transfer that is pending.             *)
Witness(j) ==
    /\ worker = "armed" /\ held[j] = "held"
    /\ witness' = j
    /\ worker' = "stalled"
    /\ UNCHANGED <<arm, held, engine, queue, shard, summary, report>>

(* The runner kills the worker: what it has not written is lost.            *)
Kill ==
    /\ worker = "stalled"
    /\ worker' = "killed"
    /\ queue' = [queue EXCEPT !["worker"] = <<>>]
    /\ UNCHANGED <<arm, held, engine, shard, summary, witness, report>>

(* The service ends by itself once EngineCore saw the exit of the worker.   *)
EngineEnds ==
    /\ engine = "seen"
    /\ engine' = "closed"
    /\ Close("engine")
    /\ UNCHANGED <<arm, held, worker, witness, report>>

(* No witness in time, or a service that outlives its worker: the run fails,*)
(* the service is stopped and nothing is analysed.                          *)
GiveUp ==
    /\ arm = "fault"
    /\ \/ worker = "armed" /\ engine = "up"
       \/ worker = "killed" /\ engine \in {"up", "seen"}
    /\ engine' = "stopped"
    /\ worker' = IF worker = "killed" THEN "killed" ELSE "closed"
    /\ UNCHANGED <<arm, held, queue, shard, summary, witness, report>>

(* _graceful_stop_service of a healthy service: EngineCore and worker drain *)
(* and close, the worker first.                                             *)
StopWorker ==
    /\ arm = "control" /\ worker = "up"
    /\ worker' = "closed"
    /\ Close("worker")
    /\ UNCHANGED <<arm, held, engine, witness, report>>

StopEngine ==
    /\ arm = "control" /\ worker = "closed" /\ engine = "up"
    /\ engine' = "closed"
    /\ Close("engine")
    /\ UNCHANGED <<arm, held, worker, witness, report>>

(* _terminate_process_group: the group is killed when it does not end.      *)
KillGroup ==
    /\ arm = "control" /\ engine = "up"
    /\ engine' = "killed"
    /\ worker' = IF worker = "closed" THEN "closed" ELSE "killed"
    /\ queue' = [p \in Processes |-> <<>>]
    /\ UNCHANGED <<arm, held, shard, summary, witness, report>>

-----------------------------------------------------------------------------
(* _resource_ledger *)

Persisted == shard["worker"] \o shard["engine"]

Has(row) == row \in Range(Persisted)

Rows(r) ==
    LET own == SelectSeq(Persisted, LAMBDA row : row.stream = "base" /\ row.of = r)
    IN [i \in DOMAIN own |-> own[i].kind]

(* The admitted pair is rebuilt from the witness; of the trace only later   *)
(* closures are kept.                                                       *)
Witnessed(rows) ==
    <<"acquire", "transfer_pending">>
    \o SelectSeq(rows, LAMBDA k : k \notin {"acquire", "transfer_pending"})

Transitions(r) == IF r = witness THEN Witnessed(Rows(r)) ELSE Rows(r)

Grouped == {r \in Resources : Transitions(r) # <<>>}

ProfileTransfers ==
    {j \in Jobs : Has(Profile("submit", j)) \/ j = witness}

\* A mistaken variant: a lease that was only acquired is in order.
ExpectedOpenLease(r) ==
    IF r \in Leases THEN {<<"acquire">>, <<"acquire", "release">>,
                          <<"acquire", "policy_retain">>, <<"acquire", "invalidate">>}
    ELSE {<<"acquire", "transfer_pending", "release">>,
          <<"acquire", "transfer_pending", "invalidate">>}

Expected(r) ==
    IF r \in Leases THEN {<<"acquire", "release">>, <<"acquire", "policy_retain">>,
                          <<"acquire", "invalidate">>}
    ELSE {<<"acquire", "transfer_pending", "release">>,
          <<"acquire", "transfer_pending", "invalidate">>}

(* Closed by the exit of its generation, when exactly one exit was observed.*)
ExternallyClosed(r) ==
    /\ arm = "fault" /\ r \in Jobs
    /\ Transitions(r) = <<"acquire", "transfer_pending">>
    /\ Has(Base("exit", None))

OutOfOrder == {r \in Grouped : Transitions(r) \notin Expected(r) /\ ~ExternallyClosed(r)}

(* A transfer that the profile says is done lacks its release observation.  *)
ProfileDone(r) == r \in ProfileTransfers /\ Has(Profile("done", r))

Orphans ==
    {r \in OutOfOrder :
        /\ ~ProfileDone(r)
        /\ Transitions(r) \in {<<"acquire">>, <<"acquire", "transfer_pending">>}}

LedgerErrors ==
    (IF Grouped \cap Jobs = {} \/ Grouped \cap Leases = {}
     THEN {"missing_resource_types"} ELSE {})
    \cup (IF ProfileTransfers # Grouped \cap Jobs
          THEN {"transfer_profile_ledger_mismatch"} ELSE {})
    \cup (IF \E r \in OutOfOrder : ProfileDone(r)
          THEN {"missing_release_observation"} ELSE {})
    \cup (IF \E r \in OutOfOrder : ~ProfileDone(r) /\ r \notin Orphans
          THEN {"invalid_resource_sequence"} ELSE {})

-----------------------------------------------------------------------------
(* The verdict *)

(* Shards that started and have no summary.                                 *)
UnclosedShards == Processes \ summary

(* Only the two shards of the killed worker may lack their summary.         *)
ExternallyClosedShards ==
    IF arm = "fault" /\ UnclosedShards = {"worker"} THEN UnclosedShards ELSE {}

(* Every transfer with a profile row was submitted once.                    *)
TransferRecordsValid ==
    \A j \in Jobs : Has(Profile("done", j)) => Has(Profile("submit", j))

(* Loss records, summaries that say less than all and incomplete_files fail *)
(* the check as well, but come to nothing in these cases: the runner's      *)
(* shards have their formal names from the start.                           *)
ObserverComplete ==
    /\ UnclosedShards = ExternallyClosedShards
    /\ arm = "fault" => TransferRecordsValid

FailureWitnessed == witness # None /\ Has(Base("exit", None))

Analysis ==
    LET complete == LedgerErrors = {} /\ Grouped # {}
    IN [complete |-> complete,
        errors |-> LedgerErrors,
        orphans |-> Orphans,
        external |-> {r \in Grouped : ExternallyClosed(r)},
        observer |-> ObserverComplete,
        valid |-> /\ ObserverComplete /\ complete
                  /\ IF arm = "fault" THEN FailureWitnessed ELSE Orphans = {}]

Analyze ==
    /\ engine \in {"closed", "killed"}
    /\ report = None
    /\ report' = Analysis
    /\ UNCHANGED <<arm, service, queue, shard, summary, witness>>

Init ==
    /\ arm \in Arms
    /\ held = [r \in Resources |-> "free"]
    /\ worker = "up" /\ engine = "up"
    /\ queue = [p \in Processes |-> <<>>]
    /\ shard = [p \in Processes |-> <<>>]
    /\ summary = {} /\ witness = None /\ report = None

Rest == (report # None \/ engine = "stopped") /\ UNCHANGED vars

Next ==
    \/ \E l \in Leases : LeaseStep(l)
    \/ \E j \in Jobs : Submit(j) \/ Finish(j) \/ Witness(j)
    \/ \E p \in Processes : Flush(p)
    \/ SeeExit \/ Arm \/ Kill \/ EngineEnds \/ GiveUp
    \/ StopWorker \/ StopEngine \/ KillGroup
    \/ Analyze \/ Rest

Spec == Init /\ [][Next]_vars

-----------------------------------------------------------------------------
(* Properties *)

Analyzed == report # None

Open(S) == {r \in S : held[r] = "held"}

(* The transfer the injector witnessed is accounted for whatever part of    *)
(* its rows the killed worker's writer had reached: once the exit of the    *)
(* generation was observed it is closed by that exit, never an orphan and   *)
(* never invalid evidence (run_issue19_m0_baseline.py:963-975).             *)
WitnessSettled ==
    (Analyzed /\ arm = "fault" /\ Has(Base("exit", None))) =>
        /\ witness \in report.external
        /\ "invalid_resource_sequence" \notin report.errors

(* Of a service that ended cleanly the ledger is exact: its orphans are the *)
(* resources that the service really still holds, and nothing is an error   *)
(* but a resource type that was never used.                                 *)
ControlLedgerIsExact ==
    (Analyzed /\ arm = "control" /\ report.observer) =>
        /\ report.orphans = Open(Resources)
        /\ report.errors \subseteq {"missing_resource_types"}

(* Killing the worker hides no lease: EngineCore's shard is complete, so in *)
(* either arm, when the observers are complete, the leases counted orphan   *)
(* are exactly those still held.                                            *)
LeaksReported ==
    (Analyzed /\ report.observer) => report.orphans \cap Leases = Open(Leases)

(* docs/issue19_public_evidence.md 83-84: "the evaluator distinguished      *)
(* expected fault noncompletion, invalid evidence, and a state-conservation *)
(* failure".  In valid evidence of the fault arm, a transfer that died with *)
(* the killed generation is not a conservation failure.                     *)
FaultIsNoOrphan ==
    (Analyzed /\ arm = "fault" /\ report.valid) => report.orphans \cap Jobs = {}
=============================================================================
