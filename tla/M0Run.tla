-------------------------------- MODULE M0Run --------------------------------
(***************************************************************************)
(* One M0 lifecycle (.benchmarks/run_issue19_m0_baseline.py): the clients  *)
(* with their faults, the polling of the control endpoint                  *)
(* (issue19_control.py), the injected exit of the worker and the verdict   *)
(* of _analyze or _normal_control_analysis on clients and terminals.       *)
(*                                                                         *)
(* A request is named by its role.  "survivor" stands for every role that  *)
(* has to complete.  The initial group is a slice of the 63 clients, which *)
(* meet only in the polls of the runner: what concerns a role outside the  *)
(* slice is taken as in order.  The service is external: an API process,   *)
(* which answers the clients, and EngineCore, each recording the terminals *)
(* it sees.  What M0Ledger decides (observers and resources) and the       *)
(* recovery chain, which KVRecovery models, are taken as complete here.    *)
(***************************************************************************)
EXTENDS Naturals, Sequences, FiniteSets, Functions

CONSTANTS Groups,   \* the initial groups explored: sets of roles
          Arms,     \* the arms explored, a subset of {"fault", "control"}
          None

Roles == {"survivor", "disconnect", "timeout", "duplicate", "worker"}
Faulty == Roles \ {"survivor"}

ASSUME RunAssumption ==
    /\ Arms \subseteq {"fault", "control"}
    /\ \A g \in Groups : g \subseteq Roles \ {"worker"}
    /\ None \notin Nat

VARIABLES arm, group,
          phase,     \* where the runner is
          client,    \* where each _run_request is
          expected,  \* expected_fault_observed so far, per client
          closed,    \* the clients that have closed their connection
          result,    \* the RequestResult of each client, or None
          out,       \* what the service has sent each client
          lines,     \* the clients with a line to read that says nothing of this
          api,       \* each request in the API process
          eng,       \* each request in EngineCore
          chain,     \* the terminals recorded for each request, in order
          attempts,  \* abort attempts the observer of the API has counted
          service,   \* "up", "dying" (the worker was killed) or "down"
          snap,      \* the last state polled, or None
          quiet,     \* whether the runner saw quiescence
          report     \* the analysis, or None

clients == <<client, expected, closed, result>>
served == <<out, lines, api, eng, chain>>
run == <<phase, service, snap, quiet, report>>
vars == <<arm, group, clients, served, attempts, run>>

Requests == group \cup {"worker"}

(* _role_for_ordinal: in the control arm every fault is disabled.           *)
Role(r) == IF arm = "control" THEN "survivor" ELSE r

-----------------------------------------------------------------------------
(* The service *)

Terminal(by, name, cause) == [by |-> by, name |-> name, cause |-> cause]

Recorded(r, t) == chain' = [chain EXCEPT ![r] = Append(@, t)]

Put(f, r, v) == [f EXCEPT ![r] = v]

(* The API takes a request, even one its client has given up, or refuses it.*)
Accept(r) ==
    /\ service = "up" /\ client[r] # "idle"
    /\ api[r] = "none" /\ out[r] = "none"
    /\ \/ api' = Put(api, r, "active") /\ out' = Put(out, r, "headers")
       \/ api' = api /\ out' = Put(out, r, "refused")
       \/ api' = api /\ out' = Put(out, r, "reset")
    /\ UNCHANGED <<arm, group, clients, lines, eng, chain, attempts, run>>

(* One more line of a stream, a token or a comment: the service may go on   *)
(* like this for ever.                                                      *)
Line(r) ==
    /\ service # "down" /\ out[r] \in {"headers", "data"}
    /\ r \notin closed \cup lines
    /\ lines' = lines \cup {r}
    /\ UNCHANGED <<arm, group, clients, out, api, eng, chain, attempts, run>>

Compute(r) ==
    /\ service = "up" /\ api[r] = "active"
    /\ \/ eng[r] = "none" /\ eng' = Put(eng, r, "active") /\ out' = out
       \/ eng[r] = "active" /\ out[r] = "headers"
          /\ eng' = eng /\ out' = Put(out, r, "data")
    /\ UNCHANGED <<arm, group, clients, lines, api, chain, attempts, run>>

(* The last token, found by EngineCore or, for a stop string, by the API    *)
(* while EngineCore goes on until it is told.                               *)
Complete(r) ==
    /\ service = "up" /\ api[r] = "active" /\ eng[r] = "active"
    /\ out[r] = "data"
    /\ api' = Put(api, r, "ended")
    /\ out' = Put(out, r, "done")
    /\ eng' \in {eng, Put(eng, r, "ended")}
    /\ Recorded(r, Terminal("api", "generation_done", "complete"))
    /\ UNCHANGED <<arm, group, clients, lines, attempts, run>>

(* The API ends a request whose client has gone, or that it cannot serve.   *)
Drop(r) ==
    /\ service = "up" /\ api[r] = "active"
    /\ api' = Put(api, r, "ended")
    /\ \/ /\ r \in closed
          /\ Recorded(r, Terminal("api", "aborted",
                 IF r = "timeout" THEN "client_timeout" ELSE "client_disconnect"))
          /\ out' = out
       \/ /\ Recorded(r, Terminal("api", "error", "error"))
          /\ \E o \in {"error", "reset"} : out' = Put(out, r, o)
    /\ UNCHANGED <<arm, group, clients, lines, eng, attempts, run>>

(* EngineCore follows the end it is told of; it may know the request no more.*)
EngineAbort(r) ==
    /\ service = "up" /\ api[r] = "ended" /\ eng[r] = "active"
    /\ eng' = Put(eng, r, "ended")
    /\ \/ Recorded(r, Terminal("engine", "aborted", "explicit_cancel"))
       \/ chain' = chain
    /\ UNCHANGED <<arm, group, clients, lines, out, api, attempts, run>>

(* After the exit of the worker EngineCore and the API fail what they hold; *)
(* EngineCore may leave the report to the API.                              *)
FailHeld(r) ==
    /\ service = "dying"
    /\ \/ /\ eng[r] = "active"
          /\ eng' = Put(eng, r, "ended")
          /\ \/ Recorded(r, Terminal("engine", "error", "engine_failure"))
             \/ chain' = chain
          /\ UNCHANGED <<out, api>>
       \/ /\ api[r] = "active" /\ eng[r] # "active"
          /\ api' = Put(api, r, "ended")
          /\ Recorded(r, Terminal("api", "error", "engine_failure"))
          /\ \E o \in {"error", "reset"} : out' = Put(out, r, o)
          /\ eng' = eng
    /\ UNCHANGED <<arm, group, clients, lines, attempts, run>>

GoDown ==
    /\ service = "dying"
    /\ \A r \in Requests : api[r] # "active" /\ eng[r] # "active"
    /\ service' = "down"
    /\ UNCHANGED <<arm, group, clients, served, attempts, phase, snap, quiet, report>>

-----------------------------------------------------------------------------
(* _run_request *)

Result(status, done, observed, error, how) ==
    [status |-> status, done |-> done, expected |-> observed, error |-> error,
     how |-> how]

Ended(r, res) ==
    /\ client' = Put(client, r, "done")
    /\ closed' = closed \cup {r}
    /\ result' = Put(result, r, res)
    /\ expected' = expected
    /\ lines' = lines \ {r}
    /\ UNCHANGED <<arm, group, out, api, eng, chain, attempts, run>>

Continue(r, state) ==
    /\ client' = Put(client, r, state)
    /\ UNCHANGED <<arm, group, expected, closed, result, served, attempts, run>>

Send(r) ==
    /\ client[r] = "idle"
    /\ phase = (IF r = "worker" THEN "worker" ELSE "initial")
    /\ Continue(r, "sent")

Answered(r) ==
    /\ client[r] = "sent" /\ out[r] \in {"headers", "data", "done", "error"}
    /\ Continue(r, IF Role(r) = "duplicate" THEN "waiting" ELSE "reading")

RefusedStatus(r) ==
    /\ client[r] = "sent" /\ out[r] = "refused"
    /\ Ended(r, Result(500, FALSE, expected[r], TRUE, "refused"))

(* Every exception ends in the same handler, which counts a broken or timed *)
(* out connection as the expected fault of a role that has one.             *)
Raised(r, status, how) ==
    Ended(r, Result(status, FALSE, expected[r] \/ Role(r) \in Faulty, TRUE, how))

Status(r) == IF client[r] = "sent" THEN None ELSE 200

Broken(r) ==
    /\ client[r] \in {"sent", "reading"}
    /\ out[r] = "reset" \/ service = "down"
    /\ Raised(r, Status(r), "broken")

(* The timeout of the socket is for one read: it starts anew with each line.*)
SocketTimeout(r) ==
    /\ \/ client[r] = "sent"
       \/ client[r] = "reading" /\ Role(r) # "timeout" /\ r \notin lines
    /\ Raised(r, Status(r), "timeout")

(* The next turn of the loop in _read_stream.  What ends it is below.       *)
ReadLine(r) ==
    /\ client[r] = "reading" /\ r \in lines
    /\ lines' = lines \ {r}
    /\ UNCHANGED <<arm, group, clients, out, api, eng, chain, attempts, run>>

(* The stream ends without an error and without [DONE].                     *)
EndOfStream(r) ==
    /\ client[r] = "reading" /\ service = "down"
    /\ Ended(r, Result(200, FALSE, expected[r] \/ Role(r) = "worker", FALSE, "eof"))

Deadline(r) ==
    /\ client[r] = "reading" /\ Role(r) = "timeout"
    /\ Ended(r, Result(200, FALSE, TRUE, FALSE, "deadline"))

DisconnectAfterFirst(r) ==
    /\ client[r] = "reading" /\ Role(r) = "disconnect" /\ out[r] \in {"data", "done"}
    /\ Ended(r, Result(200, FALSE, TRUE, FALSE, "disconnected"))

(* [DONE], after the tokens or after an error payload.                      *)
StreamEnd(r) ==
    /\ client[r] = "reading"
    /\ \/ /\ out[r] = "done" /\ Role(r) # "disconnect"
          /\ Ended(r, Result(200, TRUE, expected[r], FALSE, "done"))
       \/ /\ out[r] = "error"
          /\ Ended(r, Result(200, TRUE, expected[r] \/ Role(r) = "worker", TRUE, "error"))

(* _wait_until_active, then the two aborts of the control endpoint, which   *)
(* awaits each of them.                                                     *)
WaitActive(r) ==
    /\ client[r] = "waiting" /\ api[r] = "active" /\ service = "up"
    /\ Continue(r, "abort1")

NeverActive(r) ==
    /\ client[r] = "waiting" /\ (api[r] # "active" \/ service # "up")
    /\ Raised(r, 200, "never active")

Abort(r) ==
    /\ client[r] \in {"abort1", "abort2"} /\ service = "up"
    /\ attempts' = attempts + 1
    /\ \/ /\ api[r] = "active"
          /\ api' = Put(api, r, "ended")
          /\ out' = Put(out, r, "done")
          /\ Recorded(r, Terminal("api", "aborted", "explicit_cancel"))
       \/ api[r] # "active" /\ UNCHANGED <<api, out, chain>>
    /\ \/ client[r] = "abort1" /\ client' = Put(client, r, "abort2")
          /\ expected' = expected
       \/ client[r] = "abort2" /\ client' = Put(client, r, "reading")
          /\ expected' = Put(expected, r, TRUE)
    /\ UNCHANGED <<arm, group, closed, result, lines, eng, run>>

(* The control connection breaks or times out.                              *)
AbortLost(r) ==
    /\ client[r] \in {"abort1", "abort2"}
    /\ Raised(r, 200, "control lost")

ClientStep(r) ==
    \/ Send(r) \/ Answered(r) \/ RefusedStatus(r) \/ Broken(r) \/ SocketTimeout(r)
    \/ EndOfStream(r) \/ Deadline(r) \/ DisconnectAfterFirst(r) \/ StreamEnd(r)
    \/ WaitActive(r) \/ NeverActive(r) \/ Abort(r) \/ AbortLost(r) \/ ReadLine(r)

(* What ends a read however many lines there are.                           *)
EndOfRead(r) ==
    Deadline(r) \/ DisconnectAfterFirst(r) \/ StreamEnd(r) \/ EndOfStream(r)

-----------------------------------------------------------------------------
(* _run_one and _run_normal_control *)

Runner(next) ==
    /\ phase' = next
    /\ UNCHANGED <<arm, group, clients, served, attempts>>

(* _run_initial_group returns when every client has.                        *)
GroupDone ==
    /\ phase = "initial" /\ \A r \in group : client[r] = "done"
    /\ Runner("polling")
    /\ UNCHANGED <<service, snap, quiet, report>>

(* issue19_control_middleware: the state of the API process.                *)
ControlState == [active |-> {r \in Requests : api[r] = "active"}, attempts |-> attempts]

AfterPolling == IF phase = "polling" THEN "worker" ELSE "stopping"

(* _wait_for_quiescence: two idle polls far enough apart end it.            *)
Poll ==
    /\ phase \in {"polling", "repolling"} /\ service = "up"
    /\ snap' = ControlState
    /\ \/ /\ snap # None /\ snap.active = {} /\ ControlState.active = {}
          /\ quiet' = (phase = "polling" \/ quiet)
          /\ Runner(AfterPolling)
       \/ quiet' = quiet /\ Runner(phase)
    /\ UNCHANGED <<service, report>>

\* A mistaken variant: the deadline is looked at only when nothing is active.
PollDeadlineIdle ==
    /\ phase \in {"polling", "repolling"} /\ snap # None /\ snap.active = {}
    /\ quiet' = FALSE
    /\ Runner(AfterPolling)
    /\ UNCHANGED <<service, snap, report>>

PollDeadline ==
    /\ phase \in {"polling", "repolling"} /\ snap # None
    /\ quiet' = FALSE
    /\ Runner(AfterPolling)
    /\ UNCHANGED <<service, snap, report>>

(* The control endpoint fails: so does the run, and the service is stopped. *)
ControlFails ==
    /\ phase \in {"polling", "repolling"}
    /\ service' = "down"
    /\ Runner("failed")
    /\ UNCHANGED <<snap, quiet, report>>

(* The worker's request is never active or has no pending transfer, or the  *)
(* service outlives its worker.  The executor waits for the client before   *)
(* the run fails and the service is stopped.                                *)
GiveUp ==
    /\ \/ phase = "worker" /\ api["worker"] # "active" /\ client["worker"] = "done"
          /\ arm = "fault"
       \/ phase \in {"armed", "killed"} /\ client["worker"] = "done"
       \/ phase = "stopping" /\ arm = "fault" /\ service # "down"
    /\ service' = "down"
    /\ Runner("failed")
    /\ UNCHANGED <<snap, quiet, report>>

ArmWorker ==
    /\ arm = "fault" /\ phase = "worker" /\ api["worker"] = "active"
    /\ Runner("armed")
    /\ UNCHANGED <<service, snap, quiet, report>>

(* The witness names a transfer of a request EngineCore still holds.        *)
KillWorker ==
    /\ phase = "armed" /\ \E r \in Requests : eng[r] = "active"
    /\ service' = "dying"
    /\ Runner("killed")
    /\ UNCHANGED <<snap, quiet, report>>

Collect ==
    /\ client["worker"] = "done"
    /\ \/ phase = "killed" /\ Runner("stopping") /\ snap' = snap
       \/ arm = "control" /\ phase = "worker" /\ Runner("repolling") /\ snap' = None
    /\ UNCHANGED <<service, quiet, report>>

(* _graceful_stop_service of the control arm.                               *)
StopService ==
    /\ arm = "control" /\ phase = "stopping" /\ service = "up"
    /\ service' = "down"
    /\ Runner(phase)
    /\ UNCHANGED <<snap, quiet, report>>

-----------------------------------------------------------------------------
(* _analyze and _normal_control_analysis *)

Completed(r) == result[r].status = 200 /\ result[r].done /\ ~result[r].error

ClientCorrect ==
    \A r \in Requests :
        IF Role(r) = "survivor" THEN Completed(r) ELSE result[r].expected

Causes(c) == [i \in DOMAIN c |-> c[i].cause]
Names(c) == [i \in DOMAIN c |-> c[i].name]

\* A mistaken variant: any terminal may precede the abort of EngineCore.
TerminalChainAnyFirst(c) ==
    \/ Len(c) = 1
    \/ Len(c) = 2 /\ c[1].by # c[2].by
       /\ \/ Names(c) = <<"error", "error">> /\ Range(Causes(c)) = {"engine_failure"}
          \/ c[2].name = "aborted" /\ c[2].cause = "explicit_cancel"

(* One logical terminal, seen by one shard or by both.                      *)
TerminalChainValid(c) ==
    \/ Len(c) = 1
    \/ Len(c) = 2 /\ c[1].by # c[2].by
       /\ \/ Names(c) = <<"error", "error">> /\ Range(Causes(c)) = {"engine_failure"}
          \/ /\ c[2].name = "aborted" /\ c[2].cause = "explicit_cancel"
             /\ c[1].cause \in {"client_disconnect", "client_timeout", "explicit_cancel"}

(* The control arm asks for the one terminal of a completion.               *)
ExactTerminal ==
    \A r \in Requests :
        IF arm = "fault" THEN TerminalChainValid(chain[r])
        ELSE Names(chain[r]) = <<"generation_done">> /\ Causes(chain[r]) = <<"complete">>

(* The observer must have counted both aborts by the time of quiescence.    *)
DuplicateWitnessed == "duplicate" \in group => snap.attempts = 2

(* The terminals of the worker's request that name its failure.             *)
FailureTerminals ==
    {i \in DOMAIN chain["worker"] : chain["worker"][i].cause = "engine_failure"}

WorkerWitnessed == Cardinality(FailureTerminals) = 1

Zombies ==
    (IF quiet THEN {} ELSE snap.active)
    \cup (IF FailureTerminals = {} THEN {"worker"} ELSE {})

EvidenceValid ==
    /\ ClientCorrect /\ ExactTerminal
    /\ IF arm = "fault" THEN DuplicateWitnessed /\ WorkerWitnessed ELSE quiet

Analyze ==
    /\ phase = "stopping" /\ service = "down"
    /\ report' = [valid |-> EvidenceValid,
                  zombies |-> IF arm = "fault" THEN Zombies ELSE {}]
    /\ Runner("analysed")
    /\ UNCHANGED <<service, snap, quiet>>

RunnerStep ==
    \/ GroupDone \/ Poll \/ PollDeadline \/ GiveUp \/ ArmWorker \/ KillWorker
    \/ Collect \/ StopService \/ Analyze

-----------------------------------------------------------------------------
Init ==
    /\ arm \in Arms /\ group \in Groups
    /\ arm = "control" => group \subseteq {"survivor"}
    /\ phase = "initial" /\ service = "up" /\ snap = None /\ quiet = FALSE /\ report = None
    /\ client = [r \in Roles |-> "idle"] /\ closed = {}
    /\ expected = [r \in Roles |-> FALSE]
    /\ result = [r \in Roles |-> None]
    /\ out = [r \in Roles |-> "none"] /\ lines = {}
    /\ api = [r \in Roles |-> "none"] /\ eng = [r \in Roles |-> "none"]
    /\ chain = [r \in Roles |-> <<>>] /\ attempts = 0

Rest == phase \in {"analysed", "failed"} /\ UNCHANGED vars

Running == phase \notin {"analysed", "failed"}

Next ==
    \/ /\ Running
       /\ \/ \E r \in Requests :
               \/ Accept(r) \/ Compute(r) \/ Complete(r) \/ Drop(r)
               \/ Line(r) \/ EngineAbort(r) \/ FailHeld(r) \/ ClientStep(r)
          \/ GoDown \/ ControlFails \/ RunnerStep
    \/ Rest

(* Every single wait of the runner and of its clients has a timeout, the    *)
(* client with a deadline looks at it before each read, and what ends a     *)
(* stream is read once it is there; the service owes nothing.               *)
Spec ==
    /\ Init /\ [][Next]_vars
    /\ WF_vars(Running /\ RunnerStep)
    /\ \A r \in Roles :
          /\ WF_vars(Running /\ r \in Requests /\ ClientStep(r))
          /\ WF_vars(Running /\ r \in Requests /\ EndOfRead(r))

-----------------------------------------------------------------------------
(* Properties *)

Valid == report # None /\ report.valid

(* In valid evidence every survivor was completed by the service: no stream *)
(* error, lost stream or aborted request passes for a completion.           *)
SurvivorsCompleted ==
    Valid => \A r \in Requests : Role(r) = "survivor" => "complete" \in Range(Causes(chain[r]))

(* In valid fault evidence the duplicate cancellation took place, although  *)
(* the client counts every timeout of the control endpoint as its fault.    *)
CancelledTwice ==
    (Valid /\ arm = "fault" /\ "duplicate" \in group) => attempts = 2

(* In valid evidence no request was both completed and aborted or failed,   *)
(* whatever races its end ran into.                                         *)
OneEnd ==
    Valid => \A r \in Requests :
        "complete" \in Range(Causes(chain[r])) => Len(chain[r]) = 1

(* A request of the initial group that the API had begun to answer, and     *)
(* that only the exit of the worker ended, is reported as a zombie.         *)
ZombiesCounted ==
    (Valid /\ arm = "fault") => \A r \in group :
        (/\ result[r].status = 200
         /\ Terminal("api", "error", "engine_failure") \in Range(chain[r]))
        => r \in report.zombies

(* The run ends, whichever requests the service answers, stalls, forgets or *)
(* fails and whether or not it becomes idle, unless it sends lines of some  *)
(* stream for ever: _read_stream bounds each read and, but for the client   *)
(* with a deadline, not their number.                                       *)
RunnerEnds == <>[](lines = {}) => <>(phase \in {"analysed", "failed"})

(* The same without the premise is not true of the code.                    *)
RunnerEndsAnyway == <>(phase \in {"analysed", "failed"})

(* Lines 793-795: "EngineCore owns the worker-generation failure; API       *)
(* subsequently reports the same causal terminal to the client."  The pair  *)
(* is one valid terminal chain, so it witnesses the failure of the worker.  *)
FailureChainWitnessed ==
    (/\ report # None /\ arm = "fault"
     /\ Names(chain["worker"]) = <<"error", "error">>
     /\ TerminalChainValid(chain["worker"]))
    => WorkerWitnessed

(* Lines 2112-2113: "close the streaming HTTP connection after first data", *)
(* "close at the fixed 2.0 second client deadline".  In valid evidence the  *)
(* faults are the planned ones.                                             *)
FaultsAsPlanned ==
    (Valid /\ arm = "fault") =>
        /\ ("disconnect" \in group => result["disconnect"].how = "disconnected")
        /\ ("timeout" \in group => result["timeout"].how = "deadline")

(* What evidence that the runner calls valid means.                         *)
VerdictIsSound == SurvivorsCompleted /\ CancelledTwice /\ OneEnd /\ ZombiesCounted
==============================================================================
