---------------------------- MODULE M0Run_proofs ----------------------------
(***************************************************************************)
(* What the runner calls valid evidence is true of the run, for every set  *)
(* of clients and every interleaving of the clients, the service and the   *)
(* polls of the runner, the deadlines and the losses included.             *)
(***************************************************************************)
EXTENDS M0Run, SequenceTheorems, TLAPS

Places == {"idle", "sent", "waiting", "abort1", "abort2", "reading", "done"}
Outputs == {"none", "refused", "reset", "headers", "data", "done", "error"}
Phases == {"initial", "polling", "worker", "armed", "killed", "repolling",
           "stopping", "analysed", "failed"}
TerminalRecord == [by : {"api", "engine"},
                   name : {"generation_done", "aborted", "error"},
                   cause : {"complete", "client_timeout", "client_disconnect", "error",
                            "explicit_cancel", "engine_failure"}]

\* The terminal of a request that only the exit of the worker has ended.
EngineExit == Terminal("api", "error", "engine_failure")

HasCompleted(c) == "complete" \in Range(Causes(c))
HasExit(c) == EngineExit \in Range(c)

Types ==
    /\ arm \in {"fault", "control"} /\ group \subseteq Roles \ {"worker"}
    /\ phase \in Phases /\ service \in {"up", "dying", "down"}
    /\ client \in [Roles -> Places] /\ out \in [Roles -> Outputs]
    /\ api \in [Roles -> {"none", "active", "ended"}]
    /\ chain \in [Roles -> Seq(TerminalRecord)]
    /\ attempts \in Nat
    /\ result = [r \in Roles |-> result[r]]

\* A client that saw a status of 200 was answered for a request the API took.
AnsweredTaken ==
    \A r \in Roles :
        /\ out[r] \in {"headers", "data", "done", "error"} => api[r] # "none"
        /\ client[r] \notin {"idle", "sent", "done"} => api[r] # "none"
        /\ client[r] = "done" /\ result[r].status = 200 => api[r] # "none"

\* Only the aborts of the duplicate client make an unfinished request look done.
AbortsOfDuplicate ==
    \A r \in Roles :
        client[r] \in {"waiting", "abort1", "abort2"} => arm = "fault" /\ r = "duplicate"

DoneCompleted ==
    \A r \in Roles :
        Role(r) = "survivor" =>
            /\ out[r] = "done" => HasCompleted(chain[r])
            /\ client[r] = "done" /\ result[r].done /\ ~result[r].error
               => HasCompleted(chain[r])

\* The runner of the fault arm holds a state it has polled.
HasPolled ==
    /\ arm = "fault" /\ phase \notin {"initial", "failed"}
    /\ phase = "polling" => snap # None

\* The duplicate client counts its own aborts, and what was polled is no more.
AttemptsCounted ==
    /\ arm = "fault" =>
        /\ client["duplicate"] \in {"idle", "sent", "waiting", "abort1"} => attempts = 0
        /\ client["duplicate"] = "abort2" => attempts = 1
        /\ attempts <= 2
    /\ HasPolled => snap.attempts \in Nat /\ snap.attempts <= attempts

\* Where the runner is says which clients have ended and what it has polled.
RunnerPlace ==
    /\ phase # "initial" => \A r \in group : client[r] = "done"
    /\ phase \in {"repolling", "stopping"} => client["worker"] = "done"
    /\ phase \in {"armed", "killed"} => arm = "fault"
    /\ phase = "repolling" => arm = "control"
    /\ phase \in {"initial", "polling"} => ~quiet
    /\ phase = "initial" => snap = None
    /\ service = "dying" => arm = "fault" /\ phase \in {"killed", "stopping", "failed"}
    /\ arm = "fault" /\ quiet => snap.active = {}

\* A request that was answered and still held when the runner stopped polling is
\* in the state it polled last, also when the exit of the worker ends it later.
HeldPolled ==
    \A r \in Roles :
        /\ HasExit(chain[r]) => service # "up"
        /\ (/\ HasPolled /\ r \in group
            /\ result[r].status = 200
            /\ api[r] = "active" \/ HasExit(chain[r]))
           => r \in snap.active

\* The report is about the state the run has ended in.
ReportTrue ==
    report # None =>
        /\ phase = "analysed"
        /\ report.valid => EvidenceValid
        /\ arm = "fault" => report.zombies = Zombies
        /\ \A r \in Requests : client[r] = "done"

RunInv ==
    /\ Types /\ AnsweredTaken /\ AbortsOfDuplicate /\ DoneCompleted
    /\ AttemptsCounted /\ RunnerPlace /\ HeldPolled /\ ReportTrue

-----------------------------------------------------------------------------
(* What the steps do to one request                                        *)

LEMMA ChainGrows ==
    ASSUME NEW c \in Seq(TerminalRecord), NEW t \in TerminalRecord
    PROVE  /\ Append(c, t) \in Seq(TerminalRecord)
           /\ HasCompleted(Append(c, t)) <=> HasCompleted(c) \/ t.cause = "complete"
           /\ HasExit(Append(c, t)) <=> HasExit(c) \/ t = EngineExit
<1> DEFINE d == Append(c, t)
<1>1. /\ d \in Seq(TerminalRecord) /\ Len(d) = Len(c) + 1 /\ Len(c) \in Nat
      /\ \A i \in 1..Len(c) : d[i] = c[i]
      /\ d[Len(c) + 1] = t
  BY AppendProperties
<1>2. DOMAIN c = 1..Len(c) /\ DOMAIN d = 1..(Len(c) + 1)
  BY <1>1
<1> HIDE DEF d
<1>3. HasExit(d) <=> \E i \in 1..(Len(c) + 1) : d[i] = EngineExit
  BY <1>2 DEF HasExit, Range
<1>4. HasExit(c) <=> \E i \in 1..Len(c) : c[i] = EngineExit
  BY <1>2 DEF HasExit, Range
<1>5. HasExit(d) <=> HasExit(c) \/ t = EngineExit
  BY <1>1, <1>3, <1>4
<1>6. HasCompleted(d) <=> \E i \in 1..(Len(c) + 1) : d[i].cause = "complete"
  BY <1>2 DEF HasCompleted, Range, Causes
<1>7. HasCompleted(c) <=> \E i \in 1..Len(c) : c[i].cause = "complete"
  BY <1>2 DEF HasCompleted, Range, Causes
<1>8. HasCompleted(d) <=> HasCompleted(c) \/ t.cause = "complete"
  BY <1>1, <1>6, <1>7
<1> QED BY <1>1, <1>5, <1>8 DEF d

LEMMA RequestsAreRoles == Types => Requests \subseteq Roles /\ "worker" \in Roles
BY DEF Types, Requests, Roles

\* A run that goes on has no report.
LEMMA NoReportYet == ASSUME RunInv, Running PROVE report = None
BY DEF RunInv, ReportTrue, Running

\* A step of the service on request r: what it may do to the request in the API,
\* to what is sent and to the chain of terminals.
LEMMA ServiceStep ==
    ASSUME RunInv, Running, NEW r \in Roles,
           NEW a \in {"none", "active", "ended"}, NEW o \in Outputs,
           NEW c \in Seq(TerminalRecord),
           UNCHANGED <<arm, group, clients, attempts, run>>,
           api' = Put(api, r, a), out' = Put(out, r, o), chain' = Put(chain, r, c),
           api[r] # "none" => a # "none",
           o \in {"headers", "data", "done", "error"} => a # "none",
           a = "active" => api[r] \in {"active", "none"},
           HasCompleted(chain[r]) => HasCompleted(c),
           o = "done" => out[r] = "done" \/ HasCompleted(c) \/ Role(r) # "survivor",
           HasExit(c) => \/ HasExit(chain[r])
                         \/ service = "dying" /\ api[r] = "active"
    PROVE  RunInv'
<1>1. /\ Types /\ AnsweredTaken /\ AbortsOfDuplicate /\ DoneCompleted
      /\ AttemptsCounted /\ RunnerPlace /\ HeldPolled
  BY DEF RunInv
<1>2. /\ UNCHANGED <<arm, group, client, expected, closed, result, attempts>>
      /\ UNCHANGED <<phase, service, snap, quiet, report>>
  BY DEF clients, run
<1>3. /\ api' \in [Roles -> {"none", "active", "ended"}] /\ api'[r] = a
      /\ \A s \in Roles : s # r => api'[s] = api[s]
  BY <1>1 DEF Types, Put
<1>4. /\ out' \in [Roles -> Outputs] /\ out'[r] = o
      /\ \A s \in Roles : s # r => out'[s] = out[s]
  BY <1>1 DEF Types, Put
<1>5. /\ chain' \in [Roles -> Seq(TerminalRecord)] /\ chain'[r] = c
      /\ \A s \in Roles : s # r => chain'[s] = chain[s]
  BY <1>1 DEF Types, Put
<1>6. Types'
  BY <1>1, <1>2, <1>3, <1>4, <1>5 DEF Types
<1>7. AnsweredTaken'
  BY <1>1, <1>2, <1>3, <1>4 DEF AnsweredTaken
<1>8. AbortsOfDuplicate' /\ AttemptsCounted' /\ RunnerPlace'
  BY <1>1, <1>2 DEF AbortsOfDuplicate, AttemptsCounted, RunnerPlace, HasPolled
<1>9. DoneCompleted'
  BY <1>1, <1>2, <1>4, <1>5 DEF DoneCompleted, Role
<1>10. HeldPolled'
  <2> SUFFICES ASSUME NEW s \in Roles
               PROVE  /\ HasExit(chain'[s]) => service # "up"
                      /\ (/\ HasPolled /\ s \in group
                          /\ result[s].status = 200
                          /\ api'[s] = "active" \/ HasExit(chain'[s]))
                         => s \in snap.active
    BY <1>2 DEF HeldPolled, HasPolled
  <2>1. /\ HasExit(chain[s]) => service # "up"
        /\ (/\ HasPolled /\ s \in group
            /\ result[s].status = 200
            /\ api[s] = "active" \/ HasExit(chain[s]))
           => s \in snap.active
    BY <1>1 DEF HeldPolled
  <2>2. CASE s # r
    BY <2>1, <2>2, <1>3, <1>5
  <2>3. CASE s = r
    <3>1. HasPolled /\ s \in group => client[s] = "done"
      BY <1>1 DEF RunnerPlace, HasPolled
    <3>2. client[s] = "done" /\ result[s].status = 200 => api[s] # "none"
      BY <1>1 DEF AnsweredTaken
    <3> QED BY <2>1, <2>3, <3>1, <3>2, <1>3, <1>5
  <2> QED BY <2>2, <2>3
<1>11. ReportTrue'
  BY <1>2, NoReportYet DEF ReportTrue
<1> QED BY <1>6, <1>7, <1>8, <1>9, <1>10, <1>11 DEF RunInv

\* A client ends with a result that its own connection justifies.
LEMMA EndedStep ==
    ASSUME RunInv, Running, NEW r \in Roles, NEW res, Ended(r, res),
           client[r] # "done",
           res.status = 200 => api[r] # "none",
           Role(r) = "survivor" /\ res.done /\ ~res.error => HasCompleted(chain[r])
    PROVE  RunInv'
<1>1. /\ Types /\ AnsweredTaken /\ AbortsOfDuplicate /\ DoneCompleted
      /\ AttemptsCounted /\ RunnerPlace /\ HeldPolled
  BY DEF RunInv
<1>2. /\ UNCHANGED <<arm, group, expected, out, api, eng, chain, attempts>>
      /\ UNCHANGED <<phase, service, snap, quiet, report>>
  BY DEF Ended, served, run
<1>3. /\ client' \in [Roles -> Places] /\ client'[r] = "done"
      /\ \A s \in Roles : s # r => client'[s] = client[s]
  BY <1>1 DEF Types, Put, Ended, Places
<1>4. /\ result' = [s \in Roles |-> result'[s]] /\ result'[r] = res
      /\ \A s \in Roles : s # r => result'[s] = result[s]
  BY <1>1 DEF Types, Ended, Put
<1>5. Types'
  BY <1>1, <1>2, <1>3, <1>4 DEF Types
<1>6. AnsweredTaken'
  BY <1>1, <1>2, <1>3, <1>4 DEF AnsweredTaken
<1>7. AbortsOfDuplicate'
  BY <1>1, <1>2, <1>3 DEF AbortsOfDuplicate
<1>8. DoneCompleted'
  BY <1>1, <1>2, <1>3, <1>4 DEF DoneCompleted, Role
<1>9. AttemptsCounted'
  BY <1>1, <1>2, <1>3 DEF AttemptsCounted, Roles, HasPolled
<1>10. RunnerPlace'
  BY <1>1, <1>2, <1>3 DEF RunnerPlace, Roles, Types
<1>11. HeldPolled'
  <2>1. HasPolled => r \notin group
    BY <1>1 DEF RunnerPlace, HasPolled
  <2>2. HasPolled' <=> HasPolled
    BY <1>2 DEF HasPolled
  <2> QED BY <1>1, <1>2, <1>4, <2>1, <2>2 DEF HeldPolled
<1>12. ReportTrue'
  BY <1>2, NoReportYet DEF ReportTrue
<1> QED BY <1>5, <1>6, <1>7, <1>8, <1>9, <1>10, <1>11, <1>12 DEF RunInv

\* A client goes on, before its aborts.
LEMMA ContinueStep ==
    ASSUME RunInv, Running, NEW r \in Roles,
           NEW state \in {"sent", "waiting", "abort1", "reading"}, Continue(r, state),
           client[r] \in {"idle", "sent", "waiting"},
           state # "sent" => api[r] # "none",
           state \in {"waiting", "abort1"} => arm = "fault" /\ r = "duplicate"
    PROVE  RunInv'
<1>1. /\ Types /\ AnsweredTaken /\ AbortsOfDuplicate /\ DoneCompleted
      /\ AttemptsCounted /\ RunnerPlace /\ HeldPolled
  BY DEF RunInv
<1>2. /\ UNCHANGED <<arm, group, expected, closed, result, out, api, eng, chain, attempts>>
      /\ UNCHANGED <<phase, service, snap, quiet, report>>
  BY DEF Continue, served, run
<1>3. /\ client' \in [Roles -> Places] /\ client'[r] = state
      /\ \A s \in Roles : s # r => client'[s] = client[s]
  BY <1>1 DEF Types, Put, Continue, Places
<1>4. Types'
  BY <1>1, <1>2, <1>3 DEF Types
<1>5. AnsweredTaken' /\ AbortsOfDuplicate'
  BY <1>1, <1>2, <1>3 DEF AnsweredTaken, AbortsOfDuplicate
<1>6. DoneCompleted'
  BY <1>1, <1>2, <1>3 DEF DoneCompleted, Role
<1>7. AttemptsCounted'
  BY <1>1, <1>2, <1>3 DEF AttemptsCounted, Roles, HasPolled
<1>8. RunnerPlace'
  BY <1>1, <1>2, <1>3 DEF RunnerPlace, Roles, Types
<1>9. HeldPolled'
  BY <1>1, <1>2 DEF HeldPolled, HasPolled
<1>10. ReportTrue'
  BY <1>2, NoReportYet DEF ReportTrue
<1> QED BY <1>4, <1>5, <1>6, <1>7, <1>8, <1>9, <1>10 DEF RunInv

-----------------------------------------------------------------------------
(* The steps of the service                                                *)

LEMMA ServiceSteps ==
    ASSUME RunInv, Running, NEW r \in Roles,
           Accept(r) \/ Compute(r) \/ Complete(r) \/ Drop(r) \/ EngineAbort(r) \/ FailHeld(r)
    PROVE  RunInv'
<1>1. /\ api \in [Roles -> {"none", "active", "ended"}]
      /\ out \in [Roles -> Outputs]
      /\ chain \in [Roles -> Seq(TerminalRecord)]
  BY DEF RunInv, Types
<1>2. /\ api[r] \in {"none", "active", "ended"} /\ out[r] \in Outputs
      /\ chain[r] \in Seq(TerminalRecord)
      /\ Put(api, r, api[r]) = api /\ Put(out, r, out[r]) = out
      /\ Put(chain, r, chain[r]) = chain
  BY <1>1 DEF Put
<1>3. out[r] \in {"headers", "data", "done", "error"} => api[r] # "none"
  BY DEF RunInv, AnsweredTaken
<1>4. ASSUME NEW t \in TerminalRecord, Recorded(r, t)
      PROVE  /\ chain' = Put(chain, r, Append(chain[r], t))
             /\ Append(chain[r], t) \in Seq(TerminalRecord)
             /\ HasCompleted(Append(chain[r], t)) <=> HasCompleted(chain[r]) \/ t.cause = "complete"
             /\ HasExit(Append(chain[r], t)) <=> HasExit(chain[r]) \/ t = EngineExit
  <2>1. chain' = Put(chain, r, Append(chain[r], t))
    BY <1>1, <1>4 DEF Recorded, Put
  <2> QED BY <2>1, <1>2, ChainGrows
<1>5. CASE Accept(r)
  <2>1. /\ UNCHANGED <<arm, group, clients, attempts, run>>
        /\ api[r] = "none" /\ chain' = Put(chain, r, chain[r])
    BY <1>2, <1>5 DEF Accept
  <2>2. CASE api' = Put(api, r, "active") /\ out' = Put(out, r, "headers")
    BY <2>1, <2>2, <1>2, ServiceStep DEF Outputs
  <2>3. ASSUME NEW o \in {"refused", "reset"}, api' = api, out' = Put(out, r, o) PROVE RunInv'
    BY <2>1, <2>3, <1>2, ServiceStep DEF Outputs
  <2> QED BY <2>2, <2>3, <1>5 DEF Accept
<1>6. CASE Compute(r)
  <2>1. /\ UNCHANGED <<arm, group, clients, attempts, run>>
        /\ api[r] = "active" /\ chain' = Put(chain, r, chain[r])
        /\ api' = Put(api, r, "active")
    BY <1>2, <1>6 DEF Compute
  <2>2. CASE out' = out
    BY <2>1, <2>2, <1>2, ServiceStep
  <2>3. CASE out' = Put(out, r, "data")
    BY <2>1, <2>3, <1>2, ServiceStep DEF Outputs
  <2> QED BY <2>2, <2>3, <1>6 DEF Compute
<1>7. CASE Complete(r)
  <2> DEFINE t == Terminal("api", "generation_done", "complete")
  <2>1. /\ UNCHANGED <<arm, group, clients, attempts, run>>
        /\ api' = Put(api, r, "ended") /\ out' = Put(out, r, "done") /\ Recorded(r, t)
    BY <1>7 DEF Complete
  <2>2. t \in TerminalRecord /\ t.cause = "complete" /\ t # EngineExit
    BY DEF Terminal, TerminalRecord, EngineExit
  <2> HIDE DEF t
  <2>3. /\ chain' = Put(chain, r, Append(chain[r], t))
        /\ Append(chain[r], t) \in Seq(TerminalRecord)
        /\ HasCompleted(Append(chain[r], t))
        /\ HasExit(Append(chain[r], t)) => HasExit(chain[r])
    BY <2>1, <2>2, <1>4
  <2> QED BY <2>1, <2>3, ServiceStep DEF Outputs
<1>8. CASE Drop(r)
  <2>1. /\ UNCHANGED <<arm, group, clients, attempts, run>>
        /\ api' = Put(api, r, "ended")
    BY <1>8 DEF Drop
  <2>2. ASSUME NEW t \in TerminalRecord, Recorded(r, t), t # EngineExit,
               NEW o \in {"error", "reset", out[r]}, out' = Put(out, r, o)
        PROVE  RunInv'
    <3>1. /\ chain' = Put(chain, r, Append(chain[r], t))
          /\ Append(chain[r], t) \in Seq(TerminalRecord)
          /\ HasCompleted(chain[r]) => HasCompleted(Append(chain[r], t))
          /\ HasExit(Append(chain[r], t)) => HasExit(chain[r])
      BY <2>2, <1>4
    <3>2. o \in Outputs /\ (o = "done" => out[r] = "done")
      BY <1>2 DEF Outputs
    <3> QED BY <2>1, <2>2, <3>1, <3>2, ServiceStep
  <2>3. CASE /\ out' = out
             /\ Recorded(r, Terminal("api", "aborted",
                    IF r = "timeout" THEN "client_timeout" ELSE "client_disconnect"))
    <3> DEFINE t == Terminal("api", "aborted",
                    IF r = "timeout" THEN "client_timeout" ELSE "client_disconnect")
    <3>1. t \in TerminalRecord /\ t # EngineExit
      BY DEF Terminal, TerminalRecord, EngineExit
    <3> HIDE DEF t
    <3>2. Recorded(r, t) /\ out' = Put(out, r, out[r])
      BY <2>3, <1>2 DEF t
    <3> QED BY <3>1, <3>2, <2>2
  <2>4. CASE /\ Recorded(r, Terminal("api", "error", "error"))
             /\ \E o \in {"error", "reset"} : out' = Put(out, r, o)
    <3>1. Terminal("api", "error", "error") \in TerminalRecord
          /\ Terminal("api", "error", "error") # EngineExit
      BY DEF Terminal, TerminalRecord, EngineExit
    <3> QED BY <3>1, <2>4, <2>2
  <2> QED BY <2>3, <2>4, <1>8 DEF Drop
<1>9. CASE EngineAbort(r)
  <2>1. /\ UNCHANGED <<arm, group, clients, attempts, run>>
        /\ api' = Put(api, r, api[r]) /\ out' = Put(out, r, out[r])
    BY <1>9, <1>2 DEF EngineAbort
  <2>2. CASE chain' = chain
    BY <2>1, <2>2, <1>2, <1>3, ServiceStep
  <2>3. CASE Recorded(r, Terminal("engine", "aborted", "explicit_cancel"))
    <3> DEFINE t == Terminal("engine", "aborted", "explicit_cancel")
    <3>1. t \in TerminalRecord /\ t # EngineExit
      BY DEF Terminal, TerminalRecord, EngineExit
    <3>2. Recorded(r, t)
      BY <2>3
    <3> HIDE DEF t
    <3>3. /\ chain' = Put(chain, r, Append(chain[r], t))
          /\ Append(chain[r], t) \in Seq(TerminalRecord)
          /\ HasCompleted(chain[r]) => HasCompleted(Append(chain[r], t))
          /\ HasExit(Append(chain[r], t)) => HasExit(chain[r])
      BY <3>1, <3>2, <1>4
    <3> QED BY <2>1, <3>3, <1>2, <1>3, ServiceStep
  <2> QED BY <2>2, <2>3, <1>9 DEF EngineAbort
<1>10. CASE FailHeld(r)
  <2>1. /\ UNCHANGED <<arm, group, clients, attempts, run>>
        /\ service = "dying"
    BY <1>10 DEF FailHeld
  <2>2. CASE UNCHANGED <<out, api, chain>>
    BY <2>1, <2>2, <1>2, <1>3, ServiceStep
  <2>3. CASE /\ UNCHANGED <<out, api>>
             /\ Recorded(r, Terminal("engine", "error", "engine_failure"))
    <3> DEFINE t == Terminal("engine", "error", "engine_failure")
    <3>1. t \in TerminalRecord /\ t # EngineExit
      BY DEF Terminal, TerminalRecord, EngineExit
    <3>2. Recorded(r, t)
      BY <2>3
    <3> HIDE DEF t
    <3>3. /\ chain' = Put(chain, r, Append(chain[r], t))
          /\ Append(chain[r], t) \in Seq(TerminalRecord)
          /\ HasCompleted(chain[r]) => HasCompleted(Append(chain[r], t))
          /\ HasExit(Append(chain[r], t)) => HasExit(chain[r])
      BY <3>1, <3>2, <1>4
    <3> QED BY <2>1, <2>3, <3>3, <1>2, <1>3, ServiceStep
  <2>4. CASE /\ api[r] = "active" /\ api' = Put(api, r, "ended")
             /\ Recorded(r, Terminal("api", "error", "engine_failure"))
             /\ \E o \in {"error", "reset"} : out' = Put(out, r, o)
    <3>1. EngineExit \in TerminalRecord /\ Recorded(r, EngineExit)
      BY <2>4 DEF Terminal, TerminalRecord, EngineExit
    <3>2. /\ chain' = Put(chain, r, Append(chain[r], EngineExit))
          /\ Append(chain[r], EngineExit) \in Seq(TerminalRecord)
          /\ HasCompleted(chain[r]) => HasCompleted(Append(chain[r], EngineExit))
      BY <3>1, <1>4
    <3>3. PICK o \in {"error", "reset"} : out' = Put(out, r, o)
      BY <2>4
    <3> QED BY <2>1, <2>4, <3>2, <3>3, ServiceStep DEF Outputs
  <2> QED BY <2>2, <2>3, <2>4, <1>10 DEF FailHeld
<1> QED BY <1>5, <1>6, <1>7, <1>8, <1>9, <1>10

-----------------------------------------------------------------------------
(* The steps of the clients                                                *)

\* An abort of the control endpoint is the duplicate client's, in the fault arm.
LEMMA AbortStep ==
    ASSUME RunInv, Running, NEW r \in Roles, Abort(r)
    PROVE  RunInv'
<1>1. /\ Types /\ AnsweredTaken /\ AbortsOfDuplicate /\ DoneCompleted
      /\ AttemptsCounted /\ RunnerPlace /\ HeldPolled
  BY DEF RunInv
<1>2. /\ UNCHANGED <<arm, group, closed, result, eng>>
      /\ UNCHANGED <<phase, service, snap, quiet, report>>
      /\ attempts' = attempts + 1 /\ service = "up"
      /\ client[r] \in {"abort1", "abort2"}
  BY DEF Abort, run
<1>3. arm = "fault" /\ r = "duplicate" /\ Role(r) # "survivor"
  BY <1>1, <1>2 DEF AbortsOfDuplicate, Role
<1>4. PICK p \in {"abort2", "reading"} :
         /\ client' = Put(client, r, p)
         /\ p = "abort2" <=> client[r] = "abort1"
  BY DEF Abort
<1>5. /\ client' \in [Roles -> Places] /\ client'[r] = p
      /\ \A s \in Roles : s # r => client'[s] = client[s]
  BY <1>1, <1>4 DEF Types, Put, Places
<1>6. api[r] # "none"
  BY <1>1, <1>2 DEF AnsweredTaken
<1>7. /\ api' \in [Roles -> {"none", "active", "ended"}] /\ api'[r] # "none"
      /\ out' \in [Roles -> Outputs]
      /\ chain' \in [Roles -> Seq(TerminalRecord)]
      /\ \A s \in Roles : s # r => api'[s] = api[s] /\ out'[s] = out[s] /\ chain'[s] = chain[s]
      /\ HasExit(chain'[r]) => HasExit(chain[r])
      /\ api'[r] = "active" => api[r] = "active"
  <2>1. CASE UNCHANGED <<api, out, chain>>
    BY <2>1, <1>1, <1>6 DEF Types
  <2>2. CASE /\ api' = Put(api, r, "ended") /\ out' = Put(out, r, "done")
             /\ Recorded(r, Terminal("api", "aborted", "explicit_cancel"))
    <3> DEFINE t == Terminal("api", "aborted", "explicit_cancel")
    <3>1. t \in TerminalRecord /\ t # EngineExit
      BY DEF Terminal, TerminalRecord, EngineExit
    <3>2. Recorded(r, t)
      BY <2>2
    <3> HIDE DEF t
    <3>3. chain \in [Roles -> Seq(TerminalRecord)] /\ chain[r] \in Seq(TerminalRecord)
      BY <1>1 DEF Types
    <3>4. /\ Append(chain[r], t) \in Seq(TerminalRecord)
          /\ HasExit(Append(chain[r], t)) => HasExit(chain[r])
      BY <3>1, <3>3, ChainGrows
    <3>5. /\ chain' \in [Roles -> Seq(TerminalRecord)] /\ chain'[r] = Append(chain[r], t)
          /\ \A s \in Roles : s # r => chain'[s] = chain[s]
      BY <3>2, <3>3, <3>4 DEF Recorded
    <3>6. /\ api' \in [Roles -> {"none", "active", "ended"}] /\ api'[r] = "ended"
          /\ \A s \in Roles : s # r => api'[s] = api[s]
      BY <2>2, <1>1 DEF Types, Put
    <3>7. /\ out' \in [Roles -> Outputs]
          /\ \A s \in Roles : s # r => out'[s] = out[s]
      BY <2>2, <1>1 DEF Types, Put, Outputs
    <3> QED BY <3>4, <3>5, <3>6, <3>7
  <2> QED BY <2>1, <2>2 DEF Abort
<1>8. Types'
  BY <1>1, <1>2, <1>5, <1>7 DEF Types
<1>9. AnsweredTaken'
  <2> SUFFICES ASSUME NEW s \in Roles
               PROVE  /\ out'[s] \in {"headers", "data", "done", "error"} => api'[s] # "none"
                      /\ client'[s] \notin {"idle", "sent", "done"} => api'[s] # "none"
                      /\ client'[s] = "done" /\ result'[s].status = 200 => api'[s] # "none"
    BY DEF AnsweredTaken
  <2>1. CASE s = r
    BY <2>1, <1>7
  <2>2. CASE s # r
    BY <2>2, <1>1, <1>2, <1>5, <1>7 DEF AnsweredTaken
  <2> QED BY <2>1, <2>2
<1>10. AbortsOfDuplicate'
  BY <1>1, <1>2, <1>3, <1>5 DEF AbortsOfDuplicate
<1>11. DoneCompleted'
  BY <1>1, <1>2, <1>3, <1>5, <1>7 DEF DoneCompleted, Role
<1>12. AttemptsCounted'
  BY <1>1, <1>2, <1>3, <1>4, <1>5 DEF AttemptsCounted, Types, HasPolled
<1>13. RunnerPlace'
  BY <1>1, <1>2, <1>3, <1>5 DEF RunnerPlace, Types, Roles
<1>14. HeldPolled'
  <2>1. HasPolled' <=> HasPolled
    BY <1>2 DEF HasPolled
  <2>2. \A s \in Roles : /\ HasExit(chain'[s]) => HasExit(chain[s])
                         /\ api'[s] = "active" => api[s] = "active"
    BY <1>7
  <2> QED BY <1>1, <1>2, <2>1, <2>2 DEF HeldPolled
<1>15. ReportTrue'
  BY <1>2, NoReportYet DEF ReportTrue
<1> QED BY <1>8, <1>9, <1>10, <1>11, <1>12, <1>13, <1>14, <1>15 DEF RunInv

\* What the analysis looks at decides it.
LEMMA SameVerdict ==
    ASSUME UNCHANGED <<arm, group, result, chain, snap, quiet>>
    PROVE  (EvidenceValid <=> EvidenceValid') /\ Zombies' = Zombies /\ Requests' = Requests
<1>1. Requests' = Requests /\ FailureTerminals' = FailureTerminals
  BY DEF Requests, FailureTerminals
<1>2. ClientCorrect <=> ClientCorrect'
  BY <1>1 DEF ClientCorrect, Completed, Role
<1>3. ExactTerminal <=> ExactTerminal'
  BY <1>1 DEF ExactTerminal
<1>4. /\ DuplicateWitnessed <=> DuplicateWitnessed'
      /\ WorkerWitnessed <=> WorkerWitnessed'
      /\ Zombies' = Zombies
  BY <1>1 DEF DuplicateWitnessed, WorkerWitnessed, Zombies
<1> QED BY <1>1, <1>2, <1>3, <1>4 DEF EvidenceValid

\* Nothing that the invariant speaks of changes with the lines of a stream.
LEMMA LinesOnly ==
    ASSUME RunInv,
           UNCHANGED <<arm, group, client, expected, closed, result, out, api, eng, chain,
                       attempts, phase, service, snap, quiet, report>>
    PROVE  RunInv'
<1>1. Types' /\ AnsweredTaken' /\ AbortsOfDuplicate'
  BY DEF RunInv, Types, AnsweredTaken, AbortsOfDuplicate
<1>2. DoneCompleted' /\ AttemptsCounted' /\ RunnerPlace' /\ HeldPolled'
  BY DEF RunInv, DoneCompleted, Role, AttemptsCounted, RunnerPlace, HeldPolled, HasPolled
<1>3. ReportTrue'
  BY SameVerdict DEF RunInv, ReportTrue
<1> QED BY <1>1, <1>2, <1>3 DEF RunInv

LEMMA ClientSteps ==
    ASSUME RunInv, Running, NEW r \in Roles, ClientStep(r)
    PROVE  RunInv'
<1>1. /\ Types /\ AnsweredTaken /\ AbortsOfDuplicate /\ DoneCompleted
  BY DEF RunInv
<1>2. /\ out[r] \in {"headers", "data", "done", "error"} => api[r] # "none"
      /\ client[r] \notin {"idle", "sent", "done"} => api[r] # "none"
  BY <1>1 DEF AnsweredTaken
<1>3. 200 # None
  BY RunAssumption
<1>4. ASSUME NEW status, NEW how, Raised(r, status, how), client[r] # "done",
             status = 200 => client[r] \notin {"idle", "sent"}
      PROVE  RunInv'
  <2> DEFINE res == Result(status, FALSE, expected[r] \/ Role(r) \in Faulty, TRUE, how)
  <2>1. Ended(r, res)
    BY <1>4 DEF Raised
  <2>2. res.status = status /\ res.error = TRUE
    BY DEF Result
  <2> HIDE DEF res
  <2> QED BY <2>1, <2>2, <1>2, <1>4, EndedStep
<1>5. ASSUME NEW observed, NEW how, client[r] = "reading",
             Ended(r, Result(200, FALSE, observed, FALSE, how))
      PROVE  RunInv'
  <2> DEFINE res == Result(200, FALSE, observed, FALSE, how)
  <2>1. res.done = FALSE
    BY DEF Result
  <2>2. Ended(r, res)
    BY <1>5
  <2> HIDE DEF res
  <2> QED BY <2>1, <2>2, <1>2, <1>5, EndedStep
<1>6. CASE Send(r)
  BY <1>6, ContinueStep DEF Send
<1>7. CASE Answered(r)
  <2>1. CASE Role(r) = "duplicate"
    BY <2>1, <1>2, <1>7, <1>1, ContinueStep DEF Answered, Role, Types
  <2>2. CASE Role(r) # "duplicate"
    BY <2>2, <1>2, <1>7, ContinueStep DEF Answered
  <2> QED BY <2>1, <2>2
<1>8. CASE RefusedStatus(r)
  <2> DEFINE res == Result(500, FALSE, expected[r], TRUE, "refused")
  <2>1. res.status # 200 /\ res.done = FALSE
    BY DEF Result
  <2>2. Ended(r, res) /\ client[r] # "done"
    BY <1>8 DEF RefusedStatus
  <2> HIDE DEF res
  <2> QED BY <2>1, <2>2, EndedStep
<1>9. CASE Broken(r)
  BY <1>9, <1>3, <1>4 DEF Broken, Status
<1>10. CASE SocketTimeout(r)
  BY <1>10, <1>3, <1>4 DEF SocketTimeout, Status
<1>11. CASE EndOfStream(r)
  BY <1>11, <1>5 DEF EndOfStream
<1>12. CASE Deadline(r)
  BY <1>12, <1>5 DEF Deadline
<1>13. CASE DisconnectAfterFirst(r)
  BY <1>13, <1>5 DEF DisconnectAfterFirst
<1>14. CASE StreamEnd(r)
  <2>1. client[r] = "reading" /\ api[r] # "none"
    BY <1>14, <1>2 DEF StreamEnd
  <2>2. CASE out[r] = "done" /\ Ended(r, Result(200, TRUE, expected[r], FALSE, "done"))
    <3> DEFINE res == Result(200, TRUE, expected[r], FALSE, "done")
    <3>1. Ended(r, res)
      BY <2>2
    <3> HIDE DEF res
    <3>2. Role(r) = "survivor" => HasCompleted(chain[r])
      BY <2>2, <1>1 DEF DoneCompleted
    <3> QED BY <3>1, <3>2, <2>1, EndedStep
  <2>3. CASE Ended(r, Result(200, TRUE, expected[r] \/ Role(r) = "worker", TRUE, "error"))
    <3> DEFINE res == Result(200, TRUE, expected[r] \/ Role(r) = "worker", TRUE, "error")
    <3>1. Ended(r, res)
      BY <2>3
    <3>2. res.error = TRUE
      BY DEF Result
    <3> HIDE DEF res
    <3> QED BY <3>1, <3>2, <2>1, EndedStep
  <2> QED BY <2>2, <2>3, <1>14 DEF StreamEnd
<1>15. CASE WaitActive(r)
  <2>1. arm = "fault" /\ r = "duplicate"
    BY <1>15, <1>1 DEF WaitActive, AbortsOfDuplicate
  <2> QED BY <2>1, <1>15, ContinueStep DEF WaitActive
<1>16. CASE NeverActive(r)
  BY <1>16, <1>4 DEF NeverActive
<1>17. CASE Abort(r)
  BY <1>17, AbortStep
<1>18. CASE AbortLost(r)
  BY <1>18, <1>4 DEF AbortLost
<1>19. CASE ReadLine(r)
  BY <1>19, LinesOnly DEF ReadLine, clients, run
<1> QED BY <1>6, <1>7, <1>8, <1>9, <1>10, <1>11, <1>12, <1>13, <1>14, <1>15, <1>16,
           <1>17, <1>18, <1>19 DEF ClientStep

-----------------------------------------------------------------------------
(* The steps of the runner                                                 *)

\* The runner moves on: what it has polled and what it concludes are its own.
LEMMA RunnerMoves ==
    ASSUME RunInv, NEW next \in Phases, Runner(next),
           service' \in {"up", "dying", "down"}
    PROVE  /\ Types' /\ AnsweredTaken' /\ AbortsOfDuplicate' /\ DoneCompleted'
           /\ UNCHANGED <<arm, group, client, result, out, api, eng, chain, attempts>>
           /\ phase' = next
<1>1. /\ UNCHANGED <<arm, group, client, result, out, api, eng, chain, attempts>>
      /\ phase' = next
  BY DEF Runner, clients, served
<1>2. Types'
  BY <1>1 DEF RunInv, Types
<1>3. AnsweredTaken' /\ AbortsOfDuplicate' /\ DoneCompleted'
  BY <1>1 DEF RunInv, AnsweredTaken, AbortsOfDuplicate, DoneCompleted, Role
<1> QED BY <1>1, <1>2, <1>3

\* A move of the runner that polls nothing.
LEMMA QuietMove ==
    ASSUME RunInv, Running, NEW next \in Phases, Runner(next), UNCHANGED <<snap, quiet, report>>,
           service' \in {"up", "dying", "down"},
           service' = "up" => service = "up",
           RunnerPlace', HasPolled' => HasPolled
    PROVE  RunInv'
<1>1. /\ Types' /\ AnsweredTaken' /\ AbortsOfDuplicate' /\ DoneCompleted'
      /\ UNCHANGED <<arm, group, client, result, out, api, eng, chain, attempts>>
  BY RunnerMoves
<1>2. AttemptsCounted'
  BY <1>1 DEF RunInv, AttemptsCounted
<1>3. HeldPolled'
  BY <1>1 DEF RunInv, HeldPolled
<1>4. ReportTrue'
  BY NoReportYet DEF ReportTrue
<1> QED BY <1>1, <1>2, <1>3, <1>4 DEF RunInv

LEMMA RunnerSteps ==
    ASSUME RunInv, Running, GoDown \/ ControlFails \/ RunnerStep
    PROVE  RunInv'
<1>1. /\ Types /\ AnsweredTaken /\ AbortsOfDuplicate /\ DoneCompleted
      /\ AttemptsCounted /\ RunnerPlace /\ HeldPolled
  BY DEF RunInv
<1>2. report = None
  BY NoReportYet
<1>3. CASE GoDown
  <2>1. /\ Runner(phase) /\ UNCHANGED <<snap, quiet, report>> /\ service' = "down"
        /\ phase' = phase /\ UNCHANGED <<arm, group, client>>
    BY <1>3 DEF GoDown, Runner, clients
  <2>2. RunnerPlace' /\ (HasPolled' => HasPolled)
    BY <2>1, <1>1 DEF RunnerPlace, HasPolled
  <2> QED BY <2>1, <2>2, <1>1, QuietMove DEF Types, RunnerPlace, Running, Phases
<1>4. CASE ControlFails
  <2>1. /\ Runner("failed") /\ UNCHANGED <<snap, quiet, report>> /\ service' = "down"
        /\ phase' = "failed" /\ UNCHANGED <<arm, group, client>>
        /\ phase \in {"polling", "repolling"}
    BY <1>4 DEF ControlFails, Runner, clients
  <2>2. RunnerPlace' /\ (HasPolled' => HasPolled)
    BY <2>1, <1>1 DEF RunnerPlace, HasPolled
  <2> QED BY <2>1, <2>2, QuietMove DEF Phases
<1>5. CASE GroupDone
  <2>1. /\ Runner("polling") /\ UNCHANGED <<service, snap, quiet, report>>
        /\ phase' = "polling" /\ UNCHANGED <<arm, group, client>>
        /\ phase = "initial" /\ \A r \in group : client[r] = "done"
    BY <1>5 DEF GroupDone, Runner, clients
  <2>2. RunnerPlace' /\ (HasPolled' => HasPolled)
    BY <2>1, <1>1 DEF RunnerPlace, HasPolled
  <2> QED BY <2>1, <2>2, <1>1, QuietMove DEF Phases, Types
<1>6. CASE Poll
  <2>1. /\ phase \in {"polling", "repolling"} /\ service = "up" /\ snap' = ControlState
        /\ UNCHANGED <<service, report>>
    BY <1>6 DEF Poll
  <2>2. PICK next \in {phase, AfterPolling} :
          /\ Runner(next)
          /\ next # phase => ControlState.active = {}
          /\ quiet' = quiet \/ ControlState.active = {}
          /\ next = phase => quiet' = quiet
    BY <1>6 DEF Poll, AfterPolling
  <2>3. next \in Phases
    BY <2>1 DEF AfterPolling, Phases
  <2>4. /\ Types' /\ AnsweredTaken' /\ AbortsOfDuplicate' /\ DoneCompleted'
        /\ UNCHANGED <<arm, group, client, result, out, api, eng, chain, attempts>>
        /\ phase' = next
    BY <2>1, <2>2, <2>3, RunnerMoves
  <2>5. /\ ControlState.active = {r \in Requests : api[r] = "active"}
        /\ ControlState.attempts = attempts
    BY DEF ControlState
  <2>6. RunnerPlace'
    BY <2>1, <2>2, <2>4, <2>5, <1>1 DEF RunnerPlace, AfterPolling
  <2>7. AttemptsCounted'
    BY <2>1, <2>4, <2>5, <1>1 DEF AttemptsCounted, Types
  <2>8. HeldPolled'
    <3>1. \A r \in Roles : ~HasExit(chain[r])
      BY <2>1, <1>1 DEF HeldPolled
    <3>2. \A r \in group : api[r] = "active" => r \in snap'.active
      BY <2>1, <2>5 DEF Requests
    <3> QED BY <3>1, <3>2, <2>1, <2>4 DEF HeldPolled
  <2>9. ReportTrue'
    BY <2>1, <1>2 DEF ReportTrue
  <2> QED BY <2>4, <2>6, <2>7, <2>8, <2>9 DEF RunInv
<1>7. CASE PollDeadline
  <2>1. /\ phase \in {"polling", "repolling"} /\ snap # None /\ quiet' = FALSE
        /\ UNCHANGED <<service, snap, report>>
        /\ Runner(AfterPolling) /\ AfterPolling \in Phases
    BY <1>7 DEF PollDeadline, AfterPolling, Phases
  <2>2. /\ Types' /\ AnsweredTaken' /\ AbortsOfDuplicate' /\ DoneCompleted'
        /\ UNCHANGED <<arm, group, client, result, out, api, eng, chain, attempts>>
        /\ phase' = AfterPolling
    BY <2>1, <1>1, RunnerMoves DEF Types
  <2>3. HasPolled' => HasPolled
    BY <2>1, <2>2, <1>1 DEF HasPolled, RunnerPlace
  <2>4. RunnerPlace'
    BY <2>1, <2>2, <1>1 DEF RunnerPlace, AfterPolling
  <2>5. AttemptsCounted' /\ HeldPolled'
    BY <2>1, <2>2, <2>3, <1>1 DEF AttemptsCounted, HeldPolled
  <2>6. ReportTrue'
    BY <2>1, <1>2 DEF ReportTrue
  <2> QED BY <2>2, <2>4, <2>5, <2>6 DEF RunInv
<1>8. CASE GiveUp
  <2>1. /\ Runner("failed") /\ UNCHANGED <<snap, quiet, report>> /\ service' = "down"
        /\ phase' = "failed" /\ UNCHANGED <<arm, group, client>>
        /\ phase # "initial"
    BY <1>8 DEF GiveUp, Runner, clients
  <2>2. RunnerPlace' /\ ~HasPolled'
    BY <2>1, <1>1 DEF RunnerPlace, HasPolled
  <2> QED BY <2>1, <2>2, QuietMove DEF Phases
<1>9. CASE ArmWorker
  <2>1. /\ Runner("armed") /\ UNCHANGED <<service, snap, quiet, report>>
        /\ phase' = "armed" /\ UNCHANGED <<arm, group, client>>
        /\ phase = "worker" /\ arm = "fault"
    BY <1>9 DEF ArmWorker, Runner, clients
  <2>2. RunnerPlace' /\ (HasPolled' => HasPolled)
    BY <2>1, <1>1 DEF RunnerPlace, HasPolled
  <2> QED BY <2>1, <2>2, <1>1, QuietMove DEF Phases, Types
<1>10. CASE KillWorker
  <2>1. /\ Runner("killed") /\ UNCHANGED <<snap, quiet, report>> /\ service' = "dying"
        /\ phase' = "killed" /\ UNCHANGED <<arm, group, client>>
        /\ phase = "armed"
    BY <1>10 DEF KillWorker, Runner, clients
  <2>2. RunnerPlace' /\ arm = "fault" /\ (HasPolled' => HasPolled)
    BY <2>1, <1>1 DEF RunnerPlace, HasPolled
  <2> QED BY <2>1, <2>2, QuietMove DEF Phases
<1>11. CASE Collect
  <2>1. CASE phase = "killed" /\ Runner("stopping") /\ snap' = snap
    <3>1. /\ UNCHANGED <<service, quiet, report>> /\ client["worker"] = "done"
          /\ phase' = "stopping" /\ UNCHANGED <<arm, group, client>>
      BY <1>11, <2>1 DEF Collect, Runner, clients
    <3>2. RunnerPlace' /\ (HasPolled' => HasPolled)
      BY <2>1, <3>1, <1>1 DEF RunnerPlace, HasPolled
    <3> QED BY <2>1, <3>1, <3>2, <1>1, QuietMove DEF Phases, Types
  <2>2. CASE arm = "control" /\ phase = "worker" /\ Runner("repolling")
    <3>1. UNCHANGED <<service, quiet, report>> /\ client["worker"] = "done"
      BY <1>11 DEF Collect
    <3>2. /\ Types' /\ AnsweredTaken' /\ AbortsOfDuplicate' /\ DoneCompleted'
          /\ UNCHANGED <<arm, group, client, result, out, api, eng, chain, attempts>>
          /\ phase' = "repolling"
      BY <2>2, <3>1, <1>1, RunnerMoves DEF Types, Phases
    <3>3. ~HasPolled' /\ RunnerPlace'
      BY <2>2, <3>1, <3>2, <1>1 DEF HasPolled, RunnerPlace
    <3>4. AttemptsCounted' /\ HeldPolled'
      BY <2>2, <3>1, <3>2, <3>3, <1>1 DEF AttemptsCounted, HeldPolled
    <3>5. ReportTrue'
      BY <3>1, <1>2 DEF ReportTrue
    <3> QED BY <3>2, <3>3, <3>4, <3>5 DEF RunInv
  <2> QED BY <2>1, <2>2, <1>11 DEF Collect
<1>12. CASE StopService
  <2>1. /\ Runner(phase) /\ UNCHANGED <<snap, quiet, report>> /\ service' = "down"
        /\ phase' = phase /\ UNCHANGED <<arm, group, client>>
        /\ phase = "stopping" /\ arm = "control"
    BY <1>12 DEF StopService, Runner, clients
  <2>2. RunnerPlace' /\ ~HasPolled'
    BY <2>1, <1>1 DEF RunnerPlace, HasPolled
  <2> QED BY <2>1, <2>2, QuietMove DEF Phases
<1>13. CASE Analyze
  <2>1. /\ Runner("analysed") /\ UNCHANGED <<service, snap, quiet>>
        /\ phase = "stopping" /\ service = "down"
        /\ report' = [valid |-> EvidenceValid,
                      zombies |-> IF arm = "fault" THEN Zombies ELSE {}]
    BY <1>13 DEF Analyze
  <2>2. /\ Types' /\ AnsweredTaken' /\ AbortsOfDuplicate' /\ DoneCompleted'
        /\ UNCHANGED <<arm, group, client, result, out, api, eng, chain, attempts>>
        /\ phase' = "analysed"
    BY <2>1, <1>1, RunnerMoves DEF Types, Phases
  <2>3. RunnerPlace' /\ (HasPolled' => HasPolled)
    BY <2>1, <2>2, <1>1 DEF RunnerPlace, HasPolled
  <2>4. AttemptsCounted' /\ HeldPolled'
    BY <2>1, <2>2, <2>3, <1>1 DEF AttemptsCounted, HeldPolled
  <2>5. (EvidenceValid <=> EvidenceValid') /\ Zombies' = Zombies /\ Requests' = Requests
    BY <2>1, <2>2, SameVerdict
  <2>6. \A r \in Requests : client[r] = "done"
    BY <2>1, <1>1 DEF RunnerPlace, Requests
  <2>7. report'.valid = EvidenceValid /\ (arm = "fault" => report'.zombies = Zombies)
    BY <2>1
  <2>8. ReportTrue'
    BY <2>2, <2>5, <2>6, <2>7 DEF ReportTrue
  <2> QED BY <2>2, <2>3, <2>4, <2>8 DEF RunInv
<1> QED BY <1>3, <1>4, <1>5, <1>6, <1>7, <1>8, <1>9, <1>10, <1>11, <1>12, <1>13
        DEF RunnerStep

-----------------------------------------------------------------------------
(* The theorems                                                            *)

\* A valid chain that holds a completion holds nothing else.
LEMMA CompletionAlone ==
    ASSUME NEW c \in Seq(TerminalRecord), HasCompleted(c),
           \/ TerminalChainValid(c)
           \/ Names(c) = <<"generation_done">>
    PROVE  Len(c) = 1
<1>1. DOMAIN c = 1..Len(c) /\ Len(c) \in Nat
  OBVIOUS
<1>2. PICK i \in 1..Len(c) : c[i].cause = "complete"
  BY <1>1 DEF HasCompleted, Range, Causes
<1>3. CASE Names(c) = <<"generation_done">>
  <2>1. DOMAIN Names(c) = DOMAIN c
    BY DEF Names
  <2>2. DOMAIN Names(c) = 1..1
    BY <1>3
  <2>3. Len(c) \in 1..Len(c)
    BY <1>1, <1>2
  <2>4. 1..Len(c) = 1..1
    BY <2>1, <2>2, <1>1, Zenon
  <2>5. Len(c) \in 1..1
    BY <2>3, <2>4, Zenon
  <2> QED BY <2>5
<1>4. CASE TerminalChainValid(c)
  <2> SUFFICES ASSUME Len(c) = 2 PROVE FALSE
    BY <1>4 DEF TerminalChainValid
  <2>1. i \in {1, 2}
    BY <1>2
  <2>2. CASE Range(Causes(c)) = {"engine_failure"}
    <3>1. "complete" \in Range(Causes(c))
      BY DEF HasCompleted
    <3> QED BY <2>2, <3>1
  <2>3. CASE /\ c[2].cause = "explicit_cancel"
             /\ c[1].cause \in {"client_disconnect", "client_timeout", "explicit_cancel"}
    BY <2>1, <2>3, <1>2
  <2> QED BY <2>2, <2>3, <1>4 DEF TerminalChainValid
<1> QED BY <1>3, <1>4

LEMMA InvImpliesVerdict == ASSUME RunInv PROVE VerdictIsSound
<1> SUFFICES ASSUME Valid PROVE VerdictIsSound
  BY DEF VerdictIsSound, SurvivorsCompleted, CancelledTwice, OneEnd, ZombiesCounted
<1>1. /\ Types /\ DoneCompleted /\ AttemptsCounted /\ RunnerPlace /\ HeldPolled
      /\ Requests \subseteq Roles
  BY RequestsAreRoles DEF RunInv
<1>2. /\ phase = "analysed" /\ EvidenceValid
      /\ arm = "fault" => report.zombies = Zombies
      /\ \A r \in Requests : client[r] = "done"
  BY DEF RunInv, ReportTrue, Valid
<1>3. arm = "fault" => HasPolled
  BY <1>2 DEF HasPolled
<1>4. SurvivorsCompleted
  <2> SUFFICES ASSUME NEW r \in Requests, Role(r) = "survivor" PROVE HasCompleted(chain[r])
    BY DEF SurvivorsCompleted, HasCompleted
  <2>1. Completed(r)
    BY <1>2 DEF EvidenceValid, ClientCorrect
  <2> QED BY <2>1, <1>1, <1>2 DEF DoneCompleted, Completed
<1>5. CancelledTwice
  <2> SUFFICES ASSUME arm = "fault", "duplicate" \in group PROVE attempts = 2
    BY DEF CancelledTwice
  <2>1. snap.attempts = 2
    BY <1>2 DEF EvidenceValid, DuplicateWitnessed
  <2> QED BY <2>1, <1>1, <1>3 DEF AttemptsCounted, Types
<1>6. OneEnd
  <2> SUFFICES ASSUME NEW r \in Requests, HasCompleted(chain[r]) PROVE Len(chain[r]) = 1
    BY DEF OneEnd, HasCompleted
  <2>1. chain[r] \in Seq(TerminalRecord)
    BY <1>1 DEF Types
  <2>2. TerminalChainValid(chain[r]) \/ Names(chain[r]) = <<"generation_done">>
    BY <1>2 DEF EvidenceValid, ExactTerminal
  <2> QED BY <2>1, <2>2, CompletionAlone
<1>7. ZombiesCounted
  <2> SUFFICES ASSUME arm = "fault", NEW r \in group, result[r].status = 200,
                      HasExit(chain[r])
               PROVE  r \in report.zombies
    BY DEF ZombiesCounted, HasExit, EngineExit
  <2>1. r \in Roles
    BY <1>1 DEF Types
  <2>2. r \in snap.active
    BY <2>1, <1>1, <1>3 DEF HeldPolled
  <2>3. ~quiet
    BY <2>2, <1>1 DEF RunnerPlace
  <2> QED BY <2>2, <2>3, <1>2 DEF Zombies
<1> QED BY <1>4, <1>5, <1>6, <1>7 DEF VerdictIsSound

\* The clients, the service and the runner keep the invariant.
THEOREM RunInvariance == Spec => []RunInv
<1>1. Init => RunInv
  <2> SUFFICES ASSUME Init PROVE RunInv
    OBVIOUS
  <2>1. Types
    BY RunAssumption DEF Init, Types, Phases, Places, Outputs
  <2>2. \A r \in Roles : chain[r] = <<>> /\ ~HasExit(chain[r])
    BY DEF Init, HasExit, Range
  <2>3. AnsweredTaken /\ AbortsOfDuplicate /\ AttemptsCounted
    BY DEF Init, AnsweredTaken, AbortsOfDuplicate, AttemptsCounted, HasPolled, Roles
  <2>4. DoneCompleted /\ HeldPolled
    BY <2>2 DEF Init, DoneCompleted, HeldPolled, HasPolled
  <2>5. RunnerPlace /\ ReportTrue
    BY DEF Init, RunnerPlace, ReportTrue
  <2> QED BY <2>1, <2>3, <2>4, <2>5 DEF RunInv
<1>2. RunInv /\ [Next]_vars => RunInv'
  <2> SUFFICES ASSUME RunInv, [Next]_vars PROVE RunInv'
    OBVIOUS
  <2>1. Requests \subseteq Roles
    BY RequestsAreRoles DEF RunInv
  <2>2. CASE UNCHANGED vars
    BY <2>2, LinesOnly DEF vars, clients, served, run
  <2>3. CASE Running /\ \E r \in Requests :
               \/ Accept(r) \/ Compute(r) \/ Complete(r) \/ Drop(r)
               \/ Line(r) \/ EngineAbort(r) \/ FailHeld(r)
    <3> SUFFICES ASSUME NEW r \in Requests, Line(r) PROVE RunInv'
      BY <2>1, <2>3, ServiceSteps
    <3> QED BY LinesOnly DEF Line, clients, run
  <2>4. CASE Running /\ \E r \in Requests : ClientStep(r)
    BY <2>1, <2>4, ClientSteps
  <2>5. CASE Running /\ (GoDown \/ ControlFails \/ RunnerStep)
    BY <2>5, RunnerSteps
  <2> QED BY <2>2, <2>3, <2>4, <2>5 DEF Next, Rest
<1> QED BY <1>1, <1>2, PTL DEF Spec

\* Evidence that _analyze and _normal_control_analysis call valid means what it
\* says: survivors completed, both cancellations took place, a completion is the
\* only end of its request, and what the exit of the worker ended is a zombie.
THEOREM VerdictSound == Spec => []VerdictIsSound
<1> QED BY InvImpliesVerdict, RunInvariance, PTL
=============================================================================
