-------------------------- MODULE Judgement_proofs --------------------------
(***************************************************************************)
(* Two results of the evaluation.  The locked output of the blind          *)
(* attribution runners, for any number of runners and any comparison       *)
(* views: the study and the scorer stay opaque, whether a result may be    *)
(* locked is a condition that may change from step to step.  And the       *)
(* decision of an M0 campaign, which is the gate of its plan, whatever the *)
(* number of repetitions, the threshold, the boundaries and the latencies. *)
(***************************************************************************)
EXTENDS BlindAttribution, M0Decision, FiniteSetTheorems, SequenceTheorems,
        WellFoundedInduction, TLAPS

-----------------------------------------------------------------------------
(* Blind attribution: the inductive invariant *)

PathCount == Len(Paths)

Complete(p) == [state |-> "complete", by |-> p]
Partial(p) == [state |-> "partial", by |-> p]

ControlStates == {"idle", "open", "write", "unlink", "done", "failed", "crashed"}

\* What the variables of the runners hold.
LockTypeOK ==
    /\ pc \in [Runners -> ControlStates]
    /\ at \in [Runners -> 1..PathCount]
    /\ DOMAIN files = {Paths[i] : i \in 1..PathCount}

\* Each path is absent, half written by the runner that works on it, or complete
\* by a runner that has passed it.
PathState(i) ==
    \/ files[Paths[i]] = NoFile
    \/ \E p \in Runners :
        /\ files[Paths[i]] = Partial(p)
        /\ at[p] = i /\ pc[p] \in {"write", "unlink", "crashed"}
    \/ \E p \in Runners :
        /\ files[Paths[i]] = Complete(p)
        /\ i < at[p] \/ (i = PathCount /\ pc[p] = "done")

\* What a runner has passed is complete and its own, and what it writes is its own.
RunnerState(p) ==
    /\ \A i \in 1..PathCount : i < at[p] => files[Paths[i]] = Complete(p)
    /\ pc[p] \in {"write", "unlink"} => files[Paths[at[p]]] = Partial(p)
    /\ pc[p] = "done" => at[p] = PathCount /\ files[Paths[PathCount]] = Complete(p)

LockInv ==
    /\ LockTypeOK
    /\ \A i \in 1..PathCount : PathState(i)
    /\ \A p \in Runners : RunnerState(p)

-----------------------------------------------------------------------------

\* The paths differ, the last one is that of the result.
LEMMA PathFacts ==
    ASSUME BlindConstants
    PROVE  /\ PathCount \in Nat \ {0} /\ DOMAIN Paths = 1..PathCount
           /\ Range(Paths) = {Paths[i] : i \in 1..PathCount}
           /\ Paths[PathCount] = "result"
           /\ \A i, j \in 1..PathCount : Paths[i] = Paths[j] => i = j
<1>1. PICK S : Views \in Seq(S)
    BY DEF BlindConstants
<1>2. /\ Views \in Seq(S \cup {"result"}) /\ Len(Views) \in Nat
      /\ DOMAIN Views = 1..Len(Views)
    BY <1>1
<1>3. /\ Len(Paths) = Len(Views) + 1 /\ DOMAIN Paths = 1..(Len(Views) + 1)
      /\ Paths[Len(Views) + 1] = "result"
      /\ \A i \in 1..Len(Views) : Paths[i] = Views[i]
    BY <1>2 DEF Paths
<1>4. \A i \in 1..Len(Views) : Paths[i] # "result"
    BY <1>2, <1>3 DEF BlindConstants
<1>5. \A i, j \in 1..Len(Views) : Paths[i] = Paths[j] => i = j
    BY <1>2, <1>3 DEF BlindConstants
<1>6. \A i \in 1..(Len(Views) + 1) : i \in 1..Len(Views) \/ i = Len(Views) + 1
    BY <1>2
<1>7. \A i, j \in 1..(Len(Views) + 1) : Paths[i] = Paths[j] => i = j
    BY <1>3, <1>4, <1>5, <1>6
<1> QED
    BY <1>2, <1>3, <1>7 DEF PathCount, Range

LEMMA LockInit == ASSUME BlindConstants, BlindInit PROVE LockInv
<1>1. LockTypeOK
    BY PathFacts DEF BlindInit, LockTypeOK, ControlStates
<1>2. \A i \in 1..PathCount : files[Paths[i]] = NoFile
    BY PathFacts DEF BlindInit
<1>3. \A p \in Runners : at[p] = 1 /\ pc[p] = "idle"
    BY DEF BlindInit
<1>4. \A p \in Runners : RunnerState(p)
    BY <1>3, PathFacts DEF RunnerState
<1> QED
    BY <1>1, <1>2, <1>4 DEF LockInv, PathState

\* A step of runner p that leaves the files alone and does not pass a path.
LEMMA ControlStep ==
    ASSUME BlindConstants, LockInv, NEW p \in Runners,
           files' = files, at' = at, pc' \in [Runners -> ControlStates],
           \A q \in Runners : q # p => pc'[q] = pc[q],
           pc[p] # "done" /\ pc'[p] \notin {"write", "done"},
           pc[p] \in {"write", "unlink"} => pc'[p] \in {"unlink", "crashed"},
           pc'[p] = "unlink" => pc[p] = "write",
           pc[p] # "crashed"
    PROVE  LockInv'
<1> USE DEF LockInv
<1>1. LockTypeOK'
    BY DEF LockTypeOK, PathCount
<1>2. ASSUME NEW i \in 1..PathCount PROVE PathState(i)'
    <2>1. PathState(i)
        OBVIOUS
    <2>2. \A q \in Runners : pc[q] = "done" => pc'[q] = "done"
        OBVIOUS
    <2>3. \A q \in Runners : pc[q] \in {"write", "unlink", "crashed"} =>
                                pc'[q] \in {"write", "unlink", "crashed"}
        OBVIOUS
    <2> QED
        BY <2>1, <2>2, <2>3 DEF PathState, PathCount
<1>3. ASSUME NEW q \in Runners PROVE RunnerState(q)'
    <2>1. RunnerState(q)
        OBVIOUS
    <2>2. pc'[q] = "done" => pc[q] = "done"
        OBVIOUS
    <2>3. pc'[q] \in {"write", "unlink"} => pc[q] \in {"write", "unlink"}
        OBVIOUS
    <2> QED
        BY <2>1, <2>2, <2>3 DEF RunnerState, PathCount
<1> QED
    BY <1>1, <1>2, <1>3 DEF PathCount

\* A step of runner p that changes the file it works on.
LEMMA FileStep ==
    ASSUME BlindConstants, LockInv, NEW p \in Runners, NEW v,
           files' = [files EXCEPT ![Paths[at[p]]] = v],
           pc' \in [Runners -> ControlStates], at' \in [Runners -> 1..PathCount],
           \A q \in Runners : q # p => pc'[q] = pc[q] /\ at'[q] = at[q],
           files[Paths[at[p]]] \in {NoFile, Partial(p)},
           pc[p] \in {"open", "write", "unlink"},
           \/ v = NoFile /\ pc'[p] = "failed" /\ at'[p] = at[p]
           \/ v = Partial(p) /\ pc'[p] = "write" /\ at'[p] = at[p]
           \/ v = Complete(p) /\ pc'[p] = "open" /\ at'[p] = at[p] + 1
           \/ v = Complete(p) /\ pc'[p] = "done" /\ at'[p] = at[p] /\ at[p] = PathCount
    PROVE  LockInv'
<1> USE DEF LockInv
<1> DEFINE k == at[p]
<1>1. k \in 1..PathCount /\ PathCount \in Nat
    BY PathFacts DEF LockTypeOK
<1>2. files'[Paths[k]] = v /\ \A i \in 1..PathCount : i # k => files'[Paths[i]] = files[Paths[i]]
    BY <1>1, PathFacts DEF LockTypeOK
<1>3. LockTypeOK'
    BY DEF LockTypeOK, PathCount
<1>4. v \in {NoFile, Partial(p), Complete(p)}
    OBVIOUS
<1>5. \A q \in Runners : files[Paths[k]] # Complete(q)
    BY DEF NoFile, Partial, Complete
<1>6. \A q \in Runners : q # p => files[Paths[k]] # Partial(q)
    BY DEF NoFile, Partial
<1>7. ASSUME NEW i \in 1..PathCount PROVE PathState(i)'
    <2>1. CASE i = k
        <3>1. v = NoFile => PathState(i)'
            BY <2>1, <1>2 DEF PathState, NoFile
        <3>2. v = Partial(p) => PathState(i)'
            BY <2>1, <1>2, <1>1 DEF PathState, NoFile, Partial, Complete
        <3>3. v = Complete(p) => PathState(i)'
            BY <2>1, <1>2, <1>1 DEF PathState, NoFile, Partial, Complete, PathCount
        <3> QED
            BY <3>1, <3>2, <3>3, <1>4
    <2>2. CASE i # k
        <3>1. PathState(i) /\ files'[Paths[i]] = files[Paths[i]]
            BY <2>2, <1>2
        <3>2. CASE files[Paths[i]] = NoFile
            BY <3>1, <3>2 DEF PathState, NoFile
        <3>3. ASSUME NEW q \in Runners, files[Paths[i]] = Partial(q), at[q] = i,
                     pc[q] \in {"write", "unlink", "crashed"}
              PROVE  PathState(i)'
            <4>1. q # p
                BY <2>2, <3>3
            <4> QED
                BY <4>1, <3>1, <3>3 DEF PathState, Partial
        <3>4. ASSUME NEW q \in Runners, files[Paths[i]] = Complete(q),
                     i < at[q] \/ (i = PathCount /\ pc[q] = "done")
              PROVE  PathState(i)'
            <4>1. CASE q # p
                BY <4>1, <3>1, <3>4 DEF PathState, Complete, PathCount
            <4>2. CASE q = p
                <5>1. i < at'[p]
                    BY <4>2, <3>4, <1>1
                <5> QED
                    BY <5>1, <4>2, <3>1, <3>4 DEF PathState, Complete
            <4> QED
                BY <4>1, <4>2
        <3> QED
            BY <3>1, <3>2, <3>3, <3>4 DEF PathState
    <2> QED
        BY <2>1, <2>2
<1>8. ASSUME NEW q \in Runners PROVE RunnerState(q)'
    <2>1. RunnerState(q) /\ at[q] \in 1..PathCount
        BY DEF LockTypeOK
    <2>2. CASE q # p
        <3>1. pc'[q] = pc[q] /\ at'[q] = at[q]
            BY <2>2
        <3>2. ASSUME NEW i \in 1..PathCount, i < at[q] PROVE files'[Paths[i]] = Complete(q)
            <4>1. files[Paths[i]] = Complete(q)
                BY <3>2, <2>1 DEF RunnerState
            <4> QED
                BY <4>1, <1>2, <1>5
        <3>3. pc[q] \in {"write", "unlink"} => files'[Paths[at[q]]] = Partial(q)
            <4>1. pc[q] \in {"write", "unlink"} => files[Paths[at[q]]] = Partial(q)
                BY <2>1 DEF RunnerState
            <4> QED
                BY <4>1, <2>1, <2>2, <1>2, <1>6
        <3>4. pc[q] = "done" => at[q] = PathCount /\ files'[Paths[PathCount]] = Complete(q)
            <4>1. pc[q] = "done" => at[q] = PathCount /\ files[Paths[PathCount]] = Complete(q)
                BY <2>1 DEF RunnerState
            <4> QED
                BY <4>1, <1>2, <1>5, PathFacts
        <3> QED
            BY <3>1, <3>2, <3>3, <3>4 DEF RunnerState, Complete, Partial, PathCount
    <2>3. CASE q = p
        <3>1. ASSUME NEW i \in 1..PathCount, i < at'[p] PROVE files'[Paths[i]] = Complete(p)
            <4>1. i < k \/ (i = k /\ v = Complete(p))
                BY <3>1, <1>1
            <4>2. i < k => files[Paths[i]] = Complete(p)
                BY <2>1, <2>3 DEF RunnerState
            <4> QED
                BY <4>1, <4>2, <1>1, <1>2
        <3>2. pc'[p] \in {"write", "unlink"} => files'[Paths[at'[p]]] = Partial(p)
            BY <1>2
        <3>3. pc'[p] = "done" => at'[p] = PathCount /\ files'[Paths[PathCount]] = Complete(p)
            BY <1>2
        <3> QED
            BY <2>3, <3>1, <3>2, <3>3 DEF RunnerState, Complete, Partial, PathCount
    <2> QED
        BY <2>2, <2>3
<1> QED
    BY <1>3, <1>7, <1>8 DEF PathCount

-----------------------------------------------------------------------------

LEMMA LockStep == ASSUME BlindConstants, LockInv, [BlindNext]_blindVars PROVE LockInv'
<1> USE DEF LockInv
<1>1. CASE UNCHANGED <<files, pc, at>>
    BY <1>1 DEF LockTypeOK, PathState, RunnerState, PathCount
<1>2. ASSUME NEW p \in Runners,
             Start(p) \/ Open(p) \/ WriteFile(p) \/ WriteFails(p) \/ Unlink(p) \/ Crash(p)
      PROVE  LockInv'
    <2>1. /\ pc \in [Runners -> ControlStates] /\ at \in [Runners -> 1..PathCount]
          /\ RunnerState(p) /\ at[p] \in 1..PathCount /\ PathCount \in Nat
        BY PathFacts DEF LockTypeOK
    <2>2. CASE Start(p)
        BY <2>1, <2>2, ControlStep DEF Start, ControlStates
    <2>3. CASE WriteFails(p)
        BY <2>1, <2>3, ControlStep DEF WriteFails, ControlStates
    <2>4. CASE Crash(p)
        BY <2>1, <2>4, ControlStep DEF Crash, ControlStates
    <2>5. CASE Open(p)
        <3>1. CASE pc' = [pc EXCEPT ![p] = "failed"] /\ files' = files
            BY <2>1, <2>5, <3>1, ControlStep DEF Open, ControlStates
        <3>2. CASE /\ files[Name(p)] = NoFile
                   /\ files' = [files EXCEPT ![Name(p)] = Partial(p)]
                   /\ pc' = [pc EXCEPT ![p] = "write"]
            <4>1. /\ pc' \in [Runners -> ControlStates] /\ pc'[p] = "write" /\ at' = at
                  /\ \A q \in Runners : q # p => pc'[q] = pc[q]
                BY <2>1, <2>5, <3>2 DEF Open, ControlStates
            <4>2. files' = [files EXCEPT ![Paths[at[p]]] = Partial(p)]
                BY <3>2 DEF Name
            <4> QED
                BY <4>1, <4>2, <2>1, <2>5, <3>2, FileStep DEF Open, Name
        <3> QED
            BY <2>5, <3>1, <3>2 DEF Open, OpenRefused, Partial
    <2>6. CASE WriteFile(p)
        <3>1. files[Paths[at[p]]] = Partial(p)
            BY <2>1, <2>6 DEF WriteFile, RunnerState
        <3>2. files' = [files EXCEPT ![Paths[at[p]]] = Complete(p)]
            <4>1. files' = [files EXCEPT ![Paths[at[p]]] =
                                [files[Paths[at[p]]] EXCEPT !.state = "complete"]]
                BY <2>6 DEF WriteFile, Name
            <4>2. [Partial(p) EXCEPT !.state = "complete"] = Complete(p)
                BY DEF Partial, Complete
            <4> QED
                BY <3>1, <4>1, <4>2
        <3>3. CASE at[p] = PathCount
            <4>1. /\ pc' \in [Runners -> ControlStates] /\ pc'[p] = "done" /\ at' = at
                  /\ \A q \in Runners : q # p => pc'[q] = pc[q]
                BY <2>1, <2>6, <3>3 DEF WriteFile, ControlStates, PathCount
            <4> QED
                BY <4>1, <2>1, <2>6, <3>1, <3>2, <3>3, FileStep DEF WriteFile
        <3>4. CASE at[p] # PathCount
            <4>1. /\ pc' \in [Runners -> ControlStates] /\ pc'[p] = "open"
                  /\ at' \in [Runners -> 1..PathCount] /\ at'[p] = at[p] + 1
                  /\ \A q \in Runners : q # p => pc'[q] = pc[q] /\ at'[q] = at[q]
                BY <2>1, <2>6, <3>4 DEF WriteFile, ControlStates, PathCount
            <4> QED
                BY <4>1, <2>1, <2>6, <3>1, <3>2, <3>4, FileStep DEF WriteFile
        <3> QED
            BY <3>3, <3>4
    <2>7. CASE Unlink(p)
        <3>1. files[Paths[at[p]]] = Partial(p)
            BY <2>1, <2>7 DEF Unlink, RunnerState
        <3>2. files' = [files EXCEPT ![Paths[at[p]]] = NoFile]
            BY <2>7 DEF Unlink, Unlinked, Name
        <3>3. /\ pc' \in [Runners -> ControlStates] /\ pc'[p] = "failed" /\ at' = at
              /\ \A q \in Runners : q # p => pc'[q] = pc[q]
            BY <2>1, <2>7 DEF Unlink, ControlStates
        <3> QED
            BY <2>1, <2>7, <3>1, <3>2, <3>3, FileStep DEF Unlink
    <2> QED
        BY <1>2, <2>2, <2>3, <2>4, <2>5, <2>6, <2>7
<1> QED
    BY <1>1, <1>2 DEF BlindNext, StudyNext, RunNullPair, Calibrate, AddPair, CloseCase, BlindRest, blindVars

LEMMA LockInvImplies == ASSUME BlindConstants, LockInv PROVE OutputOfOneRunner
<1> USE DEF LockInv
<1>1. /\ PathCount \in Nat \ {0} /\ Range(Paths) = {Paths[i] : i \in 1..PathCount}
      /\ Paths[PathCount] = "result" /\ 1 \in 1..PathCount /\ PathCount \in 1..PathCount
      /\ at \in [Runners -> 1..PathCount]
    BY PathFacts DEF LockTypeOK
<1>2. ASSUME NEW i \in 1..PathCount, files[Paths[i]].state = "complete"
      PROVE  \E p \in Runners : /\ files[Paths[i]] = Complete(p)
                                /\ i < at[p] \/ (i = PathCount /\ pc[p] = "done")
    <2>1. PathState(i)
        OBVIOUS
    <2>2. files[Paths[i]] # NoFile /\ \A p \in Runners : files[Paths[i]] # Partial(p)
        BY <1>2 DEF NoFile, Partial
    <2> QED
        BY <2>1, <2>2 DEF PathState
<1>3. ASSUME NEW p \in Runners, pc[p] = "done", NEW i \in 1..PathCount
      PROVE  files[Paths[i]] = Complete(p)
    <2>1. RunnerState(p) /\ at[p] = PathCount
        BY <1>3 DEF RunnerState
    <2> QED
        BY <1>1, <1>3, <2>1 DEF RunnerState
<1>4. ASSUME NEW i \in 1..PathCount, files[Paths[i]].state = "complete"
      PROVE  /\ files[Paths[i]].by \in Runners
             /\ files[Paths[1]] = Complete(files[Paths[i]].by)
    <2>1. PICK p \in Runners : /\ files[Paths[i]] = Complete(p)
                               /\ i < at[p] \/ (i = PathCount /\ pc[p] = "done")
        BY <1>2, <1>4
    <2>2. files[Paths[i]].by = p
        BY <2>1 DEF Complete
    <2>3. CASE pc[p] = "done"
        BY <1>1, <1>3, <2>1, <2>2, <2>3
    <2>4. CASE i < at[p]
        <3>1. RunnerState(p) /\ 1 < at[p]
            BY <1>1, <2>4
        <3> QED
            BY <1>1, <2>2, <3>1 DEF RunnerState
    <2> QED
        BY <2>1, <2>3, <2>4
<1>5. ASSUME NEW i \in 1..PathCount, NEW j \in 1..PathCount,
             files[Paths[i]].state = "complete", files[Paths[j]].state = "complete"
      PROVE  files[Paths[i]].by = files[Paths[j]].by
    <2>1. Complete(files[Paths[i]].by) = Complete(files[Paths[j]].by)
        BY <1>4, <1>5
    <2> QED
        BY <2>1 DEF Complete
<1>6. ASSUME NEW p \in Runners, files["result"] = Complete(p)
      PROVE  pc[p] = "done"
    <2>1. files[Paths[PathCount]].state = "complete" /\ files[Paths[PathCount]].by = p
        BY <1>1, <1>6 DEF Complete
    <2>2. PICK q \in Runners : /\ files[Paths[PathCount]] = Complete(q)
                               /\ PathCount < at[q] \/ pc[q] = "done"
        BY <1>1, <1>2, <2>1
    <2>3. q = p
        BY <2>1, <2>2 DEF Complete
    <2> QED
        BY <1>1, <2>2, <2>3
<1>7. OneRunPerOutput
    BY <1>1, <1>3, <1>5, <1>6 DEF OneRunPerOutput, Complete
<1>8. PartialHasWriter
    <2>1. ASSUME NEW i \in 1..PathCount, files[Paths[i]].state = "partial"
          PROVE  pc[files[Paths[i]].by] \in {"write", "unlink", "crashed"}
        <3>1. PathState(i)
            OBVIOUS
        <3>2. files[Paths[i]] # NoFile /\ \A p \in Runners : files[Paths[i]] # Complete(p)
            BY <2>1 DEF NoFile, Complete
        <3>3. PICK p \in Runners : /\ files[Paths[i]] = Partial(p)
                                   /\ pc[p] \in {"write", "unlink", "crashed"}
            BY <3>1, <3>2 DEF PathState
        <3> QED
            BY <3>3 DEF Partial
    <2> QED
        BY <1>1, <2>1 DEF PartialHasWriter
<1> QED
    BY <1>7, <1>8 DEF OutputOfOneRunner

\* For any number of runners and any views: the files of an output directory are
\* those of one runner, and a half-written one has a writer, or its writer died.
THEOREM OutputIsOfOneRunner ==
    ASSUME BlindConstants
    PROVE  BlindSpec => []OutputOfOneRunner
<1>1. BlindInit => LockInv
    BY LockInit
<1>2. LockInv /\ [BlindNext]_blindVars => LockInv'
    BY LockStep
<1>3. LockInv => OutputOfOneRunner
    BY LockInvImplies
<1> QED
    BY <1>1, <1>2, <1>3, PTL DEF BlindSpec

\* No step of any runner changes or removes a complete file.
LEMMA LockedStaysStep ==
    ASSUME BlindConstants, LockInv, [BlindNext]_blindVars
    PROVE  [\A f \in DOMAIN files :
                files[f].state = "complete" => files'[f] = files[f]]_blindVars
<1> USE DEF LockInv
<1>1. CASE files' = files
    BY <1>1
<1>2. ASSUME NEW p \in Runners, Open(p) \/ WriteFile(p) \/ Unlink(p), files' # files
      PROVE  \A f \in DOMAIN files : files[f].state = "complete" => files'[f] = files[f]
    <2>1. RunnerState(p)
        OBVIOUS
    <2>2. files[Name(p)] \in {NoFile, Partial(p)}
        BY <1>2, <2>1 DEF Open, WriteFile, Unlink, RunnerState, Name
    <2>3. files[Name(p)].state # "complete"
        BY <2>2 DEF NoFile, Partial
    <2>4. \A f \in DOMAIN files : f # Name(p) => files'[f] = files[f]
        BY <1>2 DEF Open, WriteFile, Unlink, Unlinked
    <2> QED
        BY <2>3, <2>4
<1> QED
    BY <1>1, <1>2 DEF BlindNext, StudyNext, RunNullPair, Calibrate, AddPair, CloseCase, BlindRest, Start,
                      WriteFails, Crash, blindVars, study

\* For any number of runners and any views, a locked file stays as it is.
THEOREM LockedFilesStay ==
    ASSUME BlindConstants
    PROVE  BlindSpec => LockedStays
<1>1. BlindInit => LockInv
    BY LockInit
<1>2. LockInv /\ [BlindNext]_blindVars => LockInv'
    BY LockStep
<1>3. LockInv /\ [BlindNext]_blindVars =>
        [\A f \in DOMAIN files : files[f].state = "complete" => files'[f] = files[f]]_blindVars
    BY LockedStaysStep
<1> QED
    BY <1>1, <1>2, <1>3, PTL DEF BlindSpec, LockedStays

-----------------------------------------------------------------------------
(* The largest element *)

\* A finite set of integers that is not empty has a largest element, so that
\* Max is defined (a minimal counterexample loses an element and has one).
LEMMA FiniteHasMax ==
    ASSUME NEW S, S \subseteq Int, IsFiniteSet(S), S # {}
    PROVE  \E x \in S : \A y \in S : x >= y
<1> DEFINE HasMax(T) == \E x \in T : \A y \in T : x >= y
           Bad == {T \in SUBSET S : T # {} /\ ~HasMax(T)}
<1>1. Bad \subseteq FiniteSubsetsOf(S)
    BY FS_Subset DEF FiniteSubsetsOf
<1>2. SUFFICES ASSUME Bad # {} PROVE FALSE
    OBVIOUS
<1>3. IsWellFoundedOn(StrictSubsetOrdering(S), FiniteSubsetsOf(S))
    BY FS_StrictSubsetOrderingWellFounded
<1> HIDE DEF Bad
<1>4. PICK T \in Bad : \A U \in Bad : ~(<<U, T>> \in StrictSubsetOrdering(S))
    BY <1>1, <1>2, <1>3, WFMin
<1> USE DEF Bad
<1>5. T \subseteq S /\ T # {} /\ ~HasMax(T)
    BY <1>4
<1>6. PICK e \in T : TRUE
    BY <1>5
<1> DEFINE U == T \ {e}
<1>7. <<U, T>> \in StrictSubsetOrdering(S)
    BY <1>5, <1>6 DEF StrictSubsetOrdering
<1>8. U \notin Bad
    BY <1>4, <1>7
<1>9. CASE U = {}
    <2>1. T = {e}
        BY <1>6, <1>9
    <2> QED
        BY <2>1, <1>5
<1>10. CASE U # {}
    <2>1. PICK x \in U : \A y \in U : x >= y
        BY <1>8, <1>10, <1>5
    <2>2. x \in Int /\ e \in Int /\ \A y \in U : y \in Int
        BY <1>5, <1>6
    <2>3. CASE x >= e
        <3>1. \A y \in T : x >= y
            BY <2>1, <2>3
        <3> QED
            BY <3>1, <1>5
    <2>4. CASE e > x
        <3>1. \A y \in T : e >= y
            BY <2>1, <2>2, <2>4
        <3> QED
            BY <3>1, <1>5, <1>6
    <2> QED
        BY <2>2, <2>3, <2>4
<1> QED
    BY <1>9, <1>10

\* Max returns that element.
LEMMA MaxOfFinite ==
    ASSUME NEW S, S \subseteq Int, IsFiniteSet(S), S # {}
    PROVE  Max(S) \in S /\ \A y \in S : Max(S) >= y
BY FiniteHasMax DEF Max

\* The largest of finitely many naturals given by a function reaches a positive
\* bound exactly when one of them does.
LEMMA MaxReaches ==
    ASSUME NEW B, IsFiniteSet(B), NEW f \in [B -> Nat], NEW n \in Nat \ {0},
           NEW S, S = {0} \cup {f[b] : b \in B}
    PROVE  Max(S) >= n <=> \E b \in B : f[b] >= n
<1> DEFINE T == {f[b] : b \in B}
<1>1. f \in Surjection(B, T)
    BY DEF Surjection
<1>2. IsFiniteSet(T)
    BY <1>1, FS_Surjection
<1>3. IsFiniteSet(T \cup {0})
    BY <1>2, FS_AddElement
<1>4. IsFiniteSet(S) /\ S \subseteq Int /\ S # {} /\ 0 \in S
    BY <1>3
<1>5. Max(S) \in S /\ \A y \in S : Max(S) >= y
    BY <1>4, MaxOfFinite
<1>6. ASSUME Max(S) >= n
      PROVE  \E b \in B : f[b] >= n
    BY <1>5, <1>6
<1>7. ASSUME NEW b \in B, f[b] >= n
      PROVE  Max(S) >= n
    <2>1. f[b] \in S /\ f[b] \in Nat
        OBVIOUS
    <2> QED
        BY <2>1, <1>4, <1>5, <1>7
<1> QED
    BY <1>6, <1>7

-----------------------------------------------------------------------------
(* The inductive invariant *)

Indexes == 0..(Total - 1)

LatencyType ==
    [evaluable : BOOLEAN, observed : BOOLEAN, top1 : Boundaries \cup {NoValue}]

EntryType ==
    [index : Indexes, pathology : BOOLEAN, latency : LatencyType, valid : BOOLEAN]

\* What the variables hold.
DecisionTypeOK ==
    /\ plan \in Seq(Indexes)
    /\ \A x \in DOMAIN arms : arms[x] \in Analyses
    /\ results \in Seq(EntryType)
    /\ main \in {"running", "truncated", "closing", "rewriting", "ended", "dead"}

\* No repetition is run twice: those run and those still to run are different.
Distinct(rs) == \A i, j \in DOMAIN rs : rs[i].index = rs[j].index => i = j

RunsOnce ==
    /\ \A i, j \in DOMAIN plan : plan[i] = plan[j] => i = j
    /\ \A i \in DOMAIN results, j \in DOMAIN plan : results[i].index # plan[j]
    /\ Distinct(results)

\* Invalid evidence ends the campaign: only the last repetition can be invalid,
\* and none is while the next one runs.
StopsAtInvalid ==
    /\ \A i \in DOMAIN results : i < Len(results) => results[i].valid
    /\ main = "running" => \A i \in DOMAIN results : results[i].valid

\* A decided summary is the decision about the repetitions that it lists.
SummarySound ==
    summary.decision \in {"GO", "NO_GO"} =>
        /\ summary.results \in Seq(EntryType)
        /\ Distinct(summary.results)
        /\ summary.decision = Decision(summary.results)

GateInv == DecisionTypeOK /\ RunsOnce /\ StopsAtInvalid /\ SummarySound

-----------------------------------------------------------------------------

\* The boundary that grew most is a boundary, and there is none exactly when
\* none grew.
LEMMA Top1Type ==
    ASSUME DecisionConstants, NEW delta \in [Boundaries -> Deltas]
    PROVE  Top1(delta) \in Boundaries \cup {NoValue}
<1> DEFINE grown == {b \in Boundaries : delta[b] > 0}
           values == {delta[b] : b \in grown}
           most  == {b \in grown : \A o \in grown : delta[o] <= delta[b]}
<1>1. CASE grown = {}
    BY <1>1 DEF Top1
<1>2. CASE grown # {}
    <2>1. IsFiniteSet(grown) /\ Boundaries \subseteq Int /\ Deltas \subseteq Int
        BY FS_Subset DEF DecisionConstants
    <2>2. [b \in grown |-> delta[b]] \in Surjection(grown, values)
        BY DEF Surjection
    <2>3. IsFiniteSet(values)
        BY <2>1, <2>2, FS_Surjection
    <2>4. values \subseteq Int /\ values # {}
        BY <1>2, <2>1
    <2>5. PICK v \in values : \A w \in values : v >= w
        BY <2>3, <2>4, FiniteHasMax
    <2>6. most # {}
        <3>1. PICK b \in grown : delta[b] = v
            OBVIOUS
        <3>2. \A o \in grown : delta[o] <= delta[b]
            BY <2>1, <2>4, <2>5, <3>1
        <3> QED
            BY <3>1, <3>2
    <2>7. IsFiniteSet(most)
        BY <2>1, FS_Subset
    <2>8. most \subseteq Int
        BY <2>1
    <2> HIDE DEF most
    <2>9. Max(most) \in most
        BY <2>6, <2>7, <2>8, MaxOfFinite
    <2> USE DEF most
    <2>10. Top1(delta) = Max(most)
        BY <1>2 DEF Top1
    <2> QED
        BY <2>9, <2>10
<1> QED
    BY <1>1, <1>2

LEMMA PairedLatencyType ==
    ASSUME DecisionConstants, NEW delta \in [Boundaries -> Deltas], NEW f, NEW c
    PROVE  PairedLatency(f, c, delta) \in LatencyType
<1>1. Top1(delta) \in Boundaries \cup {NoValue}
    BY Top1Type
<1>2. Comparable(f, c) \in BOOLEAN /\ Crossed(f, c) \in BOOLEAN
    BY DEF Comparable, Crossed
<1> DEFINE evaluable == Comparable(f, c) /\ ~(Crossed(f, c) /\ Top1(delta) = NoValue)
<1>3. evaluable \in BOOLEAN /\ (evaluable /\ Crossed(f, c)) \in BOOLEAN
    BY <1>2
<1>4. (IF evaluable THEN Top1(delta) ELSE NoValue) \in Boundaries \cup {NoValue}
    BY <1>1
<1>5. PairedLatency(f, c, delta) =
        [evaluable |-> evaluable, observed |-> evaluable /\ Crossed(f, c),
         top1 |-> IF evaluable THEN Top1(delta) ELSE NoValue]
    BY DEF PairedLatency
<1> HIDE DEF evaluable
<1> QED
    BY <1>3, <1>4, <1>5 DEF LatencyType

\* The gate as _aggregate computes it is the gate of the plan.
LEMMA GoIsGate ==
    ASSUME DecisionConstants, NEW rs \in Seq(EntryType)
    PROVE  Go(rs) <=>
            \/ Cardinality(WithPathology(rs)) >= Required
            \/ \E b \in Boundaries : Cardinality(WithTop1(rs, b)) >= Required
<1> DEFINE f == [b \in Boundaries |-> Cardinality(WithTop1(rs, b))]
           S == {0} \cup {f[b] : b \in Boundaries}
<1>1. IsFiniteSet(DOMAIN rs)
    <2>1. DOMAIN rs = 1..Len(rs) /\ Len(rs) \in Nat
        OBVIOUS
    <2> QED
        BY <2>1, FS_Interval
<1>2. ASSUME NEW b \in Boundaries
      PROVE  Cardinality(WithTop1(rs, b)) \in Nat
    <2>1. IsFiniteSet(WithTop1(rs, b))
        BY <1>1, FS_Subset DEF WithTop1
    <2> QED
        BY <2>1, FS_CardinalityType
<1>3. f \in [Boundaries -> Nat]
    BY <1>2
<1>4. IsFiniteSet(Boundaries) /\ Required \in Nat \ {0}
    BY DEF DecisionConstants
<1>5. S = {0} \cup {Cardinality(WithTop1(rs, b)) : b \in Boundaries}
    OBVIOUS
<1>6. Max(S) = DominantCount(rs)
    BY <1>5 DEF DominantCount
<1>7. \A b \in Boundaries : f[b] = Cardinality(WithTop1(rs, b))
    OBVIOUS
<1> HIDE DEF f
<1>8. Max(S) >= Required <=> \E b \in Boundaries : f[b] >= Required
    BY <1>3, <1>4, MaxReaches
<1> QED
    BY <1>6, <1>7, <1>8 DEF Go

\* Total different indexes are all of them.
LEMMA AllIndexes ==
    ASSUME DecisionConstants, NEW rs \in Seq(EntryType), Len(rs) = Total, Distinct(rs)
    PROVE  {rs[i].index : i \in DOMAIN rs} = Indexes
<1> DEFINE g == [i \in 1..Total |-> rs[i].index]
<1>1. DOMAIN rs = 1..Total /\ \A i \in 1..Total : rs[i].index \in Indexes
    <2>1. DOMAIN rs = 1..Total
        OBVIOUS
    <2>2. \A i \in 1..Total : rs[i] \in EntryType
        BY <2>1
    <2> QED
        BY <2>1, <2>2 DEF EntryType
<1>2. g \in Injection(1..Total, Indexes)
    <2>1. g \in [1..Total -> Indexes]
        BY <1>1
    <2>2. \A i, j \in 1..Total : g[i] = g[j] => i = j
        BY <1>1 DEF Distinct
    <2> HIDE DEF g
    <2> QED
        BY <2>1, <2>2 DEF Injection, IsInjective
<1>3. /\ IsFiniteSet(Indexes) /\ Cardinality(Indexes) = Total
      /\ Cardinality(1..Total) = Total
    BY FS_Interval DEF Indexes, DecisionConstants
<1>4. g \in Surjection(1..Total, Indexes)
    BY <1>2, <1>3, FS_Injection
<1> QED
    BY <1>1, <1>4 DEF Surjection

-----------------------------------------------------------------------------

LEMMA GateInit == ASSUME DecisionConstants, CampaignInit PROVE GateInv
<1>1. DecisionTypeOK
    BY DEF DecisionConstants, ParsedRepetitions, CampaignInit, DecisionTypeOK, Indexes
<1>2. RunsOnce
    BY DEF DecisionConstants, ParsedRepetitions, CampaignInit, RunsOnce, Distinct
<1>3. StopsAtInvalid
    BY DEF CampaignInit, StopsAtInvalid
<1>4. SummarySound
    BY DEF CampaignInit, SummarySound
<1> QED
    BY <1>1, <1>2, <1>3, <1>4 DEF GateInv

LEMMA RunArmKeeps == ASSUME DecisionConstants, GateInv, RunArm PROVE GateInv'
<1>1. \A x \in DOMAIN arms' : arms'[x] \in Analyses
    BY DEF GateInv, DecisionTypeOK, RunArm
<1> QED
    BY <1>1 DEF GateInv, DecisionTypeOK, RunsOnce, StopsAtInvalid, SummarySound, RunArm

LEMMA PairKeeps == ASSUME DecisionConstants, GateInv, Pair PROVE GateInv'
<1> USE DEF GateInv
<1>1. PICK delta \in [Boundaries -> Deltas] :
        results' = Append(results,
            [index |-> Head(plan), pathology |-> arms["fault"].pathology,
             latency |-> PairedLatency(arms["fault"], arms["normal-control"], delta),
             valid |-> /\ arms["fault"].valid
                       /\ arms["normal-control"].valid
                       /\ PairedLatency(arms["fault"], arms["normal-control"], delta).evaluable])
    BY DEF Pair
<1> DEFINE latency == PairedLatency(arms["fault"], arms["normal-control"], delta)
           valid == arms["fault"].valid /\ arms["normal-control"].valid /\ latency.evaluable
           entry == [index |-> Head(plan), pathology |-> arms["fault"].pathology,
                     latency |-> latency, valid |-> valid]
<1>2. latency \in LatencyType
    BY PairedLatencyType
<1>3. arms["fault"] \in Analyses
    BY DEF Pair, DecisionTypeOK, Arms
<1>4. plan \in Seq(Indexes) /\ plan # <<>> /\ Len(plan) \in Nat
    BY DEF Pair, CanRun, DecisionTypeOK
<1>5. Head(plan) \in Indexes /\ Head(plan) = plan[1] /\ 1 \in DOMAIN plan
    BY <1>4
<1>6. entry \in EntryType
    <2>1. arms["fault"].pathology \in BOOLEAN
        BY <1>3 DEF Analyses
    <2>2. valid \in BOOLEAN
        OBVIOUS
    <2> HIDE DEF latency, valid
    <2> QED
        BY <2>1, <2>2, <1>2, <1>5 DEF EntryType
<1>7. entry.index = plan[1]
    BY <1>5
<1>8. results' = Append(results, entry)
    BY <1>1
<1> HIDE DEF entry
<1>9. results \in Seq(EntryType) /\ Len(results) \in Nat
    BY DEF DecisionTypeOK
<1>10. /\ results' \in Seq(EntryType) /\ Len(results') = Len(results) + 1
       /\ DOMAIN results' = 1..(Len(results) + 1) /\ DOMAIN results = 1..Len(results)
       /\ \A i \in DOMAIN results : results'[i] = results[i]
       /\ results'[Len(results) + 1] = entry
    BY <1>6, <1>8, <1>9
<1>11. /\ plan' = Tail(plan) /\ plan' \in Seq(Indexes)
       /\ DOMAIN plan' = 1..(Len(plan) - 1) /\ DOMAIN plan = 1..Len(plan)
       /\ \A j \in DOMAIN plan' : plan'[j] = plan[j + 1]
    BY <1>4 DEF Pair
<1>12. arms' = <<>> /\ main' = "truncated" /\ summary' = Torn
    BY DEF Pair
<1>13. DecisionTypeOK'
    BY <1>10, <1>11, <1>12 DEF DecisionTypeOK
<1>14. RunsOnce'
    <2>1. ASSUME NEW i \in DOMAIN plan', NEW j \in DOMAIN plan', plan'[i] = plan'[j]
          PROVE  i = j
        <3>1. i \in Int /\ j \in Int /\ i + 1 \in DOMAIN plan /\ j + 1 \in DOMAIN plan
            BY <1>4, <1>11
        <3>2. i + 1 = j + 1
            BY <2>1, <3>1, <1>11 DEF RunsOnce
        <3> QED
            BY <3>1, <3>2
    <2>2. ASSUME NEW i \in DOMAIN results', NEW j \in DOMAIN plan'
          PROVE  results'[i].index # plan'[j]
        <3>1. j \in Int /\ j + 1 \in DOMAIN plan /\ plan'[j] = plan[j + 1] /\ j + 1 # 1
            BY <1>4, <1>11
        <3>2. CASE i \in DOMAIN results
            BY <3>1, <3>2, <1>10 DEF RunsOnce
        <3>3. CASE i = Len(results) + 1
            <4>1. plan[1] # plan[j + 1]
                BY <3>1, <1>5 DEF RunsOnce
            <4> QED
                BY <4>1, <3>1, <3>3, <1>7, <1>10
        <3> QED
            BY <3>2, <3>3, <1>9, <1>10
    <2>3. ASSUME NEW i \in DOMAIN results', NEW j \in DOMAIN results',
                 results'[i].index = results'[j].index
          PROVE  i = j
        <3>1. \A k \in DOMAIN results : results[k].index # entry.index
            BY <1>5, <1>7 DEF RunsOnce
        <3>2. CASE i \in DOMAIN results /\ j \in DOMAIN results
            BY <2>3, <3>2, <1>10 DEF RunsOnce, Distinct
        <3>3. CASE i = Len(results) + 1 /\ j \in DOMAIN results
            BY <2>3, <3>1, <3>3, <1>10
        <3>4. CASE i \in DOMAIN results /\ j = Len(results) + 1
            BY <2>3, <3>1, <3>4, <1>10
        <3> QED
            BY <3>2, <3>3, <3>4, <1>9, <1>10
    <2> QED
        BY <2>1, <2>2, <2>3 DEF RunsOnce, Distinct
<1>15. StopsAtInvalid'
    <2>1. \A i \in DOMAIN results : results[i].valid
        BY DEF Pair, CanRun, StopsAtInvalid
    <2>2. ASSUME NEW i \in DOMAIN results', i < Len(results')
          PROVE  results'[i].valid
        <3>1. i \in DOMAIN results
            BY <1>9, <1>10, <2>2
        <3> QED
            BY <3>1, <2>1, <1>10
    <2> QED
        BY <2>2, <1>12 DEF StopsAtInvalid
<1>16. SummarySound'
    BY <1>12 DEF SummarySound, Torn
<1> QED
    BY <1>13, <1>14, <1>15, <1>16

\* The summary that is written is sound.
LEMMA WrittenIsSound ==
    ASSUME DecisionTypeOK, RunsOnce, summary' = Written
    PROVE  SummarySound'
BY DEF SummarySound, Written, DecisionTypeOK, RunsOnce

LEMMA WriteKeeps == ASSUME DecisionConstants, GateInv, WriteSummary PROVE GateInv'
<1> USE DEF GateInv
<1>1. DecisionTypeOK' /\ RunsOnce'
    BY DEF WriteSummary, DecisionTypeOK, RunsOnce, Distinct
<1>2. SummarySound'
    BY WrittenIsSound DEF WriteSummary
<1>3. StopsAtInvalid'
    <2>1. ASSUME main' = "running", NEW i \in DOMAIN results
          PROVE  results[i].valid
        <3>1. ~Stopped
            BY <2>1 DEF WriteSummary
        <3>2. results \in Seq(EntryType) /\ Len(results) \in Nat /\ DOMAIN results = 1..Len(results)
            BY DEF DecisionTypeOK
        <3>3. results[Len(results)].valid
            BY <3>1, <3>2 DEF Stopped
        <3> QED
            BY <3>2, <3>3 DEF StopsAtInvalid
    <2> QED
        BY <2>1 DEF StopsAtInvalid, WriteSummary
<1> QED
    BY <1>1, <1>2, <1>3

LEMMA RewriteKeeps == ASSUME DecisionConstants, GateInv, Rewrite PROVE GateInv'
<1> USE DEF GateInv
<1>1. DecisionTypeOK' /\ RunsOnce' /\ StopsAtInvalid'
    BY DEF Rewrite, DecisionTypeOK, RunsOnce, Distinct, StopsAtInvalid
<1>2. SummarySound'
    <2>1. CASE summary' = Torn
        BY <2>1 DEF SummarySound, Torn
    <2>2. CASE summary' = Written
        BY <2>2, WrittenIsSound
    <2> QED
        BY <2>1, <2>2 DEF Rewrite
<1> QED
    BY <1>1, <1>2

LEMMA GateStep == ASSUME DecisionConstants, GateInv, [CampaignNext]_campaignVars PROVE GateInv'
<1>1. CASE Die
    BY <1>1 DEF Die, GateInv, DecisionTypeOK, RunsOnce, Distinct, StopsAtInvalid, SummarySound
<1>2. CASE UNCHANGED campaignVars
    BY <1>2 DEF campaignVars, GateInv, DecisionTypeOK, RunsOnce, Distinct, StopsAtInvalid, SummarySound
<1> QED
    BY <1>1, <1>2, RunArmKeeps, PairKeeps, WriteKeeps, RewriteKeeps DEF CampaignNext, CampaignRest

LEMMA GateInvImplies == ASSUME DecisionConstants, GateInv PROVE DecisionIsGate
<1> USE DEF GateInv
<1>1. \A i \in DOMAIN results : i < Len(results) => results[i].valid
    BY DEF StopsAtInvalid
<1>2. ASSUME Decided
      PROVE  LET rs == summary.results
                 Shown(S) == Cardinality(S) >= Required
             IN /\ {rs[i].index : i \in DOMAIN rs} = 0..(Total - 1)
                /\ \A i \in DOMAIN rs : rs[i].valid
                /\ (summary.decision = "GO") <=>
                    (\/ Shown({i \in DOMAIN rs : rs[i].pathology})
                     \/ \E b \in Boundaries :
                         Shown({i \in DOMAIN rs :
                                   rs[i].latency.observed /\ rs[i].latency.top1 = b}))
    <2> DEFINE rs == summary.results
    <2>1. rs \in Seq(EntryType) /\ Distinct(rs) /\ summary.decision = Decision(rs)
        BY <1>2 DEF Decided, SummarySound
    <2>2. Decision(rs) \in {"GO", "NO_GO"}
        BY <1>2, <2>1 DEF Decided
    <2>3. Len(rs) = Total /\ EvidenceValid(rs) /\ (Decision(rs) = "GO" <=> Go(rs))
        BY <2>2 DEF Decision
    <2> HIDE DEF rs
    <2>4. {rs[i].index : i \in DOMAIN rs} = 0..(Total - 1)
        BY <2>1, <2>3, AllIndexes DEF Indexes
    <2>5. \A i \in DOMAIN rs : rs[i].valid
        BY <2>3 DEF EvidenceValid
    <2>6. (summary.decision = "GO") <=>
            (\/ Cardinality(WithPathology(rs)) >= Required
             \/ \E b \in Boundaries : Cardinality(WithTop1(rs, b)) >= Required)
        BY <2>1, <2>3, GoIsGate
    <2> QED
        BY <2>4, <2>5, <2>6 DEF rs, WithPathology, WithTop1
<1> QED
    BY <1>1, <1>2 DEF DecisionIsGate

\* For every number of repetitions, every threshold and every set of boundaries,
\* a decision that main leaves in summary.json rests on all the repetitions, each
\* run once and valid in both arms, and is GO exactly when one pathology shows
\* in the required number of them; invalid evidence ends the campaign.
THEOREM DecisionIsTheGate ==
    ASSUME DecisionConstants
    PROVE  CampaignSpec => []DecisionIsGate
<1>1. CampaignInit => GateInv
    BY GateInit
<1>2. GateInv /\ [CampaignNext]_campaignVars => GateInv'
    BY GateStep
<1>3. GateInv => DecisionIsGate
    BY GateInvImplies
<1> QED
    BY <1>1, <1>2, <1>3, PTL DEF CampaignSpec
=============================================================================
