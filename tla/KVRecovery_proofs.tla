------------------------- MODULE KVRecovery_proofs -------------------------
(***************************************************************************)
(* The adapters of KVRecovery account for every episode and every span     *)
(* that was started, for every set of requests, every bound and every      *)
(* plan of disturbances, and lose nothing when there is no disturbance.    *)
(* The last part is about the ledger in which they keep profile records:   *)
(* BoundedKVRecoveryProfileLedger accounts for every sequence number, for  *)
(* every capacity and every number of records.                             *)
(***************************************************************************)
EXTENDS KVRecovery, ProfileLedger, SequenceTheorems, FiniteSetTheorems, TLAPS

-----------------------------------------------------------------------------
(* Sequences, whatever their elements are                                  *)

\* A sequence, whatever its elements are.
IsSeq(s) == s \in Seq({s[i] : i \in DOMAIN s})

LEMMA SeqFacts ==
    ASSUME NEW s, IsSeq(s)
    PROVE  Len(s) \in Nat /\ DOMAIN s = 1..Len(s)
BY DEF IsSeq

LEMMA SeqOfSet ==
    ASSUME NEW S, NEW s \in Seq(S)
    PROVE  IsSeq(s)
<1> DEFINE T == {s[i] : i \in DOMAIN s}
<1>1. Len(s) \in Nat /\ DOMAIN s = 1..Len(s) /\ s = [i \in 1..Len(s) |-> s[i]]
    OBVIOUS
<1>2. \A i \in 1..Len(s) : s[i] \in T
    BY <1>1
<1>3. [i \in 1..Len(s) |-> s[i]] \in Seq(T)
    BY <1>1, <1>2, IsASeq
<1> QED
    BY <1>1, <1>3 DEF IsSeq

LEMMA FunctionIsSeq ==
    ASSUME NEW n \in Nat, NEW s, DOMAIN s = 1..n, s = [i \in 1..n |-> s[i]]
    PROVE  IsSeq(s) /\ Len(s) = n
<1> DEFINE T == {s[i] : i \in 1..n}
<1>1. [i \in 1..n |-> s[i]] \in Seq(T)
    BY IsASeq
<1>2. s \in Seq(T)
    BY <1>1
<1> QED
    BY <1>2, SeqOfSet

LEMMA ConcatFacts ==
    ASSUME NEW s, NEW t, IsSeq(s), IsSeq(t)
    PROVE  /\ IsSeq(s \o t)
           /\ Len(s \o t) = Len(s) + Len(t)
           /\ DOMAIN (s \o t) = 1..(Len(s) + Len(t))
           /\ \A i \in 1..Len(s) : (s \o t)[i] = s[i]
           /\ \A i \in 1..Len(t) : (s \o t)[Len(s) + i] = t[i]
<1> DEFINE S == {s[i] : i \in DOMAIN s} \cup {t[i] : i \in DOMAIN t}
<1>1. s \in Seq(S) /\ t \in Seq(S)
    BY DEF IsSeq
<1> HIDE DEF S
<1>2. s \o t \in Seq(S)
    BY <1>1
<1>3. IsSeq(s \o t)
    BY <1>2, SeqOfSet
<1> QED
    BY <1>1, <1>3

LEMMA ToSetConcat ==
    ASSUME NEW s, NEW t, IsSeq(s), IsSeq(t)
    PROVE  ToSet(s \o t) = ToSet(s) \cup ToSet(t)
<1>1. /\ Len(s) \in Nat /\ DOMAIN s = 1..Len(s) /\ Len(t) \in Nat /\ DOMAIN t = 1..Len(t)
    BY SeqFacts
<1> DEFINE u == s \o t
<1>2. /\ DOMAIN u = 1..(Len(s) + Len(t))
      /\ \A i \in 1..Len(s) : u[i] = s[i]
      /\ \A i \in 1..Len(t) : u[Len(s) + i] = t[i]
    BY ConcatFacts
<1> HIDE DEF u
<1>3. \A i \in DOMAIN u : i \in 1..Len(s) \/ (i - Len(s) \in 1..Len(t) /\ i = Len(s) + (i - Len(s)))
    BY <1>1, <1>2
<1>4. \A x \in ToSet(u) : x \in ToSet(s) \/ x \in ToSet(t)
    BY <1>1, <1>2, <1>3 DEF ToSet
<1>5. \A i \in 1..Len(s) : i \in DOMAIN u
    BY <1>1, <1>2
<1>6. \A i \in 1..Len(t) : Len(s) + i \in DOMAIN u
    BY <1>1, <1>2
<1>7. \A x \in ToSet(s) : x \in ToSet(u)
    BY <1>1, <1>2, <1>5 DEF ToSet
<1>8. \A x \in ToSet(t) : x \in ToSet(u)
    BY <1>1, <1>2, <1>6 DEF ToSet
<1> QED
    BY <1>4, <1>7, <1>8 DEF u

LEMMA FirstOfFacts ==
    ASSUME NEW s, IsSeq(s), NEW n \in Int
    PROVE  /\ IsSeq(FirstOf(s, n))
           /\ \A i \in DOMAIN s : i <= n => i \in DOMAIN FirstOf(s, n) /\ FirstOf(s, n)[i] = s[i]
           /\ ToSet(FirstOf(s, n)) \subseteq ToSet(s)
           /\ Len(FirstOf(s, n)) <= Len(s)
<1> DEFINE m == IF n < Len(s) THEN n ELSE Len(s)
           l == IF m < 0 THEN 0 ELSE m
           f == FirstOf(s, n)
<1>1. Len(s) \in Nat /\ DOMAIN s = 1..Len(s)
    BY SeqFacts
<1>2. m \in Int /\ l \in Nat /\ l <= Len(s) /\ (1..m = 1..l)
    BY <1>1
<1>3. \A i \in 1..m : s[i] \in ToSet(s)
    BY <1>1, <1>2 DEF ToSet
<1>4. f = SubSeq(s, 1, m)
    BY DEF FirstOf
<1>5. /\ f \in Seq(ToSet(s)) /\ Len(f) = (IF 1 <= m THEN m - 1 + 1 ELSE 0)
      /\ \A i \in 1..(m - 1 + 1) : f[i] = s[1 + i - 1]
    <2> HIDE DEF m, f
    <2> QED
        BY <1>2, <1>3, <1>4, SubSeqProperties
<1> HIDE DEF f
<1>6. Len(f) = l /\ m - 1 + 1 = m
    BY <1>1, <1>5
<1>7. DOMAIN f = 1..l /\ \A i \in 1..l : f[i] = s[i]
    <2> HIDE DEF m, l
    <2> QED
        BY <1>2, <1>5, <1>6
<1>8. IsSeq(f)
    BY <1>5, SeqOfSet
<1>9. \A i \in DOMAIN s : i <= n => i \in 1..l
    BY <1>1
<1>10. \A i \in 1..l : i \in DOMAIN s
    BY <1>1, <1>2
<1> QED
    BY <1>2, <1>6, <1>7, <1>8, <1>9, <1>10 DEF f, ToSet

-----------------------------------------------------------------------------

ShardsOK ==
    /\ DOMAIN profile = Processes /\ DOMAIN base = Processes
    /\ \A p \in Processes : IsSeq(profile[p]) /\ IsSeq(base[p])

\* A shard only grows.
Grows(s, t) == IsSeq(t) /\ Len(s) <= Len(t) /\ \A i \in DOMAIN s : t[i] = s[i]

ShardsGrow ==
    /\ DOMAIN profile' = Processes /\ DOMAIN base' = Processes
    /\ \A p \in Processes : Grows(profile[p], profile'[p]) /\ Grows(base[p], base'[p])

IsScript(script) ==
    /\ IsSeq(script.lead) /\ IsSeq(script.rows) /\ IsSeq(script.trail)

LEMMA LostTail ==
    /\ IsSeq(<<Lost>>) /\ IsSeq(<<>>)
    /\ Len(<<Lost>>) = 1 /\ Len(<<>>) = 0
    /\ ToSet(<<Lost>>) = {Lost} /\ ToSet(<<>>) = {}
<1>1. <<Lost>> \in Seq({Lost}) /\ <<>> \in Seq({Lost})
    OBVIOUS
<1>2. DOMAIN <<Lost>> = {1} /\ <<Lost>>[1] = Lost /\ DOMAIN <<>> = {}
    OBVIOUS
<1> QED
    BY <1>1, <1>2, SeqOfSet DEF ToSet

\* Two appended sequences.
LEMMA ConcatTwice ==
    ASSUME NEW s, NEW t, NEW u, IsSeq(s), IsSeq(t), IsSeq(u)
    PROVE  /\ Grows(s, s \o t \o u)
           /\ ToSet(s \o t \o u) = ToSet(s) \cup ToSet(t) \cup ToSet(u)
           /\ Len(s \o t \o u) = Len(s) + Len(t) + Len(u)
<1>1. IsSeq(s \o t) /\ Len(s \o t) = Len(s) + Len(t) /\ ToSet(s \o t) = ToSet(s) \cup ToSet(t)
    BY ConcatFacts, ToSetConcat
<1>2. /\ Len(s) \in Nat /\ DOMAIN s = 1..Len(s) /\ Len(t) \in Nat /\ Len(u) \in Nat
    BY SeqFacts
<1>3. \A i \in 1..Len(s) : (s \o t)[i] = s[i]
    BY ConcatFacts
<1> DEFINE v == s \o t
<1> HIDE DEF v
<1>4. /\ IsSeq(v \o u) /\ Len(v \o u) = Len(v) + Len(u)
      /\ \A i \in 1..Len(v) : (v \o u)[i] = v[i]
      /\ ToSet(v \o u) = ToSet(v) \cup ToSet(u)
    BY <1>1, ConcatFacts, ToSetConcat DEF v
<1>5. \A i \in 1..Len(s) : i \in 1..Len(v)
    BY <1>1, <1>2 DEF v
<1> QED
    BY <1>1, <1>2, <1>3, <1>4, <1>5 DEF Grows, v

\* What Perform writes.
LEMMA PerformFacts ==
    ASSUME ShardsOK, NEW p \in Processes, NEW script, IsScript(script),
           NEW k \in 0..Steps(script), Perform(p, script, k)
    PROVE  /\ ShardsGrow
           /\ \A q \in Processes \ {p} : profile'[q] = profile[q] /\ base'[q] = base[q]
           /\ k < Steps(script) => Lost \in ToSet(profile'[p])
           /\ ToSet(profile'[p]) \subseteq ToSet(profile[p]) \cup ToSet(script.rows) \cup {Lost}
           /\ ToSet(base'[p]) \subseteq
                ToSet(base[p]) \cup ToSet(script.lead) \cup ToSet(script.trail) \cup {Lost}
           /\ \A i \in DOMAIN script.rows : Len(script.lead) + i <= k =>
                /\ script.rows[i] \in ToSet(profile'[p])
                /\ Len(profile[p]) + i <= Len(profile'[p])
           /\ \A i \in DOMAIN script.lead : i <= k => script.lead[i] \in ToSet(base'[p])
<1> DEFINE failed == k < Steps(script)
           rows == FirstOf(script.rows, k - Len(script.lead))
           lead == FirstOf(script.lead, k)
           trail == FirstOf(script.trail, k - Len(script.lead) - Len(script.rows))
           tail == IF failed THEN <<Lost>> ELSE <<>>
<1>1. /\ Len(script.lead) \in Nat /\ Len(script.rows) \in Nat /\ Len(script.trail) \in Nat
      /\ k \in Int /\ k - Len(script.lead) \in Int
      /\ k - Len(script.lead) - Len(script.rows) \in Int
      /\ DOMAIN script.rows = 1..Len(script.rows)
    BY SeqFacts DEF IsScript, Steps
<1>2. /\ IsSeq(rows) /\ ToSet(rows) \subseteq ToSet(script.rows)
      /\ \A i \in DOMAIN script.rows : i <= k - Len(script.lead) =>
            i \in DOMAIN rows /\ rows[i] = script.rows[i]
    <2>1. IsSeq(script.rows)
        BY DEF IsScript
    <2> QED
        BY <1>1, <2>1, FirstOfFacts
<1>3. /\ IsSeq(lead) /\ ToSet(lead) \subseteq ToSet(script.lead)
      /\ \A i \in DOMAIN script.lead : i <= k => i \in DOMAIN lead /\ lead[i] = script.lead[i]
    <2>1. IsSeq(script.lead)
        BY DEF IsScript
    <2> QED
        BY <1>1, <2>1, FirstOfFacts
<1>4. IsSeq(trail) /\ ToSet(trail) \subseteq ToSet(script.trail)
    <2>1. IsSeq(script.trail)
        BY DEF IsScript
    <2> QED
        BY <1>1, <2>1, FirstOfFacts
<1>5. IsSeq(tail) /\ ToSet(tail) \subseteq {Lost} /\ (failed => Lost \in ToSet(tail))
    BY LostTail
<1>6. PICK more \in {<<Lost>>, <<>>} : base' = [base EXCEPT ![p] = base[p] \o (lead \o trail) \o more]
    BY DEF Perform
<1>7. profile' = [profile EXCEPT ![p] = profile[p] \o rows \o tail]
    BY DEF Perform
<1> HIDE DEF rows, lead, trail, tail, failed
<1>8. IsSeq(more) /\ ToSet(more) \subseteq {Lost}
    BY LostTail
<1>9. IsSeq(lead \o trail) /\ ToSet(lead \o trail) = ToSet(lead) \cup ToSet(trail)
    BY <1>3, <1>4, ConcatFacts, ToSetConcat
<1> DEFINE written == lead \o trail
<1> HIDE DEF written
<1>10. IsSeq(written) /\ ToSet(written) = ToSet(lead) \cup ToSet(trail)
    BY <1>9 DEF written
<1>11. /\ Grows(profile[p], profile'[p])
       /\ ToSet(profile'[p]) = ToSet(profile[p]) \cup ToSet(rows) \cup ToSet(tail)
       /\ Len(profile'[p]) = Len(profile[p]) + Len(rows) + Len(tail)
    <2>1. profile'[p] = profile[p] \o rows \o tail /\ IsSeq(profile[p])
        BY <1>7 DEF ShardsOK
    <2> QED
        BY <2>1, <1>2, <1>5, ConcatTwice
<1>12. /\ Grows(base[p], base'[p])
       /\ ToSet(base'[p]) = ToSet(base[p]) \cup ToSet(written) \cup ToSet(more)
    <2>1. base'[p] = base[p] \o written \o more /\ IsSeq(base[p])
        BY <1>6 DEF ShardsOK, written
    <2> QED
        BY <2>1, <1>8, <1>10, ConcatTwice
<1>13. \A q \in Processes \ {p} : profile'[q] = profile[q] /\ base'[q] = base[q]
    BY <1>6, <1>7 DEF ShardsOK
<1>14. ShardsGrow
    <2>1. DOMAIN profile' = Processes /\ DOMAIN base' = Processes
        BY <1>6, <1>7 DEF ShardsOK
    <2>2. \A q \in Processes \ {p} : Grows(profile[q], profile[q]) /\ Grows(base[q], base[q])
        BY SeqFacts DEF ShardsOK, Grows
    <2>3. \A q \in Processes : Grows(profile[q], profile'[q]) /\ Grows(base[q], base'[q])
        BY <2>2, <1>11, <1>12, <1>13
    <2> QED
        BY <2>1, <2>3 DEF ShardsGrow
<1>15. ASSUME NEW i \in DOMAIN script.rows, Len(script.lead) + i <= k
       PROVE  /\ script.rows[i] \in ToSet(profile'[p])
              /\ Len(profile[p]) + i <= Len(profile'[p])
    <2>1. i \in DOMAIN rows /\ rows[i] = script.rows[i] /\ i \in Nat
        BY <1>1, <1>2, <1>15
    <2>2. script.rows[i] \in ToSet(rows)
        BY <2>1 DEF ToSet
    <2>3. i <= Len(rows) /\ Len(rows) \in Nat /\ Len(tail) \in Nat /\ Len(profile[p]) \in Nat
        BY <2>1, <1>2, <1>5, SeqFacts DEF ShardsOK
    <2> QED
        BY <2>1, <2>2, <2>3, <1>11
<1>16. \A i \in DOMAIN script.lead : i <= k => script.lead[i] \in ToSet(base'[p])
    <2>1. \A i \in DOMAIN script.lead : i <= k => script.lead[i] \in ToSet(lead)
        BY <1>3 DEF ToSet
    <2> QED
        BY <2>1, <1>10, <1>12
<1> QED
    BY <1>2, <1>3, <1>4, <1>5, <1>8, <1>10, <1>11, <1>12, <1>13, <1>14, <1>15, <1>16 DEF failed

\* What a drop writes.
LEMMA DroppedFacts ==
    ASSUME ShardsOK, NEW p \in Processes, NEW n \in Nat, Dropped(p, n)
    PROVE  /\ ShardsGrow /\ base' = base
           /\ \A q \in Processes \ {p} : profile'[q] = profile[q]
           /\ n > 0 /\ closed[p] # "committed" => Lost \in ToSet(profile'[p])
           /\ ToSet(profile'[p]) \subseteq ToSet(profile[p]) \cup {Lost}
<1> DEFINE t == [i \in 1..n |-> Lost]
<1>1. IsSeq(t) /\ Len(t) = n /\ DOMAIN t = 1..n /\ \A i \in 1..n : t[i] = Lost
    BY FunctionIsSeq
<1>2. ToSet(t) \subseteq {Lost} /\ (n > 0 => Lost \in ToSet(t))
    <2>1. n > 0 => 1 \in DOMAIN t
        BY <1>1
    <2> HIDE DEF t
    <2> QED
        BY <1>1, <2>1 DEF ToSet
<1> HIDE DEF t
<1>3. \A q \in Processes : Grows(profile[q], profile[q]) /\ Grows(base[q], base[q])
    BY SeqFacts DEF ShardsOK, Grows
<1>4. CASE closed[p] = "committed"
    BY <1>3, <1>4 DEF Dropped, ShardsGrow, ShardsOK
<1>5. CASE closed[p] # "committed"
    <2>1. profile' = [profile EXCEPT ![p] = profile[p] \o t] /\ base' = base
        BY <1>5 DEF Dropped, t
    <2>2. IsSeq(profile[p]) /\ profile'[p] = profile[p] \o t
        BY <2>1 DEF ShardsOK
    <2>3. /\ IsSeq(profile'[p]) /\ Len(profile'[p]) = Len(profile[p]) + n
          /\ \A i \in 1..Len(profile[p]) : profile'[p][i] = profile[p][i]
          /\ ToSet(profile'[p]) = ToSet(profile[p]) \cup ToSet(t)
        <3>1. /\ IsSeq(profile[p] \o t) /\ Len(profile[p] \o t) = Len(profile[p]) + Len(t)
              /\ \A i \in 1..Len(profile[p]) : (profile[p] \o t)[i] = profile[p][i]
            BY <1>1, <2>2, ConcatFacts
        <3>2. ToSet(profile[p] \o t) = ToSet(profile[p]) \cup ToSet(t)
            BY <1>1, <2>2, ToSetConcat
        <3> QED
            BY <1>1, <2>2, <3>1, <3>2
    <2>4. Grows(profile[p], profile'[p])
        BY <2>2, <2>3, SeqFacts DEF Grows
    <2>5. \A q \in Processes \ {p} : profile'[q] = profile[q]
        BY <2>1 DEF ShardsOK
    <2>6. ShardsGrow
        <3>1. DOMAIN profile' = Processes /\ DOMAIN base' = Processes
            BY <2>1 DEF ShardsOK
        <3> QED
            BY <3>1, <2>1, <2>4, <2>5, <1>3 DEF ShardsGrow
    <2> QED
        BY <1>2, <2>1, <2>3, <2>5, <2>6
<1> QED
    BY <1>4, <1>5

-----------------------------------------------------------------------------
(* The inductive invariant *)

\* What an entry of _episodes is.
IsEpisode(e) ==
    e = [at |-> "preempted", preempt |-> e.preempt, context |-> e.context,
         receipt |-> e.receipt, admission |-> e.admission, wakeup |-> e.wakeup,
         predecessor |-> e.predecessor, occurrence |-> e.occurrence, admitted |-> e.admitted]

\* A receipt or sidecar of the episode k.
IsOf(x, k) == x.context.request = k[1] /\ x.context.epoch = k[2]

\* The scheduler adapter keeps an episode only of an epoch that has begun, and
\* what was accepted for it is its own.
EpisodeOK(k) ==
    episodes[k] # NoEpisode =>
        /\ IsEpisode(episodes[k])
        /\ k[2] <= epoch[k[1]]
        /\ episodes[k].receipt = None \/ IsOf(episodes[k].receipt, k)
        /\ episodes[k].admission => IsOf(episodes[k].receipt, k)

\* A "preempt" row is one of an epoch that has begun.
PreemptRowOK(row) ==
    /\ row.context.request \in Requests
    /\ row.context.epoch \in Epochs
    /\ row.context.epoch <= epoch[row.context.request]

EngineInv ==
    /\ DOMAIN episodes = Requests \X Epochs
    /\ \A k \in Requests \X Epochs : EpisodeOK(k)
    /\ \A row \in StageOf("engine", "preempt") : PreemptRowOK(row)
    /\ closed["engine"] \in {"open", "committed"}
    /\ closed["engine"] = "committed" => Episodes = {}
    /\ EpisodesAccounted

\* The number of a transfer that has been given out.
IsTransfer(t) == t[1] = "worker" /\ t[2] \in 1..attempts /\ t = <<t[1], t[2]>>

ContextOK(context) == context.op = "preserve" => context.epoch = 0

\* A started span carries the number of its transfer, which preserves nothing.
StartedOK(item) ==
    /\ IsTransfer(item.transfer) /\ item.start = item.transfer[2]
    /\ \A x \in inflight : x[1] = item.transfer => x[2].op # "preserve"

WorkerInv ==
    /\ IsFiniteSet(inflight)
    /\ \A x \in inflight : IsTransfer(x[1]) /\ ContextOK(x[2])
    /\ \A context \in envelope : ContextOK(context)
    /\ \A item \in StartedTransfers : StartedOK(item)
    /\ StartedSpansExplained

\* The rows that episodes and pending transfers refer to are there.
LinksOK ==
    /\ \A k \in Begun : episodes[k].preempt \in Present(profile)
    /\ \A entry \in pending : entry.row = None \/ entry.row \in Present(profile)

\* The rest of the type invariant.
PlainTypeOK ==
    /\ host \in [Requests -> {"new", "waiting", "running", "preempted", "restoring",
                              "admitting", "finished"}]
    /\ epoch \in [Requests -> 0..MaxEpoch]
    /\ known \subseteq Requests
    /\ closed \in [Processes -> {"open", "closed", "committed"}]
    /\ refusals \in 0..MaxRefusals /\ ahead \cup made \in Plans /\ ahead \cap made = {}
    /\ attempts \in 0..MaxTransfers

EvidenceInv == ShardsOK /\ LinksOK /\ EngineInv /\ WorkerInv

RecoveryInv == PlainTypeOK /\ EvidenceInv

-----------------------------------------------------------------------------
(* What growing shards keep *)

LEMMA LostInSet ==
    ASSUME NEW p
    PROVE  ~Lossless(p) <=> Lost \in ToSet(profile[p])
BY DEF Lossless, ToSet

LEMMA GrowFacts ==
    ASSUME ShardsOK, ShardsGrow
    PROVE  /\ ShardsOK'
           /\ \A p \in Processes : /\ ToSet(profile[p]) \subseteq ToSet(profile'[p])
                                   /\ ToSet(base[p]) \subseteq ToSet(base'[p])
           /\ Present(profile) \subseteq Present(profile)'
           /\ \A p \in Processes : ~Lossless(p) => ~Lossless(p)'
<1>1. ShardsOK'
    BY DEF ShardsGrow, ShardsOK, Grows
<1>2. ASSUME NEW s, NEW t, IsSeq(s), Grows(s, t)
      PROVE  DOMAIN s \subseteq DOMAIN t /\ ToSet(s) \subseteq ToSet(t)
    <2>1. Len(s) \in Nat /\ DOMAIN s = 1..Len(s) /\ Len(t) \in Nat /\ DOMAIN t = 1..Len(t)
        BY <1>2, SeqFacts DEF Grows
    <2>2. DOMAIN s \subseteq DOMAIN t
        BY <2>1, <1>2 DEF Grows
    <2> QED
        BY <2>2, <1>2 DEF Grows, ToSet
<1>3. \A p \in Processes : /\ DOMAIN profile[p] \subseteq DOMAIN profile'[p]
                            /\ ToSet(profile[p]) \subseteq ToSet(profile'[p])
                            /\ ToSet(base[p]) \subseteq ToSet(base'[p])
    BY <1>2 DEF ShardsOK, ShardsGrow
<1>4. Present(profile) \subseteq Present(profile)'
    BY <1>3 DEF Present
<1>5. \A p \in Processes : ~Lossless(p) => ~Lossless(p)'
    BY <1>3 DEF Lossless, ToSet
<1> QED
    BY <1>1, <1>3, <1>4, <1>5

\* A shard that stays is a shard that grows.
LEMMA SameGrows ==
    ASSUME ShardsOK, UNCHANGED <<base, profile>>
    PROVE  ShardsGrow
BY SeqFacts DEF ShardsOK, ShardsGrow, Grows

-----------------------------------------------------------------------------
(* Steps of one side, as the other side's invariant sees them *)

LEMMA WorkerUntouched ==
    ASSUME ShardsOK, ShardsGrow, WorkerInv,
           profile'["worker"] = profile["worker"], base'["worker"] = base["worker"],
           inflight' = inflight, attempts' = attempts,
           closed'["worker"] = closed["worker"],
           \A context \in envelope' : ContextOK(context)
    PROVE  WorkerInv'
<1>1. StartedTransfers' = StartedTransfers
    BY DEF StartedTransfers
<1>2. \A t : IsTransfer(t)' <=> IsTransfer(t)
    BY DEF IsTransfer
<1>3. \A item \in StartedTransfers' : StartedOK(item)'
    BY <1>1, <1>2 DEF WorkerInv, StartedOK
<1>4. StartedSpansExplained'
    BY <1>1 DEF WorkerInv, StartedSpansExplained, Ended, Running, Cancelled, Lossless
<1> QED
    BY <1>2, <1>3, <1>4 DEF WorkerInv

\* A preempt row is accounted for.
RowAccounted(row) ==
    \/ <<row.context.request, row.context.epoch>> \in Begun
    \/ \E compute \in computes : compute.context.request = row.context.request
                                   /\ compute.context.epoch = row.context.epoch
    \/ \E first \in StageOf("worker", "first_prefill_or_decode") :
            first.context.request = row.context.request
                /\ first.context.epoch = row.context.epoch
    \/ \E p \in Processes : ~Lossless(p)
    \/ closed["worker"] = "committed"

LEMMA RowAccountedDef == EpisodesAccounted <=> \A row \in StageOf("engine", "preempt") : RowAccounted(row)
BY DEF EpisodesAccounted, RowAccounted

Lossy == \E p \in Processes : ~Lossless(p)

\* How an action may change the entry of an episode.
KeyStep(k) ==
    \/ episodes'[k] = episodes[k]
    \/ /\ episodes'[k] = NoEpisode
       /\ k \in Begun => Lossy' \/ \E compute \in computes' : IsOf(compute, k)
    \/ /\ IsEpisode(episodes'[k])
       /\ k[2] <= epoch'[k[1]]
       /\ episodes'[k].receipt = None \/ IsOf(episodes'[k].receipt, k)
       /\ episodes'[k].admission => IsOf(episodes'[k].receipt, k)
       /\ episodes'[k].preempt = None \/ episodes'[k].preempt \in Present(profile)'
       /\ k \in Begun => episodes'[k].preempt # None

LEMMA EngineKeeps ==
    ASSUME ShardsOK, ShardsGrow, EngineInv, LinksOK, PlainTypeOK, epoch' \in [Requests -> 0..MaxEpoch],
           \A r \in Requests : epoch[r] <= epoch'[r],
           DOMAIN episodes' = Requests \X Epochs,
           \A k \in Requests \X Epochs : KeyStep(k),
           \A row \in StageOf("engine", "preempt")' :
                row \in StageOf("engine", "preempt") \/ (PreemptRowOK(row)' /\ RowAccounted(row)'),
           \A compute \in computes :
                \/ compute \in computes' \/ Lossy' \/ closed'["worker"] = "committed"
                \/ \E first \in StageOf("worker", "first_prefill_or_decode")' :
                        first.context = compute.context,
           closed["worker"] = "committed" => closed'["worker"] = "committed",
           closed'["engine"] \in {"open", "committed"},
           closed'["engine"] = "committed" => Episodes' = {}
    PROVE  EngineInv' /\ \A k \in Begun' : episodes'[k].preempt \in Present(profile)'
<1>1. MaxEpoch \in Nat /\ epoch \in [Requests -> 0..MaxEpoch]
    BY RecoveryAssumption DEF PlainTypeOK
<1>2. ASSUME NEW k \in Requests \X Epochs PROVE EpisodeOK(k)'
    <2>1. KeyStep(k) /\ EpisodeOK(k)
        BY DEF EngineInv
    <2>2. k[1] \in Requests /\ k[2] \in Int
        BY DEF Epochs
    <2>3. epoch[k[1]] \in Int /\ epoch'[k[1]] \in Int /\ epoch[k[1]] <= epoch'[k[1]]
        BY <2>2, <1>1
    <2>4. CASE episodes'[k] = episodes[k]
        BY <2>1, <2>2, <2>3, <2>4 DEF EpisodeOK, IsEpisode, IsOf
    <2>5. CASE episodes'[k] = NoEpisode
        BY <2>5 DEF EpisodeOK, NoEpisode
    <2>6. CASE episodes'[k] # episodes[k] /\ episodes'[k] # NoEpisode
        BY <2>1, <2>6 DEF KeyStep, EpisodeOK, IsEpisode, IsOf
    <2> QED
        BY <2>4, <2>5, <2>6
<1>3. ASSUME NEW k \in Begun'
      PROVE  episodes'[k].preempt \in Present(profile)'
    <2>1. k \in Requests \X Epochs /\ episodes'[k] # NoEpisode /\ episodes'[k].preempt # None
        BY <1>3 DEF Begun, Episodes, NoEpisode, None
    <2>2. KeyStep(k)
        BY <2>1
    <2>3. CASE episodes'[k] = episodes[k]
        <3>1. k \in Begun
            BY <2>1, <2>3 DEF Begun, Episodes
        <3> QED
            BY <3>1, <2>3, GrowFacts DEF LinksOK
    <2> QED
        BY <2>1, <2>2, <2>3 DEF KeyStep
<1>4. ASSUME NEW row \in StageOf("engine", "preempt")
      PROVE  PreemptRowOK(row)'
    <2>1. PreemptRowOK(row)
        BY DEF EngineInv
    <2> QED
        BY <2>1, <1>1 DEF PreemptRowOK, Epochs
<1>5. Lossy => Lossy'
    BY GrowFacts DEF Lossy
<1>6. ASSUME NEW k \in Begun
      PROVE  k \in Begun' \/ Lossy' \/ \E compute \in computes' : IsOf(compute, k)
    <2>1. k \in Requests \X Epochs /\ episodes[k] # NoEpisode /\ episodes[k].preempt # None
        BY DEF Begun, Episodes
    <2>2. KeyStep(k)
        BY <2>1
    <2>3. CASE episodes'[k] = episodes[k]
        BY <2>1, <2>3 DEF Begun, Episodes
    <2>4. CASE IsEpisode(episodes'[k]) /\ episodes'[k].preempt # None
        <3>1. episodes'[k].at = "preempted"
            BY <2>4 DEF IsEpisode
        <3>2. episodes'[k] # NoEpisode
            BY <3>1 DEF NoEpisode
        <3> QED
            BY <2>1, <2>4, <3>2 DEF Begun, Episodes
    <2> QED
        BY <2>2, <2>3, <2>4 DEF KeyStep
<1>7. ASSUME NEW row \in StageOf("engine", "preempt")
      PROVE  RowAccounted(row)'
    <2> DEFINE key == <<row.context.request, row.context.epoch>>
    <2>1. RowAccounted(row)
        BY RowAccountedDef DEF EngineInv
    <2>2. CASE key \in Begun
        <3>1. CASE key \in Begun'
            BY <3>1 DEF RowAccounted
        <3>2. CASE Lossy'
            BY <3>2 DEF RowAccounted, Lossy
        <3>3. ASSUME NEW compute \in computes', IsOf(compute, key)
              PROVE  RowAccounted(row)'
            BY <3>3 DEF RowAccounted, IsOf
        <3> QED
            BY <2>2, <1>6, <3>1, <3>2, <3>3
    <2>3. ASSUME NEW compute \in computes, compute.context.request = row.context.request,
                 compute.context.epoch = row.context.epoch
          PROVE  RowAccounted(row)'
        BY <2>3 DEF RowAccounted, Lossy
    <2>4. ASSUME NEW first \in StageOf("worker", "first_prefill_or_decode"),
                 first.context.request = row.context.request,
                 first.context.epoch = row.context.epoch
          PROVE  RowAccounted(row)'
        <3>1. first \in StageOf("worker", "first_prefill_or_decode")'
            BY GrowFacts DEF StageOf, Processes
        <3> QED
            BY <2>4, <3>1 DEF RowAccounted
    <2>5. CASE \E p \in Processes : ~Lossless(p)
        BY <2>5, <1>5 DEF Lossy, RowAccounted
    <2>6. CASE closed["worker"] = "committed"
        BY <2>6 DEF RowAccounted
    <2> QED
        BY <2>1, <2>2, <2>3, <2>4, <2>5, <2>6 DEF RowAccounted
<1>8. (\A row \in StageOf("engine", "preempt") : RowAccounted(row))'
    BY <1>7
<1>9. EpisodesAccounted'
    BY <1>8, RowAccountedDef, PTL
<1> QED
    BY <1>2, <1>3, <1>4, <1>9 DEF EngineInv

\* A step of the scheduler adapter.
LEMMA EngineStep ==
    ASSUME RecoveryInv, ShardsGrow,
           profile'["worker"] = profile["worker"], base'["worker"] = base["worker"],
           inflight' = inflight, attempts' = attempts, pending' = pending,
           closed'["worker"] = closed["worker"],
           closed'["engine"] \in {"open", "committed"},
           closed'["engine"] = "committed" => Episodes' = {},
           \A context \in envelope' : ContextOK(context),
           epoch' \in [Requests -> 0..MaxEpoch], \A r \in Requests : epoch[r] <= epoch'[r],
           DOMAIN episodes' = Requests \X Epochs,
           \A k \in Requests \X Epochs : KeyStep(k),
           \A row \in StageOf("engine", "preempt")' :
                row \in StageOf("engine", "preempt") \/ (PreemptRowOK(row)' /\ RowAccounted(row)'),
           computes \subseteq computes'
    PROVE  EvidenceInv'
<1> USE DEF RecoveryInv, EvidenceInv
<1>1. EngineInv' /\ \A k \in Begun' : episodes'[k].preempt \in Present(profile)'
    BY EngineKeeps
<1>2. WorkerInv'
    BY WorkerUntouched
<1>3. ShardsOK' /\ Present(profile) \subseteq Present(profile)'
    BY GrowFacts
<1>4. \A entry \in pending' : entry.row = None \/ entry.row \in Present(profile)'
    BY <1>3 DEF LinksOK
<1> QED
    BY <1>1, <1>2, <1>3, <1>4 DEF LinksOK, None

\* No row that is written begins an episode.
NoPreemptRow ==
    \A row \in ToSet(profile'["engine"]) :
        \/ row \in ToSet(profile["engine"])
        \/ row.type # "recovery_event" \/ row.stage # "preempt"

LEMMA NoNewPreempt ==
    ASSUME NoPreemptRow
    PROVE  \A row \in StageOf("engine", "preempt")' : row \in StageOf("engine", "preempt")
BY DEF NoPreemptRow, StageOf

\* A step of the scheduler adapter that changes no episode.
LEMMA EngineQuiet ==
    ASSUME RecoveryInv, ShardsGrow, NoPreemptRow,
           profile'["worker"] = profile["worker"], base'["worker"] = base["worker"],
           UNCHANGED <<inflight, attempts, pending, closed, episodes, epoch, computes>>,
           \A context \in envelope' : ContextOK(context)
    PROVE  EvidenceInv'
<1> USE DEF RecoveryInv, EvidenceInv
<1>1. /\ closed'["worker"] = closed["worker"] /\ closed'["engine"] = closed["engine"]
      /\ Episodes' = Episodes
    BY DEF Episodes
<1>2. epoch' \in [Requests -> 0..MaxEpoch] /\ \A r \in Requests : epoch[r] <= epoch'[r]
    BY RecoveryAssumption DEF PlainTypeOK
<1>3. DOMAIN episodes' = Requests \X Epochs /\ \A k \in Requests \X Epochs : KeyStep(k)
    BY DEF EngineInv, KeyStep
<1> QED
    BY <1>1, <1>2, <1>3, NoNewPreempt, EngineStep DEF EngineInv

\* Drops of the scheduler adapter.
LEMMA EngineDrop ==
    ASSUME ShardsOK, NEW n \in Nat, Dropped("engine", n)
    PROVE  /\ ShardsGrow /\ NoPreemptRow
           /\ profile'["worker"] = profile["worker"] /\ base'["worker"] = base["worker"]
           /\ n > 0 /\ closed["engine"] # "committed" => Lossy'
<1>1. "engine" \in Processes /\ "worker" \in Processes \ {"engine"}
    BY DEF Processes
<1>2. /\ ShardsGrow /\ base' = base
      /\ \A q \in Processes \ {"engine"} : profile'[q] = profile[q]
      /\ n > 0 /\ closed["engine"] # "committed" => Lost \in ToSet(profile'["engine"])
      /\ ToSet(profile'["engine"]) \subseteq ToSet(profile["engine"]) \cup {Lost}
    BY <1>1, DroppedFacts
<1>3. NoPreemptRow
    BY <1>2 DEF NoPreemptRow, Lost
<1>4. Lost \in ToSet(profile'["engine"]) => Lossy'
    BY <1>1 DEF Lossy, Lossless, ToSet
<1> QED
    BY <1>1, <1>2, <1>3, <1>4

-----------------------------------------------------------------------------
(* Scripts *)

LEMMA Tuples ==
    /\ IsSeq(<<>>) /\ Len(<<>>) = 0 /\ ToSet(<<>>) = {} /\ DOMAIN <<>> = {}
    /\ \A a : /\ IsSeq(<<a>>) /\ Len(<<a>>) = 1 /\ ToSet(<<a>>) = {a}
              /\ DOMAIN <<a>> = {1} /\ <<a>>[1] = a
    /\ \A a, b : /\ IsSeq(<<a, b>>) /\ Len(<<a, b>>) = 2 /\ ToSet(<<a, b>>) = {a, b}
                 /\ DOMAIN <<a, b>> = {1, 2} /\ <<a, b>>[1] = a /\ <<a, b>>[2] = b
<1>1. IsSeq(<<>>) /\ Len(<<>>) = 0 /\ ToSet(<<>>) = {} /\ DOMAIN <<>> = {}
    BY LostTail
<1>2. ASSUME NEW a
      PROVE  /\ IsSeq(<<a>>) /\ Len(<<a>>) = 1 /\ ToSet(<<a>>) = {a}
             /\ DOMAIN <<a>> = {1} /\ <<a>>[1] = a
    <2>1. <<a>> \in Seq({a}) /\ Len(<<a>>) = 1 /\ DOMAIN <<a>> = {1} /\ <<a>>[1] = a
        OBVIOUS
    <2> QED
        BY <2>1, SeqOfSet DEF ToSet
<1>3. ASSUME NEW a, NEW b
      PROVE  /\ IsSeq(<<a, b>>) /\ Len(<<a, b>>) = 2 /\ ToSet(<<a, b>>) = {a, b}
             /\ DOMAIN <<a, b>> = {1, 2} /\ <<a, b>>[1] = a /\ <<a, b>>[2] = b
    <2>1. /\ <<a, b>> \in Seq({a, b}) /\ Len(<<a, b>>) = 2
          /\ DOMAIN <<a, b>> = {1, 2} /\ <<a, b>>[1] = a /\ <<a, b>>[2] = b
        OBVIOUS
    <2> QED
        BY <2>1, SeqOfSet DEF ToSet
<1> QED
    BY <1>1, <1>2, <1>3

LEMMA ScriptFacts ==
    ASSUME NEW l, NEW m, NEW n, IsSeq(l), IsSeq(m), IsSeq(n)
    PROVE  /\ IsScript(Script(l, m, n))
           /\ Script(l, m, n).lead = l /\ Script(l, m, n).rows = m /\ Script(l, m, n).trail = n
           /\ Steps(Script(l, m, n)) = Len(l) + Len(m) + Len(n)
BY DEF Script, IsScript, Steps

\* A script of the scheduler adapter whose rows begin no episode.
LEMMA EngineScript ==
    ASSUME ShardsOK, NEW l, NEW m, NEW n, IsSeq(l), IsSeq(m), IsSeq(n),
           NEW k \in 0..(Len(l) + Len(m) + Len(n)), Perform("engine", Script(l, m, n), k),
           \A row \in ToSet(m) : row.type # "recovery_event" \/ row.stage # "preempt"
    PROVE  /\ ShardsGrow /\ NoPreemptRow
           /\ profile'["worker"] = profile["worker"] /\ base'["worker"] = base["worker"]
           /\ k < Len(l) + Len(m) + Len(n) => Lossy'
<1> DEFINE script == Script(l, m, n)
<1>1. "engine" \in Processes /\ "worker" \in Processes \ {"engine"}
    BY DEF Processes
<1>2. /\ IsScript(script) /\ Steps(script) = Len(l) + Len(m) + Len(n) /\ script.rows = m
    BY ScriptFacts
<1> HIDE DEF script
<1>3. /\ ShardsGrow
      /\ \A q \in Processes \ {"engine"} : profile'[q] = profile[q] /\ base'[q] = base[q]
      /\ k < Steps(script) => Lost \in ToSet(profile'["engine"])
      /\ ToSet(profile'["engine"]) \subseteq ToSet(profile["engine"]) \cup ToSet(script.rows) \cup {Lost}
    <2>1. Perform("engine", script, k) /\ k \in 0..Steps(script)
        BY <1>2 DEF script
    <2> QED
        BY <1>1, <1>2, <2>1, PerformFacts
<1>4. NoPreemptRow
    BY <1>2, <1>3 DEF NoPreemptRow, Lost
<1>5. Lost \in ToSet(profile'["engine"]) => Lossy'
    BY <1>1 DEF Lossy, Lossless, ToSet
<1> QED
    BY <1>1, <1>2, <1>3, <1>4, <1>5

\* The script of one lifecycle event.
LEMMA EventScript ==
    ASSUME ShardsOK, NEW event, NEW k \in {0, 1},
           Perform("engine", Script(<<event>>, <<>>, <<>>), k)
    PROVE  /\ ShardsGrow /\ NoPreemptRow
           /\ profile'["worker"] = profile["worker"] /\ base'["worker"] = base["worker"]
<1> DEFINE l == <<event>>
           n == <<>>
<1>1. IsSeq(l) /\ Len(l) = 1 /\ IsSeq(n) /\ Len(n) = 0 /\ ToSet(n) = {}
    BY Tuples, Zenon
<1>2. Perform("engine", Script(l, n, n), k)
    BY Zenon
<1> HIDE DEF l, n
<1>3. k \in 0..(Len(l) + Len(n) + Len(n))
    BY <1>1
<1>4. \A row \in ToSet(n) : row.type # "recovery_event" \/ row.stage # "preempt"
    BY <1>1, Zenon
<1> QED
    BY <1>1, <1>2, <1>3, <1>4, EngineScript, Zenon

-----------------------------------------------------------------------------
(* The actions of the scheduler adapter *)

LEMMA SameSinks ==
    ASSUME ShardsOK, UNCHANGED sinkVars
    PROVE  /\ ShardsGrow /\ NoPreemptRow
           /\ profile'["worker"] = profile["worker"] /\ base'["worker"] = base["worker"]
BY SameGrows DEF sinkVars, NoPreemptRow

LEMMA RequestStartedKeeps ==
    ASSUME RecoveryInv, NEW r \in Requests, RequestStarted(r)
    PROVE  EvidenceInv'
<1> USE DEF RecoveryInv, EvidenceInv
<1>1. /\ UNCHANGED <<inflight, attempts, pending, closed, episodes, epoch, computes, envelope>>
      /\ \A context \in envelope : ContextOK(context)
    BY DEF RequestStarted, workerVars, wireVars, WorkerInv
<1>2. CASE UNCHANGED sinkVars
    BY <1>1, <1>2, SameSinks, EngineQuiet
<1>3. ASSUME NEW k \in {0, 1},
             Perform("engine", Script(<<EngineEvent("queued", r, 0)>>, <<>>, <<>>), k)
      PROVE  EvidenceInv'
    <2>1. /\ ShardsGrow /\ NoPreemptRow
          /\ profile'["worker"] = profile["worker"] /\ base'["worker"] = base["worker"]
        BY <1>3, EventScript, Zenon
    <2> QED
        BY <1>1, <2>1, EngineQuiet
<1> QED
    BY <1>2, <1>3 DEF RequestStarted

LEMMA RequestScheduledKeeps ==
    ASSUME RecoveryInv, NEW r \in Requests, RequestScheduled(r)
    PROVE  EvidenceInv'
<1> USE DEF RecoveryInv, EvidenceInv
<1>1. /\ UNCHANGED <<inflight, attempts, pending, closed, episodes, epoch, computes, envelope>>
      /\ \A context \in envelope : ContextOK(context)
    BY DEF RequestScheduled, workerVars, wireVars, engineVars, WorkerInv
<1>2. CASE UNCHANGED sinkVars
    BY <1>1, <1>2, SameSinks, EngineQuiet
<1>3. CASE Dropped("engine", 1)
    BY <1>1, <1>3, EngineDrop, EngineQuiet
<1> QED
    BY <1>2, <1>3 DEF RequestScheduled, Drop, Failing

\* A step of the open scheduler adapter that writes no "preempt" row.
LEMMA EpisodesChange ==
    ASSUME RecoveryInv, EngineOpen, ShardsGrow, NoPreemptRow,
           profile'["worker"] = profile["worker"], base'["worker"] = base["worker"],
           UNCHANGED <<inflight, attempts, pending, closed, epoch>>,
           \A context \in envelope' : ContextOK(context),
           DOMAIN episodes' = Requests \X Epochs,
           \A k \in Requests \X Epochs : KeyStep(k),
           computes \subseteq computes'
    PROVE  EvidenceInv'
<1> USE DEF RecoveryInv, EvidenceInv
<1>1. /\ closed'["worker"] = closed["worker"] /\ closed'["engine"] = "open"
    BY DEF EngineOpen
<1>2. epoch' \in [Requests -> 0..MaxEpoch] /\ \A r \in Requests : epoch[r] <= epoch'[r]
    BY RecoveryAssumption DEF PlainTypeOK
<1> QED
    BY <1>1, <1>2, NoNewPreempt, EngineStep

LEMMA FreshIsEpisode ==
    ASSUME NEW r, NEW e
    PROVE  /\ IsEpisode(FreshEpisode(r, e)) /\ FreshEpisode(r, e).preempt = None
           /\ FreshEpisode(r, e).receipt = None /\ ~FreshEpisode(r, e).admission
BY DEF FreshEpisode, IsEpisode

\* A new episode, of an epoch without a begun one.
LEMMA SupersededSteps ==
    ASSUME RecoveryInv, NEW r \in Requests, NEW e \in Epochs, e = epoch'[r],
           <<r, e>> \notin Begun, episodes' = Superseded(r, e)
    PROVE  /\ DOMAIN episodes' = Requests \X Epochs
           /\ \A k \in Requests \X Epochs : KeyStep(k)
<1> USE DEF RecoveryInv, EvidenceInv
<1>1. DOMAIN episodes' = Requests \X Epochs
    BY DEF Superseded, EngineInv
<1>2. ASSUME NEW k \in Requests \X Epochs PROVE KeyStep(k)
    <2>1. episodes'[k] = IF k = <<r, e>> THEN FreshEpisode(r, e)
                         ELSE IF k \in EpisodesOf(r) \ Begun THEN NoEpisode ELSE episodes[k]
        BY DEF Superseded, EngineInv
    <2>2. CASE k = <<r, e>>
        <3>1. k[1] = r /\ k[2] = e /\ k \notin Begun /\ e \in Int /\ e <= epoch'[r]
            BY <2>2 DEF Epochs
        <3>2. episodes'[k] = FreshEpisode(r, e)
            BY <2>1, <2>2
        <3> QED
            <4>1. /\ IsEpisode(episodes'[k]) /\ episodes'[k].preempt = None
                  /\ episodes'[k].receipt = None /\ ~episodes'[k].admission
                BY <3>2, FreshIsEpisode
            <4> QED
                BY <3>1, <4>1 DEF KeyStep
    <2>3. CASE k # <<r, e>>
        BY <2>1, <2>3 DEF KeyStep
    <2> QED
        BY <2>2, <2>3
<1> QED
    BY <1>1, <1>2

LEMMA RequestPreemptedKeeps ==
    ASSUME RecoveryInv, NEW r \in Requests, RequestPreempted(r)
    PROVE  EvidenceInv'
<1> USE DEF RecoveryInv, EvidenceInv
<1> DEFINE e == epoch[r] + 1
<1>1. /\ UNCHANGED <<inflight, attempts, pending, closed, computes, envelope>>
      /\ \A context \in envelope : ContextOK(context)
      /\ epoch[r] < MaxEpoch /\ epoch' = [epoch EXCEPT ![r] = e]
    BY DEF RequestPreempted, workerVars, wireVars, WorkerInv
<1>2. /\ epoch \in [Requests -> 0..MaxEpoch] /\ MaxEpoch \in Nat
    BY RecoveryAssumption DEF PlainTypeOK
<1>3. /\ epoch' \in [Requests -> 0..MaxEpoch] /\ \A q \in Requests : epoch[q] <= epoch'[q]
      /\ epoch'[r] = e /\ e \in Epochs /\ e > epoch[r]
    BY <1>1, <1>2 DEF Epochs
<1>4. closed'["worker"] = closed["worker"] /\ closed'["engine"] = closed["engine"]
    BY <1>1
<1>5. CASE UNCHANGED episodes /\ (UNCHANGED sinkVars \/ Dropped("engine", 1)
                \/ \E k \in {0, 1} : Perform("engine",
                        Script(<<EngineEvent("preempted", r, e - 1)>>, <<>>, <<>>), k))
    <2>1. /\ ShardsGrow /\ NoPreemptRow
          /\ profile'["worker"] = profile["worker"] /\ base'["worker"] = base["worker"]
        <3>1. CASE UNCHANGED sinkVars
            BY <3>1, SameSinks
        <3>2. CASE Dropped("engine", 1)
            BY <3>2, EngineDrop
        <3>3. ASSUME NEW k \in {0, 1}, Perform("engine",
                        Script(<<EngineEvent("preempted", r, e - 1)>>, <<>>, <<>>), k)
              PROVE  /\ ShardsGrow /\ NoPreemptRow
                     /\ profile'["worker"] = profile["worker"] /\ base'["worker"] = base["worker"]
            BY <3>3, EventScript, Zenon
        <3> QED
            BY <1>5, <3>1, <3>2, <3>3
    <2>2. DOMAIN episodes' = Requests \X Epochs /\ \A k \in Requests \X Epochs : KeyStep(k)
        BY <1>5 DEF EngineInv, KeyStep
    <2>3. closed'["engine"] = "committed" => Episodes' = {}
        BY <1>4, <1>5 DEF EngineInv, Episodes
    <2> QED
        BY <2>1, <2>2, <2>3, <1>1, <1>3, <1>4, NoNewPreempt, EngineStep DEF EngineInv
<1>6. CASE /\ EngineOpen /\ episodes' = Superseded(r, e)
           /\ Perform("engine", Script(<<EngineEvent("preempted", r, e - 1)>>, <<>>, <<>>), 1)
    <2>1. /\ ShardsGrow /\ NoPreemptRow
          /\ profile'["worker"] = profile["worker"] /\ base'["worker"] = base["worker"]
        <3>1. 1 \in {0, 1}
            OBVIOUS
        <3> QED
            BY <1>6, <3>1, EventScript, Zenon
    <2>2. <<r, e>> \notin Begun
        <3>1. <<r, e>> \in Requests \X Epochs
            BY <1>3
        <3>2. EpisodeOK(<<r, e>>)
            BY <3>1 DEF EngineInv
        <3>3. ~(e <= epoch[r])
            BY <1>2, <1>3
        <3> QED
            BY <3>1, <3>2, <3>3 DEF EpisodeOK, Begun, Episodes
    <2>3. DOMAIN episodes' = Requests \X Epochs /\ \A k \in Requests \X Epochs : KeyStep(k)
        BY <1>3, <1>6, <2>2, SupersededSteps
    <2>4. closed'["engine"] = "open"
        BY <1>4, <1>6 DEF EngineOpen
    <2> QED
        BY <2>1, <2>3, <2>4, <1>1, <1>3, <1>4, NoNewPreempt, EngineStep
<1> QED
    BY <1>5, <1>6 DEF RequestPreempted, Drop

LEMMA PreemptedAgainKeeps ==
    ASSUME RecoveryInv, NEW r \in Requests, PreemptedAgain(r)
    PROVE  EvidenceInv'
<1> USE DEF RecoveryInv, EvidenceInv
<1> DEFINE k == <<r, epoch[r]>>
<1>1. /\ UNCHANGED <<inflight, attempts, pending, closed, computes, envelope, epoch>>
      /\ EngineOpen /\ \A context \in envelope : ContextOK(context)
    BY DEF PreemptedAgain, workerVars, wireVars, hostVars, WorkerInv
<1>2. DOMAIN episodes = Requests \X Epochs
    BY DEF EngineInv
<1>3. CASE k \in Episodes /\ Dropped("engine", 1) /\ episodes' = [episodes EXCEPT ![k] = NoEpisode]
    <2>1. /\ ShardsGrow /\ NoPreemptRow
          /\ profile'["worker"] = profile["worker"] /\ base'["worker"] = base["worker"]
        BY <1>3, EngineDrop
    <2>2. Lossy'
        <3>1. closed["engine"] # "committed"
            BY <1>1 DEF EngineOpen
        <3> QED
            BY <1>3, <3>1, EngineDrop
    <2>3. \A x \in Requests \X Epochs : KeyStep(x)
        BY <1>2, <1>3, <2>2 DEF KeyStep
    <2> QED
        BY <2>1, <2>3, <1>1, <1>2, <1>3, EpisodesChange
<1>4. CASE k \notin Episodes /\ episodes' = Superseded(r, epoch[r]) /\ UNCHANGED sinkVars
    <2>1. /\ ShardsGrow /\ NoPreemptRow
          /\ profile'["worker"] = profile["worker"] /\ base'["worker"] = base["worker"]
        BY <1>4, SameSinks
    <2>2. epoch[r] \in 0..MaxEpoch /\ MaxEpoch \in Nat
        BY RecoveryAssumption DEF PlainTypeOK
    <2>3. CASE epoch[r] \in Epochs
        <3>1. DOMAIN episodes' = Requests \X Epochs /\ \A x \in Requests \X Epochs : KeyStep(x)
            BY <2>3, <1>1, <1>4, SupersededSteps DEF Begun
        <3> QED
            BY <2>1, <3>1, <1>1, EpisodesChange
    <2>4. CASE epoch[r] \notin Epochs
        <3>1. /\ DOMAIN episodes' = Requests \X Epochs
              /\ \A x \in Requests \X Epochs :
                    episodes'[x] = episodes[x] \/ (episodes'[x] = NoEpisode /\ x \notin Begun)
            BY <1>2, <1>4, <2>4 DEF Superseded
        <3> QED
            BY <2>1, <3>1, <1>1, EpisodesChange DEF KeyStep
    <2> QED
        BY <2>3, <2>4
<1> QED
    BY <1>3, <1>4 DEF PreemptedAgain, Drop

LEMMA WithReceipt ==
    ASSUME NEW e, IsEpisode(e), NEW v, NEW f, f = [e EXCEPT !.receipt = v]
    PROVE  IsEpisode(f) /\ f.receipt = v /\ f.preempt = e.preempt
BY DEF IsEpisode

LEMMA ConsumeReceiptKeeps ==
    ASSUME RecoveryInv, NEW receipt \in receipts, ConsumeReceipt(receipt)
    PROVE  EvidenceInv'
<1> USE DEF RecoveryInv, EvidenceInv
<1> DEFINE key == <<receipt.context.request, receipt.context.epoch>>
<1>1. /\ UNCHANGED <<inflight, attempts, pending, closed, computes, envelope, epoch>>
      /\ \A context \in envelope : ContextOK(context)
    BY DEF ConsumeReceipt, workerVars, hostVars, WorkerInv
<1>2. CASE UNCHANGED <<episodes, sinkVars>>
    BY <1>1, <1>2, SameSinks, EngineQuiet
<1>3. CASE Dropped("engine", 1) /\ UNCHANGED episodes
    BY <1>1, <1>3, EngineDrop, EngineQuiet
<1>4. CASE /\ EngineOpen /\ Accepts(receipt) /\ UNCHANGED sinkVars
           /\ episodes' = [episodes EXCEPT ![key].receipt = receipt]
    <2>1. /\ ShardsGrow /\ NoPreemptRow
          /\ profile'["worker"] = profile["worker"] /\ base'["worker"] = base["worker"]
        BY <1>4, SameSinks
    <2>2. key \in Requests \X Epochs /\ episodes[key] # NoEpisode
        BY <1>4 DEF Accepts, Episodes
    <2>3. DOMAIN episodes = Requests \X Epochs /\ EpisodeOK(key)
        BY <2>2 DEF EngineInv
    <2>4. /\ DOMAIN episodes' = Requests \X Epochs
          /\ \A x \in Requests \X Epochs : x # key => episodes'[x] = episodes[x]
          /\ episodes'[key] = [episodes[key] EXCEPT !.receipt = receipt]
        BY <1>4, <2>2, <2>3
    <2>5. /\ IsEpisode(episodes'[key]) /\ episodes'[key].receipt = receipt
          /\ episodes'[key].preempt = episodes[key].preempt
        BY <2>2, <2>3, <2>4, WithReceipt DEF EpisodeOK
    <2>6. IsOf(receipt, key)
        BY DEF IsOf
    <2>7. episodes[key].preempt = None \/ episodes[key].preempt \in Present(profile)'
        BY <2>1, <2>2, GrowFacts DEF LinksOK, Begun, Episodes
    <2>8. KeyStep(key)
        <3>1. key[2] <= epoch'[key[1]]
            BY <1>1, <2>2, <2>3 DEF EpisodeOK
        <3> HIDE DEF key
        <3> QED
            BY <3>1, <2>2, <2>5, <2>6, <2>7 DEF KeyStep, Begun
    <2>9. \A x \in Requests \X Epochs : KeyStep(x)
        BY <2>4, <2>8 DEF KeyStep
    <2> QED
        BY <2>1, <2>4, <2>9, <1>1, <1>4, EpisodesChange
<1> QED
    BY <1>2, <1>3, <1>4 DEF ConsumeReceipt, Drop

EntryFields == {"at", "preempt", "context", "receipt", "admission", "wakeup", "predecessor",
                "occurrence", "admitted"}

\* An entry is a function on its fields.
LEMMA EntryIsFunction ==
    ASSUME NEW e
    PROVE  IsEpisode(e) <=> e = [x \in EntryFields |-> e[x]] /\ e.at = "preempted"
<1>1. ASSUME IsEpisode(e) PROVE e = [x \in EntryFields |-> e[x]] /\ e.at = "preempted"
    BY <1>1 DEF IsEpisode, EntryFields
<1>2. ASSUME e = [x \in EntryFields |-> e[x]], e.at = "preempted" PROVE IsEpisode(e)
    BY <1>2 DEF IsEpisode, EntryFields
<1> QED
    BY <1>1, <1>2

LEMMA WithAdmitted ==
    ASSUME NEW e, IsEpisode(e), NEW v, NEW f, f = [e EXCEPT !.admitted = v]
    PROVE  /\ IsEpisode(f) /\ f.receipt = e.receipt /\ f.preempt = e.preempt
           /\ f.admission = e.admission
BY DEF IsEpisode

\* An entry that keeps its receipt and its "preempt" row.
LEMMA KeptKeyStep ==
    ASSUME RecoveryInv, ShardsGrow, epoch' = epoch, NEW key \in Episodes,
           IsEpisode(episodes'[key]), episodes'[key].receipt = episodes[key].receipt,
           episodes'[key].preempt = episodes[key].preempt,
           episodes'[key].admission => IsOf(episodes[key].receipt, key)
    PROVE  KeyStep(key)
<1> USE DEF RecoveryInv, EvidenceInv
<1>1. key \in Requests \X Epochs /\ episodes[key] # NoEpisode /\ EpisodeOK(key)
    BY DEF EngineInv, Episodes
<1>2. episodes[key].preempt = None \/ episodes[key].preempt \in Present(profile)'
    BY GrowFacts DEF LinksOK, Begun
<1>3. /\ key[2] <= epoch[key[1]]
      /\ episodes[key].receipt = None \/ IsOf(episodes[key].receipt, key)
    BY <1>1 DEF EpisodeOK
<1> QED
    BY <1>2, <1>3 DEF KeyStep, Begun

\* A script of the open scheduler adapter that changes the entry of one episode.
LEMMA OneEpisode ==
    ASSUME RecoveryInv, EngineOpen, ShardsGrow, NoPreemptRow,
           profile'["worker"] = profile["worker"], base'["worker"] = base["worker"],
           UNCHANGED <<inflight, attempts, pending, closed, epoch, envelope>>,
           computes \subseteq computes', NEW key \in Episodes,
           DOMAIN episodes' = DOMAIN episodes,
           \A k \in Requests \X Epochs : k # key => episodes'[k] = episodes[k],
           KeyStep(key)
    PROVE  EvidenceInv'
<1> USE DEF RecoveryInv, EvidenceInv
<1>1. DOMAIN episodes' = Requests \X Epochs /\ \A k \in Requests \X Epochs : KeyStep(k)
    BY DEF EngineInv, KeyStep
<1>2. \A context \in envelope' : ContextOK(context)
    BY DEF WorkerInv
<1> QED
    BY <1>1, <1>2, EpisodesChange

LEMMA AdmissionStartedKeeps ==
    ASSUME RecoveryInv, NEW r \in Requests, AdmissionStarted(r)
    PROVE  EvidenceInv'
<1> USE DEF RecoveryInv, EvidenceInv
<1> DEFINE key == <<r, epoch[r]>>
           receipt == episodes[key].receipt
           event == EngineEvent("admission_started", r, epoch[r])
           wakeup == Recovery(receipt.context, "scheduler_wakeup", receipt.row, None,
                              receipt.transfer)
           script == Script(<<event>>, <<wakeup>>, <<>>)
<1>1. /\ UNCHANGED <<inflight, attempts, pending, closed, computes, envelope, epoch>>
      /\ \A context \in envelope : ContextOK(context)
    BY DEF AdmissionStarted, workerVars, wireVars, WorkerInv
<1>2. CASE UNCHANGED <<episodes, sinkVars>>
    BY <1>1, <1>2, SameSinks, EngineQuiet
<1>3. ASSUME EngineOpen, key \in Episodes, receipt # None,
             NEW k \in Outcomes("engine", script), Perform("engine", script, k),
             episodes' = IF k < 2 THEN episodes
                         ELSE [episodes EXCEPT ![key].admission = TRUE,
                                   ![key].wakeup = NthRow("engine", 1),
                                   ![key].predecessor = NthRow("engine", 1)]
      PROVE  EvidenceInv'
    <2>1. wakeup.type = "recovery_event" /\ wakeup.stage = "scheduler_wakeup"
        BY DEF Recovery
    <2> HIDE DEF wakeup, event
    <2>2. k \in 0..2 /\ 2 = Len(<<event>>) + Len(<<wakeup>>) + Len(<<>>)
        BY <1>3, Tuples, ScriptFacts DEF Outcomes
    <2>3. \A row \in ToSet(<<wakeup>>) : row.type # "recovery_event" \/ row.stage # "preempt"
        BY <2>1, Tuples
    <2>4. /\ ShardsGrow /\ NoPreemptRow
          /\ profile'["worker"] = profile["worker"] /\ base'["worker"] = base["worker"]
        <3> DEFINE l == <<event>>
                   m == <<wakeup>>
                   n == <<>>
        <3>1. IsSeq(l) /\ IsSeq(m) /\ IsSeq(n)
            BY Tuples, Zenon
        <3>2. Perform("engine", Script(l, m, n), k)
            BY <1>3, Zenon
        <3>3. k \in 0..(Len(l) + Len(m) + Len(n))
            BY <2>2, Zenon
        <3>4. \A row \in ToSet(m) : row.type # "recovery_event" \/ row.stage # "preempt"
            BY <2>3, Zenon
        <3> HIDE DEF l, m, n
        <3> QED
            BY <3>1, <3>2, <3>3, <3>4, EngineScript, Zenon
    <2>5. CASE episodes' = episodes
        BY <2>4, <2>5, <1>1, EngineQuiet
    <2>6. CASE episodes' # episodes
        <3>1. key \in Requests \X Epochs /\ episodes[key] # NoEpisode /\ EpisodeOK(key)
            BY <1>3 DEF EngineInv, Episodes
        <3>2. DOMAIN episodes = Requests \X Epochs
            BY DEF EngineInv
        <3> HIDE DEF key
        <3>3. /\ DOMAIN episodes' = DOMAIN episodes
              /\ \A x \in Requests \X Epochs : x # key => episodes'[x] = episodes[x]
              /\ episodes'[key] = [episodes[key] EXCEPT !.admission = TRUE,
                                       !.wakeup = NthRow("engine", 1),
                                       !.predecessor = NthRow("engine", 1)]
            BY <1>3, <2>6, <3>1, <3>2
        <3>4. IsEpisode(episodes[key]) /\ IsOf(episodes[key].receipt, key)
            BY <1>3, <3>1 DEF EpisodeOK
        <3>5. /\ IsEpisode(episodes'[key]) /\ episodes'[key].receipt = episodes[key].receipt
              /\ episodes'[key].preempt = episodes[key].preempt
            <4> DEFINE v == NthRow("engine", 1)
            <4> HIDE DEF v
            <4> DEFINE e == episodes[key]
                       f == episodes'[key]
            <4>1. /\ IsEpisode(e)
                  /\ f = [e EXCEPT !.admission = TRUE, !.wakeup = v, !.predecessor = v]
                BY <3>3, <3>4 DEF v
            <4> HIDE DEF e, f
            <4>2. e = [x \in EntryFields |-> e[x]] /\ e.at = "preempted"
                BY <4>1, EntryIsFunction
            <4>3. f = [x \in EntryFields |-> f[x]]
                BY <4>1, <4>2
            <4>4. f.at = e.at
                BY <4>1, <4>2 DEF EntryFields
            <4>5. f.receipt = e.receipt /\ f.preempt = e.preempt
                BY <4>1, <4>2 DEF EntryFields
            <4> QED
                BY <4>2, <4>3, <4>4, <4>5, EntryIsFunction DEF e, f
        <3>6. KeyStep(key)
            BY <1>1, <1>3, <2>4, <3>4, <3>5, KeptKeyStep
        <3> QED
            BY <1>1, <1>3, <2>4, <3>3, <3>6, OneEpisode
    <2> QED
        BY <2>5, <2>6
<1> QED
    BY <1>2, <1>3 DEF AdmissionStarted

LEMMA RequestRequeuedKeeps ==
    ASSUME RecoveryInv, NEW r \in Requests, RequestRequeued(r)
    PROVE  EvidenceInv'
<1> USE DEF RecoveryInv, EvidenceInv
<1> DEFINE key == <<r, epoch[r]>>
           receipt == episodes[key].receipt
           row == [Recovery(receipt.context, "requeue", episodes[key].predecessor, None,
                            receipt.transfer)
                     EXCEPT !.occurrence = episodes[key].occurrence, !.reason = "token_budget"]
           script == Script(<<>>, <<row>>, <<>>)
<1>1. /\ UNCHANGED <<inflight, attempts, pending, closed, computes, envelope, epoch>>
      /\ EngineOpen /\ key \in Episodes
    BY DEF RequestRequeued, workerVars, wireVars, hostVars
<1>2. PICK k \in Outcomes("engine", script) :
            /\ Perform("engine", script, k)
            /\ IF k = 1 THEN RequeueRecorded(key) ELSE UNCHANGED episodes
    BY DEF RequestRequeued
<1>3. row.type = "recovery_event" /\ row.stage = "requeue"
    BY DEF Recovery
<1> HIDE DEF row
<1>4. k \in 0..1 /\ 1 = Len(<<>>) + Len(<<row>>) + Len(<<>>)
    BY <1>2, Tuples, ScriptFacts DEF Outcomes
<1>5. \A x \in ToSet(<<row>>) : x.type # "recovery_event" \/ x.stage # "preempt"
    BY <1>3, Tuples
<1>6. /\ ShardsGrow /\ NoPreemptRow
      /\ profile'["worker"] = profile["worker"] /\ base'["worker"] = base["worker"]
    BY <1>2, <1>4, <1>5, Tuples, EngineScript
<1>7. key \in Requests \X Epochs /\ episodes[key] # NoEpisode /\ EpisodeOK(key)
    BY <1>1 DEF EngineInv, Episodes
<1>8. DOMAIN episodes = Requests \X Epochs /\ \A context \in envelope : ContextOK(context)
    BY DEF EngineInv, WorkerInv
<1>9. CASE episodes' = episodes
    BY <1>1, <1>6, <1>8, <1>9, EngineQuiet
<1>10. CASE RequeueRecorded(key)
    <2> HIDE DEF key
    <2>1. /\ DOMAIN episodes' = DOMAIN episodes
          /\ \A x \in Requests \X Epochs : x # key => episodes'[x] = episodes[x]
          /\ \E v, w : episodes'[key] = [episodes[key] EXCEPT !.predecessor = v, !.occurrence = w]
        BY <1>7, <1>8, <1>10 DEF RequeueRecorded
    <2>2. /\ IsEpisode(episodes[key])
          /\ episodes[key].admission => IsOf(episodes[key].receipt, key)
        BY <1>7 DEF EpisodeOK
    <2>3. /\ IsEpisode(episodes'[key]) /\ episodes'[key].receipt = episodes[key].receipt
          /\ episodes'[key].preempt = episodes[key].preempt
          /\ episodes'[key].admission = episodes[key].admission
        <3>1. PICK v, w : episodes'[key] = [episodes[key] EXCEPT !.predecessor = v, !.occurrence = w]
            BY <2>1
        <3> QED
            <4> DEFINE e == episodes[key]
                       f == episodes'[key]
            <4>1. /\ IsEpisode(e) /\ f = [e EXCEPT !.predecessor = v, !.occurrence = w]
                BY <2>2, <3>1
            <4> HIDE DEF e, f
            <4>2. e = [x \in EntryFields |-> e[x]] /\ e.at = "preempted"
                BY <4>1, EntryIsFunction
            <4>3. f = [x \in EntryFields |-> f[x]]
                BY <4>1, <4>2
            <4>4. f.at = e.at
                BY <4>1, <4>2 DEF EntryFields
            <4>5. f.receipt = e.receipt /\ f.preempt = e.preempt
                BY <4>1, <4>2 DEF EntryFields
            <4>6. f.admission = e.admission
                BY <4>1, <4>2 DEF EntryFields
            <4> QED
                BY <4>2, <4>3, <4>4, <4>5, <4>6, EntryIsFunction DEF e, f
    <2>4. KeyStep(key)
        BY <1>1, <1>6, <2>2, <2>3, KeptKeyStep
    <2> QED
        BY <1>1, <1>6, <2>1, <2>4, OneEpisode
<1> QED
    BY <1>2, <1>9, <1>10

LEMMA RequestAdmittedKeeps ==
    ASSUME RecoveryInv, NEW r \in Requests, NEW kind, RequestAdmitted(r, kind)
    PROVE  EvidenceInv'
<1> USE DEF RecoveryInv, EvidenceInv
<1> DEFINE key == <<r, epoch[r]>>
           receipt == episodes[key].receipt
           script == AdmittedScript(r, key, kind)
           compute == [context |-> receipt.context, transfer |-> receipt.transfer,
                       kind |-> kind, admission |-> NthRow("engine", 1),
                       started |-> NthBase("engine", 3)]
<1>1. /\ UNCHANGED <<inflight, attempts, pending, closed, envelope, epoch>>
      /\ \A context \in envelope : ContextOK(context)
    BY DEF RequestAdmitted, workerVars, WorkerInv
<1>2. CASE UNCHANGED <<episodes, computes, sinkVars>>
    BY <1>1, <1>2, SameSinks, EngineQuiet
<1>3. ASSUME EngineOpen, key \in Episodes, episodes[key].admission,
             NEW k \in Outcomes("engine", script), Perform("engine", script, k),
             episodes' = CASE k = 4 -> [episodes EXCEPT ![key] = NoEpisode]
                           [] k = 3 -> [episodes EXCEPT ![key].admitted = NthRow("engine", 1)]
                           [] OTHER -> episodes,
             computes' = IF k = 4 THEN computes \cup {compute} ELSE computes
      PROVE  EvidenceInv'
    <2> DEFINE resumed == EngineEvent("resumed", r, key[2])
               edge == Edge(r, receipt.done, issued[key].admission, "h2d")
               row == [Recovery(receipt.context, "admission", episodes[key].predecessor,
                                NthBase("engine", 1), receipt.transfer)
                         EXCEPT !.admission = issued[key].admission]
               first == EngineEvent(kind, r, key[2])
    <2>1. script = Script(<<resumed, edge>>, <<row>>, <<first>>)
        BY DEF AdmittedScript
    <2>2. row.type = "recovery_event" /\ row.stage = "admission"
        BY DEF Recovery
    <2>3. compute.context = receipt.context
        OBVIOUS
    <2> HIDE DEF resumed, edge, row, first, script, compute
    <2>4. k \in 0..4 /\ 4 = Len(<<resumed, edge>>) + Len(<<row>>) + Len(<<first>>)
        <3>1. /\ IsSeq(<<resumed, edge>>) /\ IsSeq(<<row>>) /\ IsSeq(<<first>>)
              /\ Len(<<resumed, edge>>) = 2 /\ Len(<<row>>) = 1 /\ Len(<<first>>) = 1
            BY Tuples
        <3>2. Steps(script) = Len(<<resumed, edge>>) + Len(<<row>>) + Len(<<first>>)
            <4> DEFINE l == <<resumed, edge>>
                       m == <<row>>
                       n == <<first>>
            <4>1. IsSeq(l) /\ IsSeq(m) /\ IsSeq(n) /\ script = Script(l, m, n)
                BY <2>1, <3>1
            <4> HIDE DEF l, m, n
            <4>2. Steps(Script(l, m, n)) = Len(l) + Len(m) + Len(n)
                BY <4>1, ScriptFacts
            <4> QED
                BY <4>1, <4>2 DEF l, m, n
        <3>3. k \in 0..Steps(script)
            BY <1>3 DEF Outcomes
        <3> QED
            BY <3>1, <3>2, <3>3
    <2>5. \A x \in ToSet(<<row>>) : x.type # "recovery_event" \/ x.stage # "preempt"
        BY <2>2, Tuples
    <2>6. /\ ShardsGrow /\ NoPreemptRow
          /\ profile'["worker"] = profile["worker"] /\ base'["worker"] = base["worker"]
        BY <1>3, <2>1, <2>4, <2>5, Tuples, EngineScript
    <2>7. key \in Requests \X Epochs /\ episodes[key] # NoEpisode /\ EpisodeOK(key)
        BY <1>3 DEF EngineInv, Episodes
    <2>8. DOMAIN episodes = Requests \X Epochs
        BY DEF EngineInv
    <2>9. IsEpisode(episodes[key]) /\ IsOf(episodes[key].receipt, key)
        BY <1>3, <2>7 DEF EpisodeOK
    <2> HIDE DEF key
    <2>10. CASE k = 4
        <3>1. /\ DOMAIN episodes' = DOMAIN episodes /\ episodes'[key] = NoEpisode
              /\ \A x \in Requests \X Epochs : x # key => episodes'[x] = episodes[x]
              /\ computes' = computes \cup {compute}
            BY <1>3, <2>7, <2>8, <2>10
        <3>2. IsOf(compute, key)
            BY <2>3, <2>9 DEF IsOf
        <3>3. KeyStep(key)
            BY <3>1, <3>2 DEF KeyStep
        <3> QED
            BY <1>1, <1>3, <2>6, <3>1, <3>3, OneEpisode
    <2>11. CASE k = 3
        <3>1. /\ DOMAIN episodes' = DOMAIN episodes
              /\ episodes'[key] = [episodes[key] EXCEPT !.admitted = NthRow("engine", 1)]
              /\ \A x \in Requests \X Epochs : x # key => episodes'[x] = episodes[x]
              /\ computes' = computes
            BY <1>3, <2>7, <2>8, <2>11
        <3>2. /\ IsEpisode(episodes'[key]) /\ episodes'[key].receipt = episodes[key].receipt
              /\ episodes'[key].preempt = episodes[key].preempt
            BY <3>1, <2>9, WithAdmitted
        <3>3. KeyStep(key)
            BY <1>1, <1>3, <2>6, <2>9, <3>2, KeptKeyStep
        <3> QED
            BY <1>1, <1>3, <2>6, <3>1, <3>3, OneEpisode
    <2>12. CASE k # 3 /\ k # 4
        <3>1. episodes' = episodes /\ computes' = computes
            BY <1>3, <2>12
        <3> QED
            BY <3>1, <1>1, <2>6, EngineQuiet
    <2> QED
        BY <2>10, <2>11, <2>12
<1> QED
    BY <1>2, <1>3 DEF RequestAdmitted

LEMMA ChunkCountNat ==
    ASSUME NEW n \in Nat
    PROVE  ChunkCount(n) \in Nat
BY ProfileAssumption DEF ChunkCount

LEMMA BlockChunksFacts ==
    ASSUME NEW context
    PROVE  /\ IsSeq(BlockChunks(context))
           /\ \A row \in ToSet(BlockChunks(context)) : row.type = "block_set_chunk"
<1> DEFINE n == ChunkCount(Blocks)
           s == BlockChunks(context)
<1>1. n \in Nat
    BY ChunkCountNat, ProfileAssumption
<1>2. /\ s = [i \in 1..n |-> s[i]] /\ DOMAIN s = 1..n
      /\ \A i \in 1..n : s[i] = Chunk("block_set_chunk", context, Blocks, i - 1)
    BY DEF BlockChunks
<1>3. \A i \in 1..n : s[i].type = "block_set_chunk"
    BY <1>2 DEF Chunk
<1> HIDE DEF n, s
<1>4. IsSeq(s)
    BY <1>1, <1>2, FunctionIsSeq
<1> QED
    BY <1>2, <1>3, <1>4 DEF ToSet, s

LEMMA PrepareUnassociatedKeeps ==
    ASSUME RecoveryInv, NEW r, NEW op, PrepareUnassociated(r, op),
           UNCHANGED <<inflight, attempts, pending, closed, episodes, epoch, computes>>
    PROVE  EvidenceInv'
<1> USE DEF RecoveryInv, EvidenceInv
<1> DEFINE context == [request |-> r, epoch |-> 0, op |-> op, preempted |-> None, preempt |-> None]
           rows == BlockChunks(context)
           script == Script(<<>>, rows, <<>>)
<1>1. PICK k \in Outcomes("engine", script) :
            /\ Perform("engine", script, k)
            /\ envelope' = IF k = Steps(script) THEN envelope \cup {context} ELSE envelope
    BY DEF PrepareUnassociated
<1>2. ContextOK(context)
    BY DEF ContextOK
<1>3. IsSeq(rows) /\ \A row \in ToSet(rows) : row.type = "block_set_chunk"
    BY BlockChunksFacts
<1> HIDE DEF context, rows
<1>4. \A c \in envelope' : ContextOK(c)
    BY <1>1, <1>2 DEF WorkerInv
<1>5. k \in 0..(Len(<<>>) + Len(rows) + Len(<<>>))
    <2>1. Steps(script) = Len(<<>>) + Len(rows) + Len(<<>>)
        BY <1>3, Tuples, ScriptFacts
    <2> QED
        BY <1>1, <2>1 DEF Outcomes
<1>6. /\ ShardsGrow /\ NoPreemptRow
      /\ profile'["worker"] = profile["worker"] /\ base'["worker"] = base["worker"]
    BY <1>1, <1>3, <1>5, Tuples, EngineScript
<1> QED
    BY <1>4, <1>6, EngineQuiet

LEMMA PrepareRestoreKeeps ==
    ASSUME RecoveryInv, EngineOpen, NEW r \in Requests, NEW key \in EpisodesOf(r),
           PrepareRestore(r, key),
           UNCHANGED <<inflight, attempts, pending, closed, epoch, computes>>
    PROVE  EvidenceInv'
<1> USE DEF RecoveryInv, EvidenceInv
<1> DEFINE link == NthRow("engine", 1)
           context == [request |-> r, epoch |-> key[2], op |-> "restore",
                       preempted |-> issued[key].preempted, preempt |-> link]
           row == Recovery([context EXCEPT !.preempt = None], "preempt", None,
                           issued[key].preempted, None)
           chunks == BlockChunks(context)
           rows == <<row>> \o chunks
           script == Script(<<>>, rows, <<>>)
<1>1. PICK k \in Outcomes("engine", script) :
            /\ Perform("engine", script, k)
            /\ IF k = 0
               THEN episodes' = [episodes EXCEPT ![key] = NoEpisode]
               ELSE episodes' = [episodes EXCEPT
                        ![key].preempt = link,
                        ![key].context = IF k = Steps(script) THEN context ELSE None]
            /\ envelope' = IF k = Steps(script) THEN envelope \cup {context} ELSE envelope
    BY DEF PrepareRestore
<1>2. ContextOK(context)
    BY DEF ContextOK
<1>3. /\ row.context.request = r /\ row.context.epoch = key[2]
    BY DEF Recovery
<1>4. IsSeq(chunks) /\ \A x \in ToSet(chunks) : x.type = "block_set_chunk"
    BY BlockChunksFacts
<1>5. key \in Requests \X Epochs /\ key[1] = r /\ key = <<r, key[2]>> /\ key \in Episodes
    BY DEF EpisodesOf, Episodes
<1>6. EpisodeOK(key) /\ episodes[key] # NoEpisode /\ DOMAIN episodes = Requests \X Epochs
    BY <1>5 DEF EngineInv, Episodes
<1> HIDE DEF context, row, chunks
<1>7. /\ IsSeq(rows) /\ Len(rows) = 1 + Len(chunks) /\ Len(chunks) \in Nat
      /\ rows[1] = row /\ 1 \in DOMAIN rows /\ ToSet(rows) = {row} \cup ToSet(chunks)
    <2>1. IsSeq(<<row>>) /\ Len(<<row>>) = 1 /\ <<row>>[1] = row /\ ToSet(<<row>>) = {row}
        BY Tuples
    <2>2. Len(chunks) \in Nat
        BY <1>4, SeqFacts
    <2> DEFINE s == <<row>>
    <2> HIDE DEF s
    <2>3. /\ IsSeq(s \o chunks) /\ Len(s \o chunks) = Len(s) + Len(chunks)
          /\ DOMAIN (s \o chunks) = 1..(Len(s) + Len(chunks))
          /\ \A i \in 1..Len(s) : (s \o chunks)[i] = s[i]
          /\ ToSet(s \o chunks) = ToSet(s) \cup ToSet(chunks)
        BY <2>1, <1>4, ConcatFacts, ToSetConcat DEF s
    <2> QED
        BY <2>1, <2>2, <2>3 DEF s
<1> HIDE DEF rows
<1>8. /\ IsScript(script) /\ Steps(script) = Len(rows) /\ script.rows = rows
      /\ Len(script.lead) = 0
    BY <1>7, Tuples, ScriptFacts
<1> HIDE DEF script
<1>9. k \in 0..Steps(script) /\ "engine" \in Processes /\ "worker" \in Processes \ {"engine"}
    BY <1>1 DEF Outcomes, Processes
<1>10. /\ ShardsGrow
       /\ \A q \in Processes \ {"engine"} : profile'[q] = profile[q] /\ base'[q] = base[q]
       /\ k < Steps(script) => Lost \in ToSet(profile'["engine"])
       /\ ToSet(profile'["engine"]) \subseteq ToSet(profile["engine"]) \cup ToSet(rows) \cup {Lost}
       /\ 1 <= k => Len(profile["engine"]) + 1 <= Len(profile'["engine"])
    <2>1. /\ ShardsGrow
          /\ \A q \in Processes \ {"engine"} : profile'[q] = profile[q] /\ base'[q] = base[q]
          /\ k < Steps(script) => Lost \in ToSet(profile'["engine"])
          /\ ToSet(profile'["engine"]) \subseteq ToSet(profile["engine"]) \cup ToSet(script.rows) \cup {Lost}
          /\ \A i \in DOMAIN script.rows : Len(script.lead) + i <= k =>
                /\ script.rows[i] \in ToSet(profile'["engine"])
                /\ Len(profile["engine"]) + i <= Len(profile'["engine"])
        BY <1>1, <1>8, <1>9, PerformFacts
    <2> QED
        BY <2>1, <1>7, <1>8
<1>11. k = 0 => Lossy'
    <2>1. k = 0 => k < Steps(script)
        BY <1>7, <1>8
    <2> QED
        BY <2>1, <1>9, <1>10 DEF Lossy, Lossless, ToSet
<1>12. k # 0 => link \in Present(profile)'
    <2>1. /\ Len(profile["engine"]) \in Nat /\ DOMAIN profile'["engine"] = 1..Len(profile'["engine"])
          /\ Len(profile'["engine"]) \in Nat
        BY <1>9, <1>10, SeqFacts DEF ShardsOK, ShardsGrow, Grows
    <2>2. k # 0 => Len(profile["engine"]) + 1 \in DOMAIN profile'["engine"]
        BY <2>1, <1>9, <1>10
    <2> QED
        BY <2>2, <1>9 DEF Present, NthRow
<1>13. link # None
    BY DEF NthRow, None
<1> HIDE DEF link
<1>14. KeyStep(key) /\ (k # 0 => key \in Begun')
    <2>1. CASE k = 0
        BY <2>1, <1>1, <1>5, <1>6, <1>11 DEF KeyStep
    <2>2. CASE k # 0
        <3> DEFINE e == episodes[key]
                   f == episodes'[key]
                   v == IF k = Steps(script) THEN context ELSE None
        <3>1. IsEpisode(e) /\ f = [e EXCEPT !.preempt = link, !.context = v]
            BY <2>2, <1>1, <1>5, <1>6 DEF EpisodeOK
        <3> HIDE DEF e, f, v
        <3>2. e = [x \in EntryFields |-> e[x]] /\ e.at = "preempted"
            BY <3>1, EntryIsFunction
        <3>3. f = [x \in EntryFields |-> f[x]]
            BY <3>1, <3>2
        <3>4. f.at = e.at
            BY <3>1, <3>2 DEF EntryFields
        <3>5. f.receipt = e.receipt /\ f.preempt = link
            BY <3>1, <3>2 DEF EntryFields
        <3>6. f.admission = e.admission
            BY <3>1, <3>2 DEF EntryFields
        <3>7. IsEpisode(f) /\ f # NoEpisode
            BY <3>2, <3>3, <3>4, EntryIsFunction DEF NoEpisode
        <3>8. key[2] <= epoch'[key[1]]
            BY <1>6 DEF EpisodeOK
        <3>9. KeyStep(key)
            BY <3>5, <3>6, <3>7, <3>8, <1>6, <1>12, <1>13, <2>2 DEF KeyStep, EpisodeOK, e, f
        <3>10. key \in Begun'
            BY <3>5, <3>7, <1>5, <1>13 DEF f, Begun, Episodes
        <3> QED
            BY <3>9, <3>10
    <2> QED
        BY <2>1, <2>2
<1>15. /\ DOMAIN episodes' = Requests \X Epochs
       /\ \A x \in Requests \X Epochs : x # key => episodes'[x] = episodes[x]
    BY <1>1, <1>5, <1>6
<1>16. \A x \in Requests \X Epochs : KeyStep(x)
    BY <1>14, <1>15 DEF KeyStep
<1>17. ASSUME NEW x \in StageOf("engine", "preempt")'
       PROVE  x \in StageOf("engine", "preempt") \/ (PreemptRowOK(x)' /\ RowAccounted(x)')
    <2>1. CASE x \in StageOf("engine", "preempt")
        BY <2>1
    <2>2. CASE x \notin StageOf("engine", "preempt")
        <3>1. x.context.request = r /\ x.context.epoch = key[2]
            BY <2>2, <1>3, <1>4, <1>7, <1>10 DEF StageOf, Lost
        <3>2. PreemptRowOK(x)'
            BY <3>1, <1>5, <1>6 DEF PreemptRowOK, EpisodeOK
        <3>3. CASE k = 0
            BY <3>2, <3>3, <1>11 DEF RowAccounted, Lossy
        <3>4. CASE k # 0
            <4>1. <<x.context.request, x.context.epoch>> \in Begun'
                BY <3>1, <3>4, <1>5, <1>14
            <4> QED
                BY <3>2, <4>1 DEF RowAccounted
        <3> QED
            BY <3>3, <3>4
    <2> QED
        BY <2>1, <2>2
<1>18. \A c \in envelope' : ContextOK(c)
    BY <1>1, <1>2 DEF WorkerInv
<1>19. closed'["worker"] = closed["worker"] /\ closed'["engine"] = "open"
    BY DEF EngineOpen
<1>20. epoch' \in [Requests -> 0..MaxEpoch] /\ \A q \in Requests : epoch[q] <= epoch'[q]
    BY RecoveryAssumption DEF PlainTypeOK
<1> QED
    BY <1>9, <1>10, <1>15, <1>16, <1>17, <1>18, <1>19, <1>20, EngineStep

LEMMA PrepareContextKeeps ==
    ASSUME RecoveryInv, NEW r \in Requests, NEW op, PrepareContext(r, op)
    PROVE  EvidenceInv'
<1> USE DEF RecoveryInv, EvidenceInv
<1>1. /\ UNCHANGED <<inflight, attempts, pending, closed, computes, epoch>>
      /\ \A context \in envelope : ContextOK(context)
    BY DEF PrepareContext, workerVars, WorkerInv
<1>2. CASE UNCHANGED <<episodes, envelope, sinkVars>>
    BY <1>1, <1>2, SameSinks, EngineQuiet
<1>3. CASE Dropped("engine", 1) /\ UNCHANGED <<episodes, envelope>>
    BY <1>1, <1>3, EngineDrop, EngineQuiet
<1>4. CASE PrepareUnassociated(r, op) /\ UNCHANGED episodes
    BY <1>1, <1>4, PrepareUnassociatedKeeps
<1>5. CASE EngineOpen /\ \E key \in EpisodesOf(r) : PrepareRestore(r, key)
    BY <1>1, <1>5, PrepareRestoreKeeps
<1> QED
    BY <1>2, <1>3, <1>4, <1>5 DEF PrepareContext, Drop

LEMMA KeysAreFinite == IsFiniteSet(Requests \X Epochs)
<1>1. IsFiniteSet(Requests) /\ MaxEpoch \in Nat
    BY RecoveryAssumption
<1>2. IsFiniteSet(Epochs)
    BY <1>1, FS_Interval DEF Epochs
<1> QED
    BY <1>1, <1>2, FS_Product

\* Episodes that are given up, with a loss for each that has begun.
LEMMA AbandonedSteps ==
    ASSUME RecoveryInv, NEW keys, keys \subseteq Episodes, NEW n \in Nat,
           n >= Cardinality(keys \cap Begun), Dropped("engine", n), episodes' = Without(keys)
    PROVE  /\ ShardsGrow /\ NoPreemptRow
           /\ profile'["worker"] = profile["worker"] /\ base'["worker"] = base["worker"]
           /\ DOMAIN episodes' = Requests \X Epochs
           /\ \A k \in Requests \X Epochs : KeyStep(k)
           /\ Episodes' = Episodes \ keys
<1> USE DEF RecoveryInv, EvidenceInv
<1>1. /\ ShardsGrow /\ NoPreemptRow
      /\ profile'["worker"] = profile["worker"] /\ base'["worker"] = base["worker"]
      /\ n > 0 /\ closed["engine"] # "committed" => Lossy'
    BY EngineDrop
<1>2. /\ DOMAIN episodes' = Requests \X Epochs
      /\ \A k \in Requests \X Epochs :
            episodes'[k] = IF k \in keys THEN NoEpisode ELSE episodes[k]
    BY DEF Without, EngineInv
<1>3. ASSUME NEW k \in keys, k \in Begun PROVE Lossy'
    <2>1. closed["engine"] # "committed"
        BY <1>3 DEF EngineInv, Begun
    <2>2. keys \cap Begun \subseteq Requests \X Epochs
        BY DEF Begun, Episodes
    <2>3. IsFiniteSet(keys \cap Begun)
        BY <2>2, KeysAreFinite, FS_Subset
    <2>4. Cardinality(keys \cap Begun) \in Nat /\ Cardinality(keys \cap Begun) # 0
        BY <1>3, <2>3, FS_CardinalityType, FS_EmptySet
    <2> QED
        BY <1>1, <2>1, <2>4
<1>4. \A k \in Requests \X Epochs : KeyStep(k)
    BY <1>2, <1>3 DEF KeyStep
<1>5. Episodes' = Episodes \ keys
    BY <1>2 DEF Episodes
<1> QED
    BY <1>1, <1>2, <1>4, <1>5

LEMMA CountIsNat ==
    ASSUME NEW keys, keys \subseteq Episodes
    PROVE  Cardinality(keys \cap Begun) \in Nat
<1>1. keys \cap Begun \subseteq Requests \X Epochs
    BY DEF Begun, Episodes
<1> QED
    BY <1>1, KeysAreFinite, FS_Subset, FS_CardinalityType

LEMMA RequestTerminalKeeps ==
    ASSUME RecoveryInv, NEW r \in Requests, RequestTerminal(r)
    PROVE  EvidenceInv'
<1> USE DEF RecoveryInv, EvidenceInv
<1>1. /\ UNCHANGED <<inflight, attempts, pending, closed, computes, envelope, epoch>>
      /\ \A context \in envelope : ContextOK(context)
    BY DEF RequestTerminal, workerVars, wireVars, WorkerInv
<1>2. CASE Dropped("engine", 1) /\ UNCHANGED episodes
    BY <1>1, <1>2, EngineDrop, EngineQuiet
<1>3. ASSUME NEW n \in Nat, n >= Cardinality(EpisodesOf(r) \cap Begun), Dropped("engine", n),
             episodes' = Without(EpisodesOf(r))
      PROVE  EvidenceInv'
    <2>1. EpisodesOf(r) \subseteq Episodes
        BY DEF EpisodesOf
    <2>2. /\ ShardsGrow /\ NoPreemptRow
          /\ profile'["worker"] = profile["worker"] /\ base'["worker"] = base["worker"]
          /\ DOMAIN episodes' = Requests \X Epochs
          /\ \A k \in Requests \X Epochs : KeyStep(k)
          /\ Episodes' = Episodes \ EpisodesOf(r)
        BY <1>3, <2>1, AbandonedSteps
    <2>3. closed'["worker"] = closed["worker"] /\ closed'["engine"] = closed["engine"]
        BY <1>1
    <2>4. closed'["engine"] = "committed" => Episodes' = {}
        BY <2>2, <2>3 DEF EngineInv
    <2>5. epoch' \in [Requests -> 0..MaxEpoch] /\ \A q \in Requests : epoch[q] <= epoch'[q]
        BY <1>1, RecoveryAssumption DEF PlainTypeOK
    <2> QED
        BY <1>1, <2>2, <2>3, <2>4, <2>5, NoNewPreempt, EngineStep DEF EngineInv
<1>4. EpisodesOf(r) \subseteq Episodes
    BY DEF EpisodesOf
<1>5. Cardinality(EpisodesOf(r) \cap Begun) \in Nat
    BY <1>4, CountIsNat
<1>6. CASE Abandoned(EpisodesOf(r))
    BY <1>3, <1>5, <1>6 DEF Abandoned, Drop
<1>7. CASE /\ Failing("engine", Cardinality(EpisodesOf(r) \cap Begun) + 1)
           /\ episodes' = Without(EpisodesOf(r))
    BY <1>3, <1>5, <1>7 DEF Failing
<1> QED
    BY <1>2, <1>6, <1>7 DEF RequestTerminal, Drop

LEMMA EngineResetKeeps ==
    ASSUME RecoveryInv, EngineReset
    PROVE  EvidenceInv'
<1> USE DEF RecoveryInv, EvidenceInv
<1>1. /\ UNCHANGED <<inflight, attempts, pending, closed, computes, envelope, epoch>>
      /\ EngineOpen /\ Abandoned(Episodes) /\ \A context \in envelope : ContextOK(context)
    BY DEF EngineReset, workerVars, wireVars, hostVars, WorkerInv
<1>2. Cardinality(Episodes \cap Begun) \in Nat
    BY CountIsNat
<1>3. /\ ShardsGrow /\ NoPreemptRow
      /\ profile'["worker"] = profile["worker"] /\ base'["worker"] = base["worker"]
      /\ DOMAIN episodes' = Requests \X Epochs
      /\ \A k \in Requests \X Epochs : KeyStep(k)
    BY <1>1, <1>2, AbandonedSteps DEF Abandoned, Drop
<1> QED
    BY <1>1, <1>3, EpisodesChange

LEMMA EngineCloseKeeps ==
    ASSUME RecoveryInv, EngineClose
    PROVE  EvidenceInv'
<1> USE DEF RecoveryInv, EvidenceInv
<1>1. /\ UNCHANGED <<inflight, attempts, pending, computes, envelope, epoch>>
      /\ EngineOpen /\ Abandoned(Episodes) /\ \A context \in envelope : ContextOK(context)
      /\ closed' = [closed EXCEPT !["engine"] = "committed"]
    BY DEF EngineClose, workerVars, wireVars, hostVars, WorkerInv
<1>2. Cardinality(Episodes \cap Begun) \in Nat
    BY CountIsNat
<1>3. /\ ShardsGrow /\ NoPreemptRow
      /\ profile'["worker"] = profile["worker"] /\ base'["worker"] = base["worker"]
      /\ DOMAIN episodes' = Requests \X Epochs
      /\ \A k \in Requests \X Epochs : KeyStep(k)
      /\ Episodes' = {}
    <2>1. /\ Dropped("engine", Cardinality(Episodes \cap Begun)) /\ episodes' = Without(Episodes)
          /\ Cardinality(Episodes \cap Begun) >= Cardinality(Episodes \cap Begun)
        BY <1>1, <1>2 DEF Abandoned, Drop
    <2> QED
        BY <1>2, <2>1, AbandonedSteps
<1>4. closed'["worker"] = closed["worker"] /\ closed'["engine"] = "committed"
    BY <1>1 DEF PlainTypeOK, Processes
<1>5. epoch' \in [Requests -> 0..MaxEpoch] /\ \A q \in Requests : epoch[q] <= epoch'[q]
    BY <1>1, RecoveryAssumption DEF PlainTypeOK
<1> QED
    BY <1>1, <1>3, <1>4, <1>5, NoNewPreempt, EngineStep

-----------------------------------------------------------------------------
(* Steps of the worker adapter *)

\* A span that was started is explained.
Explained(started) ==
    \/ Ended(started) \/ Running(started) \/ Cancelled(started)
    \/ ~Lossless("worker") \/ closed["worker"] = "committed"

\* How a transfer may leave the ones in flight.
Leaves(x) ==
    \/ ~Lossless("worker") \/ closed["worker"] = "committed"
    \/ x[2].op = "preserve"
    \/ \E item \in ToSet(base["worker"]) :
            HasName(item, "communication_done") /\ item.end = x[1][2]
    \/ \E row \in ToSet(profile["worker"]) :
            row.type = "transfer_event" /\ row.transfer = x[1] /\ row.result = "cancelled"

LEMMA SpansStep ==
    ASSUME RecoveryInv, ShardsGrow, attempts' \in Nat, attempts <= attempts',
           IsFiniteSet(inflight'),
           \A x \in inflight' : \/ x \in inflight
                                \/ IsTransfer(x[1])' /\ ContextOK(x[2]) /\ x[1][2] > attempts,
           envelope' \subseteq envelope,
           closed["worker"] = "committed" => closed'["worker"] = "committed",
           \A item \in StartedTransfers' :
                item \in StartedTransfers \/ (StartedOK(item)' /\ Explained(item)'),
           \A x \in inflight : x \in inflight' \/ Leaves(x)'
    PROVE  WorkerInv'
<1> USE DEF RecoveryInv, EvidenceInv
<1>1. attempts \in Nat
    BY RecoveryAssumption DEF PlainTypeOK
<1>2. \A t : IsTransfer(t) => IsTransfer(t)'
    BY <1>1 DEF IsTransfer
<1>3. \A x \in inflight' : IsTransfer(x[1])' /\ ContextOK(x[2])
    BY <1>2 DEF WorkerInv
<1>4. ASSUME NEW item \in StartedTransfers PROVE StartedOK(item)'
    <2>1. StartedOK(item)
        BY DEF WorkerInv
    <2>2. IsTransfer(item.transfer) /\ item.start = item.transfer[2]
        BY <2>1 DEF StartedOK
    <2>3. ASSUME NEW x \in inflight', x[1] = item.transfer PROVE x[2].op # "preserve"
        <3>1. ~(x[1][2] > attempts)
            BY <1>1, <2>2, <2>3 DEF IsTransfer
        <3> QED
            BY <2>1, <2>3, <3>1 DEF StartedOK
    <2> QED
        BY <1>2, <2>2, <2>3 DEF StartedOK
<1>5. "worker" \in Processes
    BY DEF Processes
<1>6. /\ ToSet(profile["worker"]) \subseteq ToSet(profile'["worker"])
      /\ ToSet(base["worker"]) \subseteq ToSet(base'["worker"])
      /\ ~Lossless("worker") => ~Lossless("worker")'
    BY <1>5, GrowFacts
<1>7. ASSUME NEW item \in StartedTransfers PROVE Explained(item)'
    <2>1. Explained(item) /\ StartedOK(item)
        BY DEF WorkerInv, StartedSpansExplained, Explained
    <2>2. CASE Ended(item)
        BY <2>2, <1>6 DEF Ended, Explained
    <2>3. CASE Cancelled(item)
        BY <2>3, <1>6 DEF Cancelled, Explained
    <2>4. CASE ~Lossless("worker") \/ closed["worker"] = "committed"
        BY <2>4, <1>6 DEF Explained
    <2>5. ASSUME NEW x \in inflight, x[1] = item.transfer PROVE Explained(item)'
        <3>1. item.start = x[1][2] /\ x[2].op # "preserve"
            BY <2>1, <2>5 DEF StartedOK
        <3>2. CASE x \in inflight'
            BY <2>5, <3>2 DEF Explained, Running
        <3>3. CASE Leaves(x)'
            BY <2>5, <3>1, <3>3 DEF Leaves, Explained, Ended, Cancelled
        <3> QED
            BY <3>2, <3>3
    <2> QED
        BY <2>1, <2>2, <2>3, <2>4, <2>5 DEF Explained, Running
<1>8. \A item \in StartedTransfers' : StartedOK(item)' /\ Explained(item)'
    BY <1>4, <1>7
<1>9. StartedSpansExplained'
    BY <1>8 DEF StartedSpansExplained, Explained
<1> QED
    BY <1>3, <1>8, <1>9 DEF WorkerInv

\* A step of the worker adapter.
LEMMA WorkerStep ==
    ASSUME RecoveryInv, ShardsGrow, NoPreemptRow, WorkerInv',
           UNCHANGED <<episodes, epoch>>, closed'["engine"] = closed["engine"],
           closed["worker"] = "committed" => closed'["worker"] = "committed",
           \A entry \in pending' :
                entry \in pending \/ entry.row = None \/ entry.row \in Present(profile)',
           \A compute \in computes :
                \/ compute \in computes' \/ Lossy' \/ closed'["worker"] = "committed"
                \/ \E first \in StageOf("worker", "first_prefill_or_decode")' :
                        first.context = compute.context
    PROVE  EvidenceInv'
<1> USE DEF RecoveryInv, EvidenceInv
<1>1. epoch' \in [Requests -> 0..MaxEpoch] /\ \A r \in Requests : epoch[r] <= epoch'[r]
    BY RecoveryAssumption DEF PlainTypeOK
<1>2. DOMAIN episodes' = Requests \X Epochs /\ \A k \in Requests \X Epochs : KeyStep(k)
    BY DEF EngineInv, KeyStep
<1>3. Episodes' = Episodes
    BY DEF Episodes
<1>4. EngineInv' /\ \A k \in Begun' : episodes'[k].preempt \in Present(profile)'
    BY <1>1, <1>2, <1>3, NoNewPreempt, EngineKeeps DEF EngineInv
<1>5. ShardsOK' /\ Present(profile) \subseteq Present(profile)'
    BY GrowFacts
<1>6. \A entry \in pending' : entry.row = None \/ entry.row \in Present(profile)'
    BY <1>5 DEF LinksOK
<1> QED
    BY <1>4, <1>5, <1>6 DEF LinksOK, None

LEMMA SameEngineRows ==
    ASSUME profile'["engine"] = profile["engine"]
    PROVE  NoPreemptRow
BY DEF NoPreemptRow

\* A step of the worker adapter that starts no span and keeps the wire.
LEMMA WorkerQuiet ==
    ASSUME RecoveryInv, ShardsGrow, NoPreemptRow, attempts' = attempts,
           UNCHANGED <<episodes, epoch, computes>>, envelope' \subseteq envelope,
           closed'["engine"] = closed["engine"],
           closed["worker"] = "committed" => closed'["worker"] = "committed",
           inflight' \subseteq inflight, pending' \subseteq pending,
           StartedTransfers' \subseteq StartedTransfers,
           \A x \in inflight : x \in inflight' \/ Leaves(x)'
    PROVE  EvidenceInv'
<1> USE DEF RecoveryInv, EvidenceInv
<1>1. attempts \in Nat
    BY RecoveryAssumption DEF PlainTypeOK
<1>2. IsFiniteSet(inflight')
    BY FS_Subset DEF WorkerInv
<1>3. WorkerInv'
    BY <1>1, <1>2, SpansStep
<1> QED
    BY <1>3, WorkerStep

\* Drops of the worker adapter.
LEMMA WorkerDrop ==
    ASSUME ShardsOK, NEW n \in Nat, Dropped("worker", n)
    PROVE  /\ ShardsGrow /\ NoPreemptRow /\ StartedTransfers' = StartedTransfers
           /\ n > 0 /\ closed["worker"] # "committed" => ~Lossless("worker")'
<1>1. "worker" \in Processes /\ "engine" \in Processes \ {"worker"}
    BY DEF Processes
<1>2. /\ ShardsGrow /\ base' = base
      /\ \A q \in Processes \ {"worker"} : profile'[q] = profile[q]
      /\ n > 0 /\ closed["worker"] # "committed" => Lost \in ToSet(profile'["worker"])
    BY <1>1, DroppedFacts
<1>3. NoPreemptRow /\ StartedTransfers' = StartedTransfers
    BY <1>1, <1>2, SameEngineRows DEF StartedTransfers
<1>4. Lost \in ToSet(profile'["worker"]) => ~Lossless("worker")'
    BY DEF Lossless, ToSet
<1> QED
    BY <1>2, <1>3, <1>4

\* A script of the worker adapter.
LEMMA WorkerScript ==
    ASSUME ShardsOK, NEW l, NEW m, IsSeq(l), IsSeq(m),
           NEW k, k \in Outcomes("worker", Script(l, m, <<>>)) \/ k \in 0..(Len(l) + Len(m)),
           Perform("worker", Script(l, m, <<>>), k)
    PROVE  /\ k \in 0..(Len(l) + Len(m)) /\ Steps(Script(l, m, <<>>)) = Len(l) + Len(m)
           /\ ShardsGrow /\ NoPreemptRow
           /\ k < Len(l) + Len(m) => ~Lossless("worker")'
           /\ \A item \in StartedTransfers' : item \in StartedTransfers \/ item \in ToSet(l)
           /\ \A i \in DOMAIN l : i <= k => l[i] \in ToSet(base'["worker"])
           /\ \A i \in DOMAIN m : Len(l) + i <= k =>
                    m[i] \in ToSet(profile'["worker"]) /\ NthRow("worker", i) \in Present(profile)'
<1> DEFINE script == Script(l, m, <<>>)
<1>1. "worker" \in Processes /\ "engine" \in Processes \ {"worker"}
    BY DEF Processes
<1>2. /\ IsScript(script) /\ Steps(script) = Len(l) + Len(m) + Len(<<>>)
      /\ script.lead = l /\ script.rows = m /\ script.trail = <<>>
    BY Tuples, ScriptFacts
<1>3. /\ Len(<<>>) = 0 /\ ToSet(<<>>) = {} /\ Len(l) \in Nat /\ Len(m) \in Nat
      /\ DOMAIN m = 1..Len(m)
    BY Tuples, SeqFacts
<1>4. Steps(script) = Len(l) + Len(m)
    BY <1>2, <1>3
<1> HIDE DEF script
<1>5. k \in 0..Steps(script) /\ Perform("worker", script, k)
    BY <1>4 DEF Outcomes, script
<1>6. /\ ShardsGrow
      /\ \A q \in Processes \ {"worker"} : profile'[q] = profile[q] /\ base'[q] = base[q]
      /\ k < Steps(script) => Lost \in ToSet(profile'["worker"])
      /\ ToSet(base'["worker"]) \subseteq
            ToSet(base["worker"]) \cup ToSet(script.lead) \cup ToSet(script.trail) \cup {Lost}
      /\ \A i \in DOMAIN script.rows : Len(script.lead) + i <= k =>
            /\ script.rows[i] \in ToSet(profile'["worker"])
            /\ Len(profile["worker"]) + i <= Len(profile'["worker"])
      /\ \A i \in DOMAIN script.lead : i <= k => script.lead[i] \in ToSet(base'["worker"])
    BY <1>1, <1>2, <1>5, PerformFacts
<1>7. Lost \in ToSet(profile'["worker"]) => ~Lossless("worker")'
    BY DEF Lossless, ToSet
<1>8. \A item \in StartedTransfers' : item \in StartedTransfers \/ item \in ToSet(l)
    BY <1>2, <1>3, <1>6 DEF StartedTransfers, HasName, Lost
<1>9. NoPreemptRow
    BY <1>1, <1>6, SameEngineRows
<1>10. ASSUME NEW i \in DOMAIN m, Len(l) + i <= k
       PROVE  m[i] \in ToSet(profile'["worker"]) /\ NthRow("worker", i) \in Present(profile)'
    <2>1. /\ m[i] \in ToSet(profile'["worker"])
          /\ Len(profile["worker"]) + i <= Len(profile'["worker"])
        BY <1>2, <1>6, <1>10
    <2>2. /\ Len(profile["worker"]) \in Nat /\ Len(profile'["worker"]) \in Nat
          /\ DOMAIN profile'["worker"] = 1..Len(profile'["worker"])
        BY <1>1, <1>6, SeqFacts DEF ShardsOK, ShardsGrow, Grows
    <2>3. Len(profile["worker"]) + i \in DOMAIN profile'["worker"]
        BY <1>3, <2>1, <2>2
    <2> QED
        BY <1>1, <2>1, <2>3 DEF Present, NthRow
<1> QED
    BY <1>2, <1>4, <1>5, <1>6, <1>7, <1>8, <1>9, <1>10 DEF script

-----------------------------------------------------------------------------
(* The actions of the worker adapter *)

LEMMA TransferNotSubmittedKeeps ==
    ASSUME RecoveryInv, NEW context \in envelope, TransferNotSubmitted(context)
    PROVE  EvidenceInv'
<1> USE DEF RecoveryInv, EvidenceInv
<1>1. /\ UNCHANGED <<inflight, attempts, pending, closed, computes, episodes, epoch>>
      /\ UNCHANGED sinkVars /\ envelope' \subseteq envelope
    BY DEF TransferNotSubmitted, workerVars, hostVars, engineVars
<1>2. ShardsGrow /\ NoPreemptRow
    BY <1>1, SameSinks
<1>3. StartedTransfers' = StartedTransfers
    BY <1>1 DEF StartedTransfers, sinkVars
<1> QED
    BY <1>1, <1>2, <1>3, WorkerQuiet

LEMMA TransferUnobservedKeeps ==
    ASSUME RecoveryInv, NEW context \in envelope, TransferUnobserved(context)
    PROVE  EvidenceInv'
<1> USE DEF RecoveryInv, EvidenceInv
<1>1. /\ UNCHANGED <<inflight, attempts, pending, closed, computes, episodes, epoch>>
      /\ Dropped("worker", 1) /\ envelope' \subseteq envelope
    BY DEF TransferUnobserved, Failing, workerVars, hostVars, engineVars
<1>2. ShardsGrow /\ NoPreemptRow /\ StartedTransfers' = StartedTransfers
    BY <1>1, WorkerDrop
<1> QED
    BY <1>1, <1>2, WorkerQuiet

LEMMA CompletedAgainKeeps ==
    ASSUME RecoveryInv, NEW t, CompletedAgain(t)
    PROVE  EvidenceInv'
<1> USE DEF RecoveryInv, EvidenceInv
<1>1. /\ UNCHANGED <<inflight, attempts, closed, computes, episodes, epoch, envelope>>
      /\ Dropped("worker", 1) /\ pending' \subseteq pending
    BY DEF CompletedAgain, Drop, wireVars, hostVars, engineVars
<1>2. ShardsGrow /\ NoPreemptRow /\ StartedTransfers' = StartedTransfers
    BY <1>1, WorkerDrop
<1> QED
    BY <1>1, <1>2, WorkerQuiet

LEMMA TransferInvalidatedKeeps ==
    ASSUME RecoveryInv, NEW t, NEW context, TransferInvalidated(t, context)
    PROVE  EvidenceInv'
<1> USE DEF RecoveryInv, EvidenceInv
<1> DEFINE row == Transfer(context, t, "done", "cancelled")
<1>1. /\ UNCHANGED <<attempts, closed, computes, episodes, epoch, envelope>>
      /\ inflight' = inflight \ {<<t, context>>} /\ pending' \subseteq pending
    BY DEF TransferInvalidated, wireVars, hostVars, engineVars
<1>2. PICK k \in {0, 1} : Perform("worker", Script(<<>>, <<row>>, <<>>), k)
    BY DEF TransferInvalidated
<1>3. row.type = "transfer_event" /\ row.transfer = t /\ row.result = "cancelled"
    BY DEF Transfer
<1> HIDE DEF row
<1>4. /\ IsSeq(<<>>) /\ IsSeq(<<row>>) /\ Len(<<>>) = 0 /\ Len(<<row>>) = 1
      /\ DOMAIN <<row>> = {1} /\ <<row>>[1] = row /\ ToSet(<<>>) = {}
    BY Tuples
<1>5. k \in 0..(Len(<<>>) + Len(<<row>>))
    BY <1>4
<1>6. /\ ShardsGrow /\ NoPreemptRow
      /\ k < Len(<<>>) + Len(<<row>>) => ~Lossless("worker")'
      /\ \A item \in StartedTransfers' : item \in StartedTransfers \/ item \in ToSet(<<>>)
      /\ \A i \in DOMAIN <<row>> : Len(<<>>) + i <= k => <<row>>[i] \in ToSet(profile'["worker"])
    BY <1>2, <1>4, <1>5, WorkerScript
<1>7. StartedTransfers' \subseteq StartedTransfers
    BY <1>4, <1>6
<1>8. k = 1 => row \in ToSet(profile'["worker"])
    BY <1>4, <1>6
<1>9. k = 0 => ~Lossless("worker")'
    BY <1>4, <1>6
<1>10. \A x \in inflight : x \in inflight' \/ Leaves(x)'
    BY <1>1, <1>3, <1>8, <1>9 DEF Leaves
<1> QED
    BY <1>1, <1>6, <1>7, <1>10, WorkerQuiet

LEMMA WaitCompletedKeeps ==
    ASSUME RecoveryInv, WaitCompleted
    PROVE  EvidenceInv'
<1> USE DEF RecoveryInv, EvidenceInv
<1> DEFINE n == Cardinality(inflight)
           chunks == [i \in 1..ChunkCount(n) |-> Chunk("wait_set_chunk", None, n, i - 1)]
<1>1. UNCHANGED <<inflight, attempts, pending, closed, computes, episodes, epoch, envelope>>
    BY DEF WaitCompleted, workerVars, wireVars, hostVars, engineVars
<1>2. PICK k \in Outcomes("worker", Script(<<>>, chunks, <<>>)) :
            Perform("worker", Script(<<>>, chunks, <<>>), k)
    BY DEF WaitCompleted
<1>3. n \in Nat
    BY FS_CardinalityType DEF WorkerInv
<1>4. ChunkCount(n) \in Nat
    BY <1>3, ChunkCountNat
<1>5. DOMAIN chunks = 1..ChunkCount(n) /\ chunks = [i \in 1..ChunkCount(n) |-> chunks[i]]
    OBVIOUS
<1> HIDE DEF chunks, n
<1>6. IsSeq(chunks) /\ IsSeq(<<>>) /\ ToSet(<<>>) = {}
    BY <1>4, <1>5, FunctionIsSeq, Tuples
<1>7. /\ ShardsGrow /\ NoPreemptRow
      /\ \A item \in StartedTransfers' : item \in StartedTransfers \/ item \in ToSet(<<>>)
    BY <1>2, <1>6, WorkerScript
<1> QED
    BY <1>1, <1>6, <1>7, WorkerQuiet

LEMMA FirstComputeKeeps ==
    ASSUME RecoveryInv, NEW compute \in computes, FirstCompute(compute)
    PROVE  EvidenceInv'
<1> USE DEF RecoveryInv, EvidenceInv
<1> DEFINE row == [Recovery(compute.context, "first_prefill_or_decode", compute.admission,
                            compute.started, compute.transfer) EXCEPT !.kind = compute.kind]
<1>1. /\ UNCHANGED <<inflight, attempts, pending, closed, episodes, epoch, envelope>>
      /\ computes' = computes \ {compute}
    BY DEF FirstCompute, workerVars, hostVars, engineVars
<1>2. attempts \in Nat /\ IsFiniteSet(inflight)
    BY RecoveryAssumption DEF PlainTypeOK, WorkerInv
<1>3. CASE closed["worker"] = "committed" /\ UNCHANGED sinkVars
    <2>1. ShardsGrow /\ NoPreemptRow
        BY <1>3, SameSinks
    <2>2. StartedTransfers' = StartedTransfers
        BY <1>3 DEF StartedTransfers, sinkVars
    <2>3. WorkerInv'
        BY <1>1, <1>2, <2>1, <2>2, SpansStep
    <2> QED
        BY <1>1, <1>3, <2>1, <2>3, WorkerStep
<1>4. ASSUME NEW k \in Outcomes("worker", Script(<<>>, <<row>>, <<>>)),
             Perform("worker", Script(<<>>, <<row>>, <<>>), k)
      PROVE  EvidenceInv'
    <2>1. /\ row.type = "recovery_event" /\ row.stage = "first_prefill_or_decode"
          /\ row.context = compute.context
        BY DEF Recovery
    <2> HIDE DEF row
    <2>2. /\ IsSeq(<<>>) /\ IsSeq(<<row>>) /\ Len(<<>>) = 0 /\ Len(<<row>>) = 1
          /\ DOMAIN <<row>> = {1} /\ <<row>>[1] = row /\ ToSet(<<>>) = {}
        BY Tuples
    <2>3. /\ k \in 0..(Len(<<>>) + Len(<<row>>)) /\ ShardsGrow /\ NoPreemptRow
          /\ k < Len(<<>>) + Len(<<row>>) => ~Lossless("worker")'
          /\ \A item \in StartedTransfers' : item \in StartedTransfers \/ item \in ToSet(<<>>)
          /\ \A i \in DOMAIN <<row>> : Len(<<>>) + i <= k =>
                <<row>>[i] \in ToSet(profile'["worker"])
        BY <1>4, <2>2, WorkerScript
    <2>4. StartedTransfers' \subseteq StartedTransfers
        BY <2>2, <2>3
    <2>5. k = 0 \/ k = 1
        BY <2>2, <2>3
    <2>6. k = 1 => row \in ToSet(profile'["worker"])
        BY <2>2, <2>3
    <2>7. k = 1 => row \in StageOf("worker", "first_prefill_or_decode")'
        BY <2>1, <2>6 DEF StageOf
    <2>8. k = 0 => Lossy'
        BY <2>2, <2>3 DEF Lossy, Processes
    <2>9. WorkerInv'
        BY <1>1, <1>2, <2>3, <2>4, SpansStep
    <2> QED
        BY <1>1, <2>1, <2>3, <2>5, <2>7, <2>8, <2>9, WorkerStep
<1> QED
    BY <1>3, <1>4 DEF FirstCompute

LEMMA ReceiptExhaustedKeeps ==
    ASSUME RecoveryInv, NEW receipt \in receipts, ReceiptExhausted(receipt)
    PROVE  EvidenceInv'
<1> USE DEF RecoveryInv, EvidenceInv
<1>1. /\ UNCHANGED <<inflight, attempts, pending, closed, computes, episodes, epoch, envelope>>
      /\ base' = base
    BY DEF ReceiptExhausted, workerVars, hostVars, engineVars
<1>2. /\ DOMAIN profile' = Processes
      /\ \A p \in Processes : profile'[p] \in {profile[p], Append(profile[p], Lost)}
    BY DEF ReceiptExhausted
<1>3. ASSUME NEW s, IsSeq(s)
      PROVE  /\ Grows(s, s) /\ Grows(s, Append(s, Lost))
             /\ ToSet(Append(s, Lost)) \subseteq ToSet(s) \cup {Lost}
    <2>1. Len(s) \in Nat /\ DOMAIN s = 1..Len(s)
        BY <1>3, SeqFacts
    <2> DEFINE S == {s[i] : i \in DOMAIN s} \cup {Lost}
               u == Append(s, Lost)
    <2>2. s \in Seq(S) /\ Lost \in S
        BY <1>3 DEF IsSeq
    <2> HIDE DEF S
    <2>3. /\ u \in Seq(S) /\ Len(u) = Len(s) + 1
          /\ \A i \in 1..Len(s) : u[i] = s[i]
          /\ u[Len(s) + 1] = Lost
        BY <2>2
    <2> HIDE DEF u
    <2>4. IsSeq(u) /\ DOMAIN u = 1..(Len(s) + 1)
        BY <2>3, SeqOfSet
    <2>5. \A i \in DOMAIN u : i \in DOMAIN s \/ i = Len(s) + 1
        BY <2>1, <2>4
    <2>6. ToSet(u) \subseteq ToSet(s) \cup {Lost}
        BY <2>1, <2>3, <2>4, <2>5 DEF ToSet
    <2>7. Grows(s, s) /\ Grows(s, u)
        BY <1>3, <2>1, <2>3, <2>4 DEF Grows
    <2> QED
        BY <2>6, <2>7 DEF u
<1>4. ShardsGrow
    <2>1. \A p \in Processes : Grows(profile[p], profile'[p]) /\ Grows(base[p], base'[p])
        BY <1>1, <1>2, <1>3 DEF ShardsOK
    <2> QED
        BY <1>1, <1>2, <2>1 DEF ShardsGrow, ShardsOK
<1>5. NoPreemptRow
    <2>1. ToSet(profile'["engine"]) \subseteq ToSet(profile["engine"]) \cup {Lost}
        BY <1>2, <1>3 DEF ShardsOK, Processes
    <2> QED
        BY <2>1 DEF NoPreemptRow, Lost
<1>6. StartedTransfers' = StartedTransfers
    BY <1>1 DEF StartedTransfers
<1> QED
    BY <1>1, <1>4, <1>5, <1>6, WorkerQuiet

LEMMA WorkerEndKeeps ==
    ASSUME RecoveryInv, NEW disabled \in BOOLEAN,
           WorkerClose(disabled) \/ WorkerFailure(disabled)
    PROVE  EvidenceInv'
<1> USE DEF RecoveryInv, EvidenceInv
<1>1. /\ UNCHANGED <<attempts, computes, episodes, epoch, envelope>>
      /\ inflight' = {} /\ pending' = {} /\ closed["worker"] = "open"
      /\ \/ closed' = [closed EXCEPT !["worker"] = "closed"]
         \/ closed' = [closed EXCEPT !["worker"] = "committed"]
    BY DEF WorkerClose, WorkerFailure, WorkerOpen, wireVars, hostVars, engineVars
<1>2. /\ closed \in [Processes -> {"open", "closed", "committed"}] /\ "worker" \in Processes
      /\ "engine" \in Processes
    BY DEF PlainTypeOK, Processes
<1>3. closed'["engine"] = closed["engine"]
    BY <1>1, <1>2
<1>4. Cardinality(inflight) \in Nat /\ (inflight # {} => Cardinality(inflight) > 0)
    BY FS_CardinalityType, FS_EmptySet DEF WorkerInv
<1>5. PICK n \in Nat : /\ Dropped("worker", n)
                       /\ \/ n > 0 \/ inflight = {}
                          \/ closed'["worker"] = "committed"
    <2>1. CASE WorkerClose(disabled)
        <3>1. CASE disabled /\ inflight = {} /\ Lossless("worker")
            BY <2>1, <3>1 DEF WorkerClose, Drop
        <3>2. CASE ~(disabled /\ inflight = {} /\ Lossless("worker"))
            <4>1. Dropped("worker", Cardinality(inflight))
                BY <2>1, <3>2 DEF WorkerClose, Drop
            <4> QED
                BY <4>1, <1>4
        <3> QED
            BY <3>1, <3>2
    <2>2. CASE WorkerFailure(disabled)
        <3>1. closed'["worker"] = "committed"
            BY <2>2, <1>2 DEF WorkerFailure
        <3>2. Dropped("worker", 0) \/ Dropped("worker", 1)
            BY <2>2 DEF WorkerFailure, Drop
        <3> QED
            BY <3>1, <3>2
    <2> QED
        BY <2>1, <2>2
<1>6. /\ ShardsGrow /\ NoPreemptRow /\ StartedTransfers' = StartedTransfers
      /\ n > 0 => ~Lossless("worker")'
    <2>1. closed["worker"] # "committed"
        BY <1>1
    <2> QED
        BY <1>5, <2>1, WorkerDrop
<1>7. \A x \in inflight : Leaves(x)'
    BY <1>5, <1>6 DEF Leaves
<1> QED
    BY <1>1, <1>3, <1>6, <1>7, WorkerQuiet

\* What transfer_submitted writes: at most one started span, which is not one
\* of a preserving transfer.
LEMMA SubmitFacts ==
    ASSUME NEW t, NEW context, ContextOK(context)
    PROVE  \E l, m : /\ IsSeq(l) /\ IsSeq(m) /\ SubmitScript(t, context) = Script(l, m, <<>>)
                     /\ \A item \in ToSet(l) : HasName(item, "communication_started") =>
                            /\ item.transfer = t /\ item.start = t[2]
                            /\ context.op # "preserve"
                     /\ context.epoch # 0 => 2 \in DOMAIN m
<1> DEFINE started == NthBase("worker", 1)
           transfer == Transfer(context, t, "submit", "none")
           row == Recovery(context, "restore_start", context.preempt, started, t)
           start == Event("communication_started", context.request, context.epoch, context,
                          t, t[2], 0)
           edge == Edge(context.request, context.preempted, started, "h2d")
<1>1. start.transfer = t /\ start.start = t[2]
    BY DEF Event
<1>2. ~HasName(edge, "communication_started")
    BY DEF Edge, HasName
<1>3. SubmitScript(t, context) =
            CASE context.op = "preserve" -> Script(<<>>, <<transfer>>, <<>>)
              [] context.op # "preserve" /\ context.epoch = 0 ->
                    Script(<<start>>, <<transfer>>, <<>>)
              [] OTHER -> Script(<<start, edge>>, <<transfer, row>>, <<>>)
    BY DEF SubmitScript
<1> HIDE DEF transfer, row, start, edge, started
<1>4. CASE context.op = "preserve"
    <2>1. SubmitScript(t, context) = Script(<<>>, <<transfer>>, <<>>) /\ context.epoch = 0
        BY <1>3, <1>4 DEF ContextOK
    <2>2. IsSeq(<<>>) /\ IsSeq(<<transfer>>) /\ ToSet(<<>>) = {}
        BY Tuples
    <2> QED
        BY <2>1, <2>2
<1>5. CASE context.op # "preserve" /\ context.epoch = 0
    <2>1. SubmitScript(t, context) = Script(<<start>>, <<transfer>>, <<>>)
        BY <1>3, <1>5
    <2>2. IsSeq(<<start>>) /\ IsSeq(<<transfer>>) /\ ToSet(<<start>>) = {start}
        BY Tuples
    <2> QED
        BY <1>1, <1>5, <2>1, <2>2
<1>6. CASE context.op # "preserve" /\ context.epoch # 0
    <2>1. SubmitScript(t, context) = Script(<<start, edge>>, <<transfer, row>>, <<>>)
        BY <1>3, <1>6
    <2>2. /\ IsSeq(<<start, edge>>) /\ IsSeq(<<transfer, row>>)
          /\ ToSet(<<start, edge>>) = {start, edge} /\ 2 \in DOMAIN <<transfer, row>>
        BY Tuples
    <2> QED
        BY <1>1, <1>2, <1>6, <2>1, <2>2
<1> QED
    BY <1>4, <1>5, <1>6

LEMMA TransferSubmittedKeeps ==
    ASSUME RecoveryInv, NEW context \in envelope, TransferSubmitted(context)
    PROVE  EvidenceInv'
<1> USE DEF RecoveryInv, EvidenceInv
<1>0. PICK t : t = NextTransfer
    OBVIOUS
<1> DEFINE script == SubmitScript(t, context)
           entry == [transfer |-> t, started |-> NthBase("worker", 1),
                     row |-> IF context.epoch = 0 THEN None ELSE NthRow("worker", 2)]
<1>1. /\ UNCHANGED <<computes, episodes, epoch, closed>>
      /\ inflight' = inflight \cup {<<t, context>>} /\ attempts' = attempts + 1
      /\ envelope' \subseteq envelope
    BY <1>0 DEF TransferSubmitted, hostVars, engineVars
<1>2. PICK k \in Outcomes("worker", script) :
            /\ Perform("worker", script, k)
            /\ pending' = IF k < Steps(script) THEN pending ELSE pending \cup {entry}
    BY <1>0 DEF TransferSubmitted
<1>3. attempts \in Nat /\ ContextOK(context)
    BY RecoveryAssumption DEF PlainTypeOK, WorkerInv
<1>4. t = <<"worker", attempts + 1>>
    BY <1>0 DEF NextTransfer
<1>5. entry.row = IF context.epoch = 0 THEN None ELSE NthRow("worker", 2)
    OBVIOUS
<1> HIDE DEF entry, script
<1>6. PICK l, m :
        /\ IsSeq(l) /\ IsSeq(m) /\ script = Script(l, m, <<>>)
        /\ \A item \in ToSet(l) : HasName(item, "communication_started") =>
              item.transfer = t /\ item.start = t[2] /\ context.op # "preserve"
        /\ context.epoch # 0 => 2 \in DOMAIN m
    BY <1>3, SubmitFacts DEF script
<1>7. /\ k \in 0..(Len(l) + Len(m)) /\ Steps(Script(l, m, <<>>)) = Len(l) + Len(m)
      /\ ShardsGrow /\ NoPreemptRow
      /\ \A item \in StartedTransfers' : item \in StartedTransfers \/ item \in ToSet(l)
      /\ \A i \in DOMAIN m : Len(l) + i <= k => NthRow("worker", i) \in Present(profile)'
    BY <1>2, <1>6, WorkerScript
<1>8. Len(l) \in Nat /\ Len(m) \in Nat /\ DOMAIN m = 1..Len(m)
    BY <1>6, SeqFacts
<1>9. \A x \in pending' : x \in pending \/ x.row = None \/ x.row \in Present(profile)'
    <2>1. CASE k < Steps(script)
        BY <2>1, <1>2
    <2>2. CASE ~(k < Steps(script))
        <3>1. k = Len(l) + Len(m)
            BY <2>2, <1>6, <1>7, <1>8
        <3>2. context.epoch # 0 => Len(l) + 2 <= k
            BY <3>1, <1>6, <1>8
        <3>3. context.epoch # 0 => NthRow("worker", 2) \in Present(profile)'
            BY <3>2, <1>6, <1>7
        <3> QED
            BY <2>2, <3>3, <1>2, <1>5
    <2> QED
        BY <2>1, <2>2
<1>10. IsTransfer(t)' /\ t[2] > attempts /\ t[2] = attempts + 1
    <2>1. t[1] = "worker" /\ t[2] = attempts + 1 /\ t = <<t[1], t[2]>>
        BY <1>4
    <2>2. attempts + 1 \in 1..attempts' /\ attempts + 1 > attempts
        BY <1>1, <1>3
    <2> QED
        BY <2>1, <2>2 DEF IsTransfer
<1>11. ASSUME NEW item \in StartedTransfers', item \notin StartedTransfers
       PROVE  StartedOK(item)' /\ Explained(item)'
    <2>1. item.transfer = t /\ item.start = t[2] /\ context.op # "preserve"
        BY <1>6, <1>7, <1>11 DEF StartedTransfers
    <2>2. ASSUME NEW x \in inflight', x[1] = t PROVE x[2].op # "preserve"
        <3>1. CASE x \in inflight
            <4>1. IsTransfer(x[1])
                BY <3>1 DEF WorkerInv
            <4> QED
                BY <4>1, <2>2, <1>3, <1>10 DEF IsTransfer
        <3>2. CASE x = <<t, context>>
            BY <3>2, <2>1
        <3> QED
            BY <3>1, <3>2, <1>1
    <2>3. StartedOK(item)'
        BY <2>1, <2>2, <1>10 DEF StartedOK
    <2>4. Running(item)'
        <3>1. <<t, context>> \in inflight' /\ <<t, context>>[1] = item.transfer
            BY <2>1, <1>1
        <3> QED
            BY <3>1 DEF Running
    <2> QED
        BY <2>3, <2>4 DEF Explained
<1>12. IsFiniteSet(inflight')
    BY <1>1, FS_AddElement DEF WorkerInv
<1>13. attempts' \in Nat /\ attempts <= attempts'
    BY <1>1, <1>3
<1>14. \A x \in inflight' :
            x \in inflight \/ (IsTransfer(x[1])' /\ ContextOK(x[2]) /\ x[1][2] > attempts)
    <2>1. ASSUME NEW x \in inflight', x \notin inflight
          PROVE  IsTransfer(x[1])' /\ ContextOK(x[2]) /\ x[1][2] > attempts
        <3>1. x[1] = t /\ x[2] = context
            BY <2>1, <1>1
        <3> QED
            BY <3>1, <1>3, <1>10
    <2> QED
        BY <2>1
<1>15. WorkerInv'
    BY <1>1, <1>7, <1>11, <1>12, <1>13, <1>14, SpansStep
<1> QED
    BY <1>1, <1>7, <1>9, <1>15, WorkerStep

\* What a successful transfer_completed writes: it starts no span and, unless
\* the transfer preserves, ends the one of its transfer.
LEMMA DoneFacts ==
    ASSUME NEW entry, NEW context
    PROVE  \E l, m : /\ IsSeq(l) /\ IsSeq(m) /\ DoneScript(entry, context) = Script(l, m, <<>>)
                     /\ \A item \in ToSet(l) : ~HasName(item, "communication_started")
                     /\ context.op # "preserve" =>
                            /\ 1 \in DOMAIN l /\ HasName(l[1], "communication_done")
                            /\ l[1].end = entry.transfer[2]
<1> DEFINE t == entry.transfer
           transfer == Transfer(context, t, "done", "ok")
           done == Event("communication_done", context.request, context.epoch, context,
                         t, 0, t[2])
           edge == Edge(context.request, entry.started, NthBase("worker", 1), "program_order")
           row == Recovery(context, "restore_done", entry.row, NthBase("worker", 1), t)
<1>1. /\ HasName(done, "communication_done") /\ ~HasName(done, "communication_started")
      /\ done.end = entry.transfer[2] /\ ~HasName(edge, "communication_started")
    BY DEF Event, Edge, HasName
<1>2. DoneScript(entry, context) =
            CASE context.op = "preserve" -> Script(<<>>, <<transfer>>, <<>>)
              [] context.op # "preserve" /\ entry.row = None ->
                    Script(<<done, edge>>, <<transfer>>, <<>>)
              [] OTHER -> Script(<<done, edge>>, <<transfer, row>>, <<>>)
    BY DEF DoneScript
<1> HIDE DEF transfer, done, edge, row
<1>3. /\ IsSeq(<<>>) /\ ToSet(<<>>) = {} /\ IsSeq(<<transfer>>) /\ IsSeq(<<transfer, row>>)
      /\ IsSeq(<<done, edge>>) /\ ToSet(<<done, edge>>) = {done, edge}
      /\ 1 \in DOMAIN <<done, edge>> /\ <<done, edge>>[1] = done
    BY Tuples
<1>4. CASE context.op = "preserve"
    <2>1. DoneScript(entry, context) = Script(<<>>, <<transfer>>, <<>>)
        BY <1>2, <1>4
    <2> QED
        BY <2>1, <1>3, <1>4
<1>5. CASE context.op # "preserve" /\ entry.row = None
    <2>1. DoneScript(entry, context) = Script(<<done, edge>>, <<transfer>>, <<>>)
        BY <1>2, <1>5
    <2> QED
        BY <2>1, <1>1, <1>3
<1>6. CASE context.op # "preserve" /\ entry.row # None
    <2>1. DoneScript(entry, context) = Script(<<done, edge>>, <<transfer, row>>, <<>>)
        BY <1>2, <1>6
    <2> QED
        BY <2>1, <1>1, <1>3
<1> QED
    BY <1>4, <1>5, <1>6

LEMMA TransferCompletedKeeps ==
    ASSUME RecoveryInv, NEW t, NEW context, TransferCompleted(t, context)
    PROVE  EvidenceInv'
<1> USE DEF RecoveryInv, EvidenceInv
<1> DEFINE entries == {p \in pending : p.transfer = t}
           chosen == CHOOSE p \in entries : TRUE
<1>1. /\ UNCHANGED <<attempts, computes, episodes, epoch, closed, envelope>>
      /\ inflight' = inflight \ {<<t, context>>} /\ pending' \subseteq pending /\ WorkerOpen
    BY DEF TransferCompleted, hostVars, engineVars
<1>2. closed["worker"] # "committed"
    BY <1>1 DEF WorkerOpen
<1>3. CASE Dropped("worker", 1)
    <2>1. /\ ShardsGrow /\ NoPreemptRow /\ StartedTransfers' = StartedTransfers
          /\ ~Lossless("worker")'
        BY <1>2, <1>3, WorkerDrop
    <2>2. \A x \in inflight : x \in inflight' \/ Leaves(x)'
        BY <2>1 DEF Leaves
    <2> QED
        BY <1>1, <2>1, <2>2, WorkerQuiet
<1>4. ASSUME NEW entry \in entries, NEW k \in Outcomes("worker", DoneScript(entry, context)),
             Perform("worker", DoneScript(entry, context), k)
      PROVE  EvidenceInv'
    <2>1. entry.transfer = t
        OBVIOUS
    <2>2. PICK l, m :
            /\ IsSeq(l) /\ IsSeq(m) /\ DoneScript(entry, context) = Script(l, m, <<>>)
            /\ \A item \in ToSet(l) : ~HasName(item, "communication_started")
            /\ context.op # "preserve" => /\ 1 \in DOMAIN l /\ HasName(l[1], "communication_done")
                                          /\ l[1].end = entry.transfer[2]
        BY DoneFacts
    <2>3. /\ k \in 0..(Len(l) + Len(m)) /\ ShardsGrow /\ NoPreemptRow
          /\ k < Len(l) + Len(m) => ~Lossless("worker")'
          /\ \A item \in StartedTransfers' : item \in StartedTransfers \/ item \in ToSet(l)
          /\ \A i \in DOMAIN l : i <= k => l[i] \in ToSet(base'["worker"])
        BY <1>4, <2>2, WorkerScript
    <2>4. StartedTransfers' \subseteq StartedTransfers
        BY <2>2, <2>3 DEF StartedTransfers
    <2>5. Len(l) \in Nat /\ Len(m) \in Nat /\ DOMAIN l = 1..Len(l)
        BY <2>2, SeqFacts
    <2>6. k < Len(l) + Len(m) \/ k = Len(l) + Len(m)
        BY <2>3, <2>5
    <2>7. ASSUME k = Len(l) + Len(m), context.op # "preserve"
          PROVE  \E item \in ToSet(base'["worker"]) :
                    HasName(item, "communication_done") /\ item.end = t[2]
        <3>1. 1 <= k
            BY <2>2, <2>5, <2>7
        <3> QED
            BY <3>1, <2>1, <2>2, <2>3, <2>7
    <2>8. ASSUME NEW x \in inflight, x \notin inflight' PROVE Leaves(x)'
        <3>1. x[1] = t /\ x[2] = context
            BY <2>8, <1>1
        <3> QED
            BY <3>1, <2>3, <2>6, <2>7 DEF Leaves
    <2> QED
        BY <1>1, <2>3, <2>4, <2>8, WorkerQuiet
<1>5. entries # {} => chosen \in entries
    OBVIOUS
<1> QED
    BY <1>3, <1>4, <1>5 DEF TransferCompleted, Drop, Failing

-----------------------------------------------------------------------------
(* The plain part of the type invariant *)

RefusalStep == refusals' = refusals \/ (refusals < MaxRefusals /\ refusals' = refusals + 1)

PlanStep == ahead' \cup made' = ahead \cup made /\ ahead' \cap made' = {}

LEMMA PerformRefusal ==
    ASSUME NEW p, NEW script, NEW k, Perform(p, script, k)
    PROVE  RefusalStep
BY DEF Perform, RefusalStep

LEMMA DropRefusal ==
    ASSUME NEW p, NEW n, Drop(p, n) \/ Failing(p, n)
    PROVE  RefusalStep
BY DEF Drop, Failing, RefusalStep

LEMMA SameRefusal ==
    ASSUME UNCHANGED sinkVars
    PROVE  RefusalStep
BY DEF sinkVars, RefusalStep

LEMMA OccursPlan ==
    ASSUME PlainTypeOK, NEW step, Occurs(step)
    PROVE  PlanStep
BY DEF Occurs, PlanStep, PlainTypeOK

LEMMA SamePlan ==
    ASSUME PlainTypeOK, UNCHANGED planVars
    PROVE  PlanStep
BY DEF planVars, PlanStep, PlainTypeOK

Hosts == {"new", "waiting", "running", "preempted", "restoring", "admitting", "finished"}

HostStep == host' = host \/ \E r \in Requests, s \in Hosts : host' = [host EXCEPT ![r] = s]

EpochStep == epoch' = epoch
                \/ \E r \in Requests : epoch[r] < MaxEpoch /\ epoch' = [epoch EXCEPT ![r] = epoch[r] + 1]

ClosedStep == closed' = closed
                \/ \E p \in Processes, s \in {"closed", "committed"} : closed' = [closed EXCEPT ![p] = s]

AttemptStep == attempts' = attempts \/ (attempts' = attempts + 1 /\ attempts + 1 <= MaxTransfers)

LEMMA PlainStep ==
    ASSUME PlainTypeOK, HostStep, EpochStep, ClosedStep, AttemptStep, RefusalStep, PlanStep,
           known' \subseteq Requests
    PROVE  PlainTypeOK'
<1>1. {MaxEpoch, MaxTransfers, MaxRefusals} \subseteq Nat
    BY RecoveryAssumption
<1>2. host' \in [Requests -> Hosts]
    BY DEF HostStep, PlainTypeOK, Hosts
<1>3. epoch' \in [Requests -> 0..MaxEpoch]
    BY <1>1 DEF EpochStep, PlainTypeOK
<1>4. closed' \in [Processes -> {"open", "closed", "committed"}]
    BY DEF ClosedStep, PlainTypeOK
<1>5. attempts' \in 0..MaxTransfers /\ refusals' \in 0..MaxRefusals
    BY <1>1 DEF AttemptStep, RefusalStep, PlainTypeOK
<1>6. ahead' \cup made' \in Plans /\ ahead' \cap made' = {}
    BY DEF PlanStep, PlainTypeOK
<1> QED
    BY <1>2, <1>3, <1>4, <1>5, <1>6 DEF PlainTypeOK, Hosts

\* A step of the scheduler adapter.
LEMMA EnginePlain ==
    ASSUME PlainTypeOK, EngineNext
    PROVE  PlainTypeOK'
<1> USE DEF hostVars, engineVars, workerVars, wireVars, planVars, Hosts
<1>1. ASSUME NEW r \in Requests, RequestStarted(r) PROVE PlainTypeOK'
    <2>1. RefusalStep
        BY <1>1, PerformRefusal, SameRefusal DEF RequestStarted
    <2>2. /\ HostStep /\ EpochStep /\ ClosedStep /\ AttemptStep /\ known' \subseteq Requests
        BY <1>1 DEF RequestStarted, HostStep, EpochStep, ClosedStep, AttemptStep, PlainTypeOK,
                    sinkVars
    <2>3. PlanStep
        BY <1>1, SamePlan DEF RequestStarted
    <2> QED
        BY <2>1, <2>2, <2>3, PlainStep
<1>2. ASSUME NEW r \in Requests, RequestScheduled(r) PROVE PlainTypeOK'
    <2>1. RefusalStep
        BY <1>2, DropRefusal, SameRefusal DEF RequestScheduled
    <2>2. /\ HostStep /\ EpochStep /\ ClosedStep /\ AttemptStep /\ known' \subseteq Requests
        BY <1>2 DEF RequestScheduled, HostStep, EpochStep, ClosedStep, AttemptStep, PlainTypeOK
    <2>3. PlanStep
        BY <1>2, SamePlan DEF RequestScheduled
    <2> QED
        BY <2>1, <2>2, <2>3, PlainStep
<1>3. ASSUME NEW r \in Requests, RequestPreempted(r) PROVE PlainTypeOK'
    <2>1. RefusalStep
        BY <1>3, PerformRefusal, DropRefusal, SameRefusal DEF RequestPreempted
    <2>2. /\ HostStep /\ EpochStep /\ ClosedStep /\ AttemptStep /\ known' \subseteq Requests
        BY <1>3 DEF RequestPreempted, HostStep, EpochStep, ClosedStep, AttemptStep, PlainTypeOK
    <2>3. PlanStep
        BY <1>3, SamePlan DEF RequestPreempted
    <2> QED
        BY <2>1, <2>2, <2>3, PlainStep
<1>4. ASSUME NEW r \in Requests, PreemptedAgain(r) PROVE PlainTypeOK'
    <2>1. RefusalStep
        BY <1>4, DropRefusal, SameRefusal DEF PreemptedAgain
    <2>2. /\ HostStep /\ EpochStep /\ ClosedStep /\ AttemptStep /\ known' \subseteq Requests
        BY <1>4 DEF PreemptedAgain, HostStep, EpochStep, ClosedStep, AttemptStep, PlainTypeOK
    <2>3. PlanStep
        BY <1>4, OccursPlan DEF PreemptedAgain
    <2> QED
        BY <2>1, <2>2, <2>3, PlainStep
<1>5. ASSUME NEW r \in Requests, AdmissionStarted(r) PROVE PlainTypeOK'
    <2>1. RefusalStep
        BY <1>5, PerformRefusal, SameRefusal DEF AdmissionStarted
    <2>2. /\ HostStep /\ EpochStep /\ ClosedStep /\ AttemptStep /\ known' \subseteq Requests
        BY <1>5 DEF AdmissionStarted, HostStep, EpochStep, ClosedStep, AttemptStep, PlainTypeOK
    <2>3. PlanStep
        BY <1>5, SamePlan DEF AdmissionStarted
    <2> QED
        BY <2>1, <2>2, <2>3, PlainStep
<1>6. ASSUME NEW r \in Requests, RequestRequeued(r) PROVE PlainTypeOK'
    <2>1. RefusalStep
        BY <1>6, PerformRefusal DEF RequestRequeued
    <2>2. /\ HostStep /\ EpochStep /\ ClosedStep /\ AttemptStep /\ known' \subseteq Requests
        BY <1>6 DEF RequestRequeued, HostStep, EpochStep, ClosedStep, AttemptStep, PlainTypeOK
    <2>3. PlanStep
        BY <1>6, OccursPlan DEF RequestRequeued
    <2> QED
        BY <2>1, <2>2, <2>3, PlainStep
<1>7. ASSUME NEW r \in Requests, NEW kind, RequestAdmitted(r, kind) PROVE PlainTypeOK'
    <2>1. RefusalStep
        BY <1>7, PerformRefusal, SameRefusal DEF RequestAdmitted
    <2>2. /\ HostStep /\ EpochStep /\ ClosedStep /\ AttemptStep /\ known' \subseteq Requests
        BY <1>7 DEF RequestAdmitted, HostStep, EpochStep, ClosedStep, AttemptStep, PlainTypeOK
    <2>3. PlanStep
        BY <1>7, SamePlan DEF RequestAdmitted
    <2> QED
        BY <2>1, <2>2, <2>3, PlainStep
<1>8. ASSUME NEW r \in Requests, RequestTerminal(r) PROVE PlainTypeOK'
    <2>1. RefusalStep
        BY <1>8, DropRefusal DEF RequestTerminal, Abandoned
    <2>2. /\ HostStep /\ EpochStep /\ ClosedStep /\ AttemptStep /\ known' \subseteq Requests
        BY <1>8 DEF RequestTerminal, HostStep, EpochStep, ClosedStep, AttemptStep, PlainTypeOK
    <2>3. PlanStep
        BY <1>8, SamePlan DEF RequestTerminal
    <2> QED
        BY <2>1, <2>2, <2>3, PlainStep
<1>9. ASSUME NEW r \in Requests, NEW op, PrepareContext(r, op) PROVE PlainTypeOK'
    <2>1. RefusalStep
        BY <1>9, PerformRefusal, DropRefusal, SameRefusal
        DEF PrepareContext, PrepareUnassociated, PrepareRestore
    <2>2. /\ HostStep /\ EpochStep /\ ClosedStep /\ AttemptStep /\ known' \subseteq Requests
        BY <1>9 DEF PrepareContext, HostStep, EpochStep, ClosedStep, AttemptStep, PlainTypeOK
    <2>3. PlanStep
        BY <1>9, SamePlan, OccursPlan DEF PrepareContext
    <2> QED
        BY <2>1, <2>2, <2>3, PlainStep
<1>10. ASSUME NEW receipt, ConsumeReceipt(receipt) PROVE PlainTypeOK'
    <2>1. RefusalStep
        BY <1>10, DropRefusal, SameRefusal DEF ConsumeReceipt
    <2>2. /\ HostStep /\ EpochStep /\ ClosedStep /\ AttemptStep /\ known' \subseteq Requests
        BY <1>10 DEF ConsumeReceipt, HostStep, EpochStep, ClosedStep, AttemptStep, PlainTypeOK
    <2>3. PlanStep
        BY <1>10, SamePlan, OccursPlan DEF ConsumeReceipt
    <2> QED
        BY <2>1, <2>2, <2>3, PlainStep
<1>11. CASE EngineReset
    <2>1. RefusalStep
        BY <1>11, DropRefusal DEF EngineReset, Abandoned
    <2>2. /\ HostStep /\ EpochStep /\ ClosedStep /\ AttemptStep /\ known' \subseteq Requests
        BY <1>11 DEF EngineReset, HostStep, EpochStep, ClosedStep, AttemptStep, PlainTypeOK
    <2>3. PlanStep
        BY <1>11, OccursPlan DEF EngineReset
    <2> QED
        BY <2>1, <2>2, <2>3, PlainStep
<1>12. CASE EngineClose
    <2>1. RefusalStep
        BY <1>12, DropRefusal DEF EngineClose, Abandoned
    <2>2. /\ HostStep /\ EpochStep /\ AttemptStep /\ known' \subseteq Requests
        BY <1>12 DEF EngineClose, HostStep, EpochStep, AttemptStep, PlainTypeOK
    <2>3. ClosedStep
        BY <1>12 DEF EngineClose, ClosedStep, Processes
    <2>4. PlanStep
        BY <1>12, OccursPlan DEF EngineClose
    <2> QED
        BY <2>1, <2>2, <2>3, <2>4, PlainStep
<1> QED
    BY <1>1, <1>2, <1>3, <1>4, <1>5, <1>6, <1>7, <1>8, <1>9, <1>10, <1>11, <1>12
    DEF EngineNext

\* A step of the worker adapter.
LEMMA WorkerPlain ==
    ASSUME PlainTypeOK, WorkerNext
    PROVE  PlainTypeOK'
<1> USE DEF hostVars, engineVars, workerVars, wireVars, planVars, Hosts
<1>1. ASSUME NEW context, TransferSubmitted(context) PROVE PlainTypeOK'
    <2>1. RefusalStep
        BY <1>1, PerformRefusal DEF TransferSubmitted
    <2>2. /\ HostStep /\ EpochStep /\ ClosedStep /\ AttemptStep /\ known' \subseteq Requests
        BY <1>1 DEF TransferSubmitted, HostStep, EpochStep, ClosedStep, AttemptStep, PlainTypeOK, NextTransfer
    <2>4. PlanStep
        BY <1>1, SamePlan DEF TransferSubmitted
    <2> QED
        BY <2>1, <2>2, <2>4, PlainStep
<1>2. ASSUME NEW context, TransferNotSubmitted(context) PROVE PlainTypeOK'
    <2>1. RefusalStep
        BY <1>2, SameRefusal DEF TransferNotSubmitted
    <2>2. /\ HostStep /\ EpochStep /\ ClosedStep /\ AttemptStep /\ known' \subseteq Requests
        BY <1>2 DEF TransferNotSubmitted, HostStep, EpochStep, ClosedStep, AttemptStep, PlainTypeOK
    <2>4. PlanStep
        BY <1>2, SamePlan DEF TransferNotSubmitted
    <2> QED
        BY <2>1, <2>2, <2>4, PlainStep
<1>3. ASSUME NEW context, TransferUnobserved(context) PROVE PlainTypeOK'
    <2>1. RefusalStep
        BY <1>3, DropRefusal DEF TransferUnobserved
    <2>2. /\ HostStep /\ EpochStep /\ ClosedStep /\ AttemptStep /\ known' \subseteq Requests
        BY <1>3 DEF TransferUnobserved, HostStep, EpochStep, ClosedStep, AttemptStep, PlainTypeOK
    <2>4. PlanStep
        BY <1>3, SamePlan DEF TransferUnobserved
    <2> QED
        BY <2>1, <2>2, <2>4, PlainStep
<1>4. ASSUME NEW t, NEW context, TransferCompleted(t, context) PROVE PlainTypeOK'
    <2>1. RefusalStep
        BY <1>4, PerformRefusal, DropRefusal DEF TransferCompleted
    <2>2. /\ HostStep /\ EpochStep /\ ClosedStep /\ AttemptStep /\ known' \subseteq Requests
        BY <1>4 DEF TransferCompleted, HostStep, EpochStep, ClosedStep, AttemptStep, PlainTypeOK
    <2>4. PlanStep
        BY <1>4, SamePlan DEF TransferCompleted
    <2> QED
        BY <2>1, <2>2, <2>4, PlainStep
<1>5. ASSUME NEW t, NEW context, TransferInvalidated(t, context) PROVE PlainTypeOK'
    <2>1. RefusalStep
        BY <1>5, PerformRefusal DEF TransferInvalidated
    <2>2. /\ HostStep /\ EpochStep /\ ClosedStep /\ AttemptStep /\ known' \subseteq Requests
        BY <1>5 DEF TransferInvalidated, HostStep, EpochStep, ClosedStep, AttemptStep, PlainTypeOK
    <2>4. PlanStep
        BY <1>5, SamePlan DEF TransferInvalidated
    <2> QED
        BY <2>1, <2>2, <2>4, PlainStep
<1>6. ASSUME NEW receipt, ReceiptExhausted(receipt) PROVE PlainTypeOK'
    <2>1. RefusalStep
        BY <1>6 DEF ReceiptExhausted, RefusalStep
    <2>2. /\ HostStep /\ EpochStep /\ ClosedStep /\ AttemptStep /\ known' \subseteq Requests
        BY <1>6 DEF ReceiptExhausted, HostStep, EpochStep, ClosedStep, AttemptStep, PlainTypeOK
    <2>4. PlanStep
        BY <1>6, SamePlan DEF ReceiptExhausted
    <2> QED
        BY <2>1, <2>2, <2>4, PlainStep
<1>7. ASSUME NEW compute, FirstCompute(compute) PROVE PlainTypeOK'
    <2>1. RefusalStep
        BY <1>7, PerformRefusal, SameRefusal DEF FirstCompute
    <2>2. /\ HostStep /\ EpochStep /\ ClosedStep /\ AttemptStep /\ known' \subseteq Requests
        BY <1>7 DEF FirstCompute, HostStep, EpochStep, ClosedStep, AttemptStep, PlainTypeOK
    <2>4. PlanStep
        BY <1>7, SamePlan DEF FirstCompute
    <2> QED
        BY <2>1, <2>2, <2>4, PlainStep
<1>8. CASE WaitCompleted
    <2>1. RefusalStep
        BY <1>8, PerformRefusal DEF WaitCompleted
    <2>2. /\ HostStep /\ EpochStep /\ ClosedStep /\ AttemptStep /\ known' \subseteq Requests
        BY <1>8 DEF WaitCompleted, HostStep, EpochStep, ClosedStep, AttemptStep, PlainTypeOK
    <2>4. PlanStep
        BY <1>8, OccursPlan DEF WaitCompleted
    <2> QED
        BY <2>1, <2>2, <2>4, PlainStep
<1>9. ASSUME NEW disabled \in BOOLEAN, WorkerClose(disabled) PROVE PlainTypeOK'
    <2>1. RefusalStep
        BY <1>9, DropRefusal DEF WorkerClose
    <2>2. HostStep /\ EpochStep /\ AttemptStep /\ known' \subseteq Requests
        BY <1>9 DEF WorkerClose, HostStep, EpochStep, AttemptStep, PlainTypeOK
    <2>3. ClosedStep
        BY <1>9 DEF WorkerClose, ClosedStep, Processes
    <2>4. PlanStep
        BY <1>9, OccursPlan DEF WorkerClose
    <2> QED
        BY <2>1, <2>2, <2>3, <2>4, PlainStep
<1>10. ASSUME NEW disabled \in BOOLEAN, WorkerFailure(disabled) PROVE PlainTypeOK'
    <2>1. RefusalStep
        BY <1>10, DropRefusal DEF WorkerFailure
    <2>2. HostStep /\ EpochStep /\ AttemptStep /\ known' \subseteq Requests
        BY <1>10 DEF WorkerFailure, HostStep, EpochStep, AttemptStep, PlainTypeOK
    <2>3. ClosedStep
        BY <1>10 DEF WorkerFailure, ClosedStep, Processes
    <2>4. PlanStep
        BY <1>10, OccursPlan DEF WorkerFailure
    <2> QED
        BY <2>1, <2>2, <2>3, <2>4, PlainStep
<1>11. ASSUME NEW t, CompletedAgain(t) PROVE PlainTypeOK'
    <2>1. RefusalStep
        BY <1>11, DropRefusal DEF CompletedAgain
    <2>2. /\ HostStep /\ EpochStep /\ ClosedStep /\ AttemptStep /\ known' \subseteq Requests
        BY <1>11 DEF CompletedAgain, HostStep, EpochStep, ClosedStep, AttemptStep, PlainTypeOK
    <2>4. PlanStep
        BY <1>11, OccursPlan DEF CompletedAgain
    <2> QED
        BY <2>1, <2>2, <2>4, PlainStep
<1> QED
    BY <1>1, <1>2, <1>3, <1>4, <1>5, <1>6, <1>7, <1>8, <1>9, <1>10, <1>11
    DEF WorkerNext

-----------------------------------------------------------------------------
(* The invariant holds *)

LEMMA InitEstablishes ==
    ASSUME Init
    PROVE  RecoveryInv
<1> USE DEF Init
<1>1. {MaxEpoch, MaxTransfers, MaxRefusals} \subseteq Nat
    BY RecoveryAssumption
<1>2. PlainTypeOK
    BY <1>1 DEF PlainTypeOK, Processes
<1>3. /\ IsSeq(<<>>) /\ ToSet(<<>>) = {}
    BY Tuples
<1>4. ShardsOK
    BY <1>3 DEF ShardsOK
<1>5. Episodes = {} /\ Begun = {}
    BY DEF Episodes, Begun
<1>6. LinksOK
    BY <1>5 DEF LinksOK
<1>7. \A stage : StageOf("engine", stage) = {}
    BY <1>3 DEF StageOf, Processes
<1>8. EngineInv
    <2>1. EpisodesAccounted
        BY <1>7 DEF EpisodesAccounted
    <2>2. \A k \in Requests \X Epochs : EpisodeOK(k)
        BY DEF EpisodeOK
    <2> QED
        BY <1>5, <1>7, <2>1, <2>2 DEF EngineInv, Processes
<1>9. StartedTransfers = {}
    BY <1>3 DEF StartedTransfers, Processes
<1>10. WorkerInv
    BY <1>9, FS_EmptySet DEF WorkerInv, StartedSpansExplained
<1> QED
    BY <1>2, <1>4, <1>6, <1>8, <1>10 DEF RecoveryInv, EvidenceInv

LEMMA StutterKeeps ==
    ASSUME RecoveryInv, UNCHANGED vars
    PROVE  RecoveryInv'
<1> USE DEF RecoveryInv, EvidenceInv
<1>1. PlainTypeOK'
    BY DEF PlainTypeOK, vars
<1>2. UNCHANGED <<inflight, attempts, pending, closed, episodes, epoch, computes, envelope>>
    BY DEF vars
<1>3. UNCHANGED sinkVars /\ \A context \in envelope : ContextOK(context)
    BY DEF vars, sinkVars, WorkerInv
<1>4. EvidenceInv'
    BY <1>2, <1>3, SameSinks, EngineQuiet
<1> QED
    BY <1>1, <1>4

LEMMA NextKeeps ==
    ASSUME RecoveryInv, [Next]_vars
    PROVE  RecoveryInv'
<1>1. CASE EngineNext
    <2>1. PlainTypeOK'
        BY <1>1, EnginePlain DEF RecoveryInv
    <2>2. EvidenceInv'
        BY <1>1, EngineResetKeeps, EngineCloseKeeps, ConsumeReceiptKeeps, RequestStartedKeeps,
           RequestScheduledKeeps, RequestPreemptedKeeps, PreemptedAgainKeeps,
           AdmissionStartedKeeps, RequestRequeuedKeeps, RequestTerminalKeeps,
           PrepareContextKeeps, RequestAdmittedKeeps
        DEF EngineNext
    <2> QED
        BY <2>1, <2>2 DEF RecoveryInv
<1>2. CASE WorkerNext
    <2>1. PlainTypeOK'
        BY <1>2, WorkerPlain DEF RecoveryInv
    <2>2. EvidenceInv'
        BY <1>2, WaitCompletedKeeps, WorkerEndKeeps, TransferSubmittedKeeps,
           TransferNotSubmittedKeeps, TransferUnobservedKeeps, TransferCompletedKeeps,
           CompletedAgainKeeps, TransferInvalidatedKeeps, ReceiptExhaustedKeeps,
           FirstComputeKeeps
        DEF WorkerNext
    <2> QED
        BY <2>1, <2>2 DEF RecoveryInv
<1>3. CASE UNCHANGED vars
    BY <1>3, StutterKeeps
<1> QED
    BY <1>1, <1>2, <1>3 DEF Next, Rest

LEMMA InvariantExplains ==
    ASSUME RecoveryInv
    PROVE  NothingUnexplained
<1>1. TypeOK
    BY DEF TypeOK, RecoveryInv, EvidenceInv, PlainTypeOK, LinksOK
<1> QED
    BY <1>1 DEF RecoveryInv, EvidenceInv, EngineInv, WorkerInv, NothingUnexplained

\* Whatever is refused, repeated, migrated or arrives late, the shards of the two
\* processes account for every episode that has a "preempt" row and for every
\* communication span that was started: it is in progress, complete or cancelled,
\* or a shard shows a loss.  For every set of requests, every plan and every bound.
THEOREM EvidenceIsAccounted == Spec => []NothingUnexplained
<1>1. Init => RecoveryInv
    BY InitEstablishes
<1>2. RecoveryInv /\ [Next]_vars => RecoveryInv'
    BY NextKeeps
<1>3. RecoveryInv => NothingUnexplained
    BY InvariantExplains
<1> QED
    BY <1>1, <1>2, <1>3, PTL DEF Spec

-----------------------------------------------------------------------------
(* Behaviours without a failure lose nothing                               *)

\* Nothing has failed, was repeated or given up.
Clean ==
    /\ refusals = 0 /\ made \cap {"repeat", "migrate", "reset", "requeue_again"} = {}
    /\ \A p \in Processes : closed[p] = "open"
    /\ \A r \in Requests : host[r] # "finished"

KeyOf(context) == <<context.request, context.epoch>>

\* The events of an episode that the bridge has recorded.
IsIssued(x) == x = [preempted |-> x.preempted, admission |-> x.admission,
                    resumed |-> x.resumed, firstCompute |-> x.firstCompute]

IssuedOK == DOMAIN issued = Requests \X Epochs /\ \A k \in Requests \X Epochs : IsIssued(issued[k])

\* The context of the restore of an episode.
RestoreOf(context, k) == KeyOf(context) = k /\ context.op = "restore" /\ context.preempt # None

ReceiptOK(receipt) == receipt.context # None /\ receipt.transfer # None /\ receipt.row # None

\* What an episode holds is enough for the rows that come next.
EntryReady(k) ==
    /\ issued[k].preempted # None
    /\ episodes[k].context # None =>
          RestoreOf(episodes[k].context, k) /\ episodes[k].preempt # None
    /\ episodes[k].receipt # None =>
          ReceiptOK(episodes[k].receipt) /\ episodes[k].receipt.context = episodes[k].context
    /\ episodes[k].wakeup # None \/ episodes[k].admission =>
          episodes[k].receipt # None /\ episodes[k].predecessor # None
    /\ episodes[k].admission => issued[k].admission # None
    /\ "requeue" \notin made => episodes[k].occurrence = 0

EntriesReady == \A k \in Episodes : EntryReady(k)

\* A request has an identity, and a preempted one an episode without a context.
HostReady ==
    /\ \A r \in Requests : host[r] # "new" => r \in known
    /\ \A r \in Requests : host[r] = "preempted" =>
          <<r, epoch[r]>> \in Episodes /\ episodes[<<r, epoch[r]>>].context = None

\* An episode waits for the receipt of this context.
Awaited(context) ==
    /\ context # None /\ KeyOf(context) \in Episodes
    /\ episodes[KeyOf(context)].context = context
    /\ episodes[KeyOf(context)].receipt = None

\* The context of an episode is in one place: on its way to the worker, in
\* flight, or on its way back.
OnePlace ==
    /\ \A context \in envelope : context.epoch # 0 =>
          /\ Awaited(context)
          /\ \A x \in inflight : x[2] # context
          /\ \A receipt \in receipts : receipt.context # context
    /\ \A x \in inflight : x[2].epoch # 0 =>
          /\ Awaited(x[2])
          /\ \A y \in inflight : y[2] = x[2] => y = x
          /\ \A receipt \in receipts : receipt.context # x[2]
    /\ \A receipt \in receipts :
          /\ ReceiptOK(receipt) /\ Awaited(receipt.context)
          /\ \A other \in receipts : other.context = receipt.context => other = receipt

\* A transfer in flight has its attempt in _pending.
AttemptsPending ==
    /\ \A x, y \in inflight : x[1] = y[1] => x = y
    /\ \A x \in inflight : \E entry \in pending : entry.transfer = x[1]
    /\ \A x \in inflight, entry \in pending :
          entry.transfer = x[1] => (entry.row = None <=> x[2].epoch = 0)
    /\ \A entry \in pending : entry.transfer[2] \in 1..attempts

ComputesReady ==
    \A compute \in computes : /\ compute.admission # None /\ compute.started # None
                              /\ compute.transfer # None /\ compute.kind \in Kinds

Ready == /\ \A p \in Processes : Lossless(p)
         /\ IssuedOK /\ EntriesReady /\ HostReady /\ OnePlace /\ AttemptsPending /\ ComputesReady

CleanInv == Clean => Ready

-----------------------------------------------------------------------------
(* Rows that the builders accept *)

LEMMA PairIsSome == \A a, b : <<a, b>> # None
BY DEF None

LEMMA NthIsSome ==
    ASSUME NEW p, NEW n
    PROVE  NthBase(p, n) # None /\ NthRow(p, n) # None
BY PairIsSome DEF NthBase, NthRow

\* A script whose rows are all accepted is written to its end when nothing fails.
LEMMA CleanScript ==
    ASSUME ShardsOK, NEW p \in Processes, NEW l, NEW m, NEW n, IsSeq(l), IsSeq(m), IsSeq(n),
           NEW k \in 0..(Len(l) + Len(m) + Len(n)), Perform(p, Script(l, m, n), k),
           refusals = 0, refusals' = 0,
           \A i \in DOMAIN m : m[i].type # "loss" /\ ValidRow(m[i], p),
           \A q \in Processes : Lossless(q)
    PROVE  /\ k = Len(l) + Len(m) + Len(n)
           /\ \A q \in Processes : Lossless(q)'
<1> DEFINE script == Script(l, m, n)
<1>1. /\ script.lead = l /\ script.rows = m /\ script.trail = n
      /\ Steps(script) = Len(l) + Len(m) + Len(n)
    BY ScriptFacts
<1>2. Len(l) \in Nat /\ Len(m) \in Nat /\ Len(n) \in Nat /\ DOMAIN m = 1..Len(m)
    BY SeqFacts
<1> HIDE DEF script
<1>3. ~Rejected(p, script, k)
    BY <1>1 DEF Rejected, AtRow
<1>4. Perform(p, script, k)
    BY DEF script
<1>5. k = Len(l) + Len(m) + Len(n)
    BY <1>1, <1>2, <1>3, <1>4 DEF Perform
<1>6. profile' = [profile EXCEPT ![p] = profile[p] \o FirstOf(m, k - Len(l)) \o <<>>]
    <2>1. ~(k < Steps(script))
        BY <1>1, <1>2, <1>5
    <2>2. profile' = [profile EXCEPT ![p] = @ \o FirstOf(script.rows, k - Len(script.lead)) \o <<>>]
        BY <1>4, <2>1, Zenon DEF Perform
    <2> QED
        BY <2>2, <1>1
<1>7. IsSeq(FirstOf(m, k - Len(l))) /\ ToSet(FirstOf(m, k - Len(l))) \subseteq ToSet(m)
    BY <1>2, FirstOfFacts
<1>8. IsSeq(profile[p]) /\ DOMAIN profile = Processes
    BY DEF ShardsOK
<1>9. ToSet(profile'[p]) = ToSet(profile[p]) \cup ToSet(FirstOf(m, k - Len(l))) \cup ToSet(<<>>)
    <2> DEFINE f == FirstOf(m, k - Len(l))
               u == <<>>
    <2>1. profile'[p] = profile[p] \o f \o u
        BY <1>6, <1>8
    <2>2. IsSeq(f) /\ IsSeq(u)
        BY <1>7, LostTail
    <2> HIDE DEF f, u
    <2>3. ToSet(profile[p] \o f \o u) = ToSet(profile[p]) \cup ToSet(f) \cup ToSet(u)
        BY <1>8, <2>2, ConcatTwice
    <2>4. ToSet(profile'[p]) = ToSet(profile[p]) \cup ToSet(f) \cup ToSet(u)
        BY <2>1, <2>3
    <2> QED
        BY <2>4 DEF f, u
<1>10. Lost \notin ToSet(m)
    BY DEF ToSet, Lost
<1>11. Lost \notin ToSet(profile[p])
    BY LostInSet
<1>12. Lost \notin ToSet(profile'[p])
    BY <1>7, <1>9, <1>10, <1>11, LostTail
<1>13. Lossless(p)'
    BY <1>12 DEF Lossless, ToSet
<1>14. ASSUME NEW q \in Processes, q # p PROVE Lossless(q)'
    <2>1. profile'[q] = profile[q]
        BY <1>6, <1>8, <1>14
    <2> QED
        BY <2>1 DEF Lossless
<1> QED
    BY <1>5, <1>13, <1>14

\* A recovery row with what its stage requires.
LEMMA RecoveryValid ==
    ASSUME NEW context, NEW stage \in UniqueStages \ {"preempt", "admission", "first_prefill_or_decode"},
           NEW from, from # None, NEW b, NEW transfer, transfer # None,
           (b # None) = (stage \in BaseStages), NEW p
    PROVE  /\ ValidRow(Recovery(context, stage, from, b, transfer), p)
           /\ Recovery(context, stage, from, b, transfer).type # "loss"
<1> DEFINE row == Recovery(context, stage, from, b, transfer)
<1>1. /\ row.type = "recovery_event" /\ row.stage = stage /\ row.occurrence = 0
      /\ row.base = b /\ row.from = from /\ row.admission = None /\ row.transfer = transfer
      /\ row.bytes = (stage \notin {"preempt", "restore_start"})
      /\ row.reason = "none" /\ row.kind = "none"
    BY DEF Recovery
<1> HIDE DEF row
<1>2. ValidRecovery(row)
    BY <1>1 DEF ValidRecovery, UniqueStages, Stages
<1> QED
    BY <1>1, <1>2 DEF ValidRow, row

LEMMA PreemptValid ==
    ASSUME NEW context, NEW b, b # None, NEW p
    PROVE  /\ ValidRow(Recovery(context, "preempt", None, b, None), p)
           /\ Recovery(context, "preempt", None, b, None).type # "loss"
<1> DEFINE row == Recovery(context, "preempt", None, b, None)
<1>1. /\ row.type = "recovery_event" /\ row.stage = "preempt" /\ row.occurrence = 0
      /\ row.base = b /\ row.from = None /\ row.admission = None /\ row.transfer = None
      /\ row.bytes = ("preempt" \notin {"preempt", "restore_start"})
      /\ row.reason = "none" /\ row.kind = "none"
    BY DEF Recovery
<1> HIDE DEF row
<1>2. ValidRecovery(row)
    BY <1>1 DEF ValidRecovery, UniqueStages, Stages, BaseStages
<1> QED
    BY <1>1, <1>2 DEF ValidRow, row

LEMMA RequeueValid ==
    ASSUME NEW context, NEW from, from # None, NEW transfer, transfer # None, NEW p,
           NEW row, row = [Recovery(context, "requeue", from, None, transfer)
                              EXCEPT !.occurrence = 0, !.reason = "token_budget"]
    PROVE  ValidRow(row, p) /\ row.type # "loss"
<1>1. /\ row.type = "recovery_event" /\ row.stage = "requeue" /\ row.occurrence = 0
      /\ row.base = None /\ row.from = from /\ row.admission = None /\ row.transfer = transfer
      /\ row.bytes = ("requeue" \notin {"preempt", "restore_start"})
      /\ row.reason = "token_budget" /\ row.kind = "none"
    BY DEF Recovery
<1>2. MaxRequeueObservations \in Nat \ {0}
    BY ProfileAssumption
<1>3. ValidRecovery(row)
    BY <1>1, <1>2 DEF ValidRecovery, UniqueStages, Stages, BaseStages
<1> QED
    BY <1>1, <1>3 DEF ValidRow

LEMMA AdmissionValid ==
    ASSUME NEW context, NEW from, from # None, NEW transfer, transfer # None, NEW p,
           NEW b, b # None, NEW admission, admission # None,
           NEW row, row = [Recovery(context, "admission", from, b, transfer)
                              EXCEPT !.admission = admission]
    PROVE  ValidRow(row, p) /\ row.type # "loss"
<1>1. /\ row.type = "recovery_event" /\ row.stage = "admission" /\ row.occurrence = 0
      /\ row.base = b /\ row.from = from /\ row.admission = admission /\ row.transfer = transfer
      /\ row.bytes = ("admission" \notin {"preempt", "restore_start"})
      /\ row.reason = "none" /\ row.kind = "none"
    BY DEF Recovery
<1>2. ValidRecovery(row)
    BY <1>1 DEF ValidRecovery, UniqueStages, Stages, BaseStages
<1> QED
    BY <1>1, <1>2 DEF ValidRow

LEMMA FirstComputeValid ==
    ASSUME NEW context, NEW from, from # None, NEW transfer, transfer # None, NEW p,
           NEW b, b # None, NEW kind \in Kinds,
           NEW row, row = [Recovery(context, "first_prefill_or_decode", from, b, transfer)
                              EXCEPT !.kind = kind]
    PROVE  ValidRow(row, p) /\ row.type # "loss"
<1>1. /\ row.type = "recovery_event" /\ row.stage = "first_prefill_or_decode"
      /\ row.occurrence = 0
      /\ row.base = b /\ row.from = from /\ row.admission = None /\ row.transfer = transfer
      /\ row.bytes = ("first_prefill_or_decode" \notin {"preempt", "restore_start"})
      /\ row.reason = "none" /\ row.kind = kind
    BY DEF Recovery
<1>2. kind # "none"
    BY DEF Kinds
<1>3. ValidRecovery(row)
    BY <1>1, <1>2 DEF ValidRecovery, UniqueStages, Stages, BaseStages
<1> QED
    BY <1>1, <1>3 DEF ValidRow

LEMMA TransferValid ==
    ASSUME NEW context, NEW t, t[1] = "worker",
           NEW phase, NEW result,
           <<phase, result>> \in {<<"submit", "none">>, <<"done", "ok">>, <<"done", "cancelled">>}
    PROVE  /\ ValidRow(Transfer(context, t, phase, result), "worker")
           /\ Transfer(context, t, phase, result).type # "loss"
<1> DEFINE row == Transfer(context, t, phase, result)
<1>1. /\ row.type = "transfer_event" /\ row.transfer = t /\ row.phase = phase
      /\ row.result = result /\ row.bytes = (result = "ok")
    BY DEF Transfer
<1> HIDE DEF row
<1>2. ValidTransfer(row, "worker")
    BY <1>1 DEF ValidTransfer
<1> QED
    BY <1>1, <1>2 DEF ValidRow, row

\* Division by the size of a chunk.
LEMMA Division ==
    ASSUME NEW c \in Nat \ {0}, NEW q \in Nat
    PROVE  /\ (q * c) \div c = q
           /\ \A m \in Nat : m \div c = q <=> q * c <= m /\ m < (q + 1) * c
           /\ \A m \in Nat : q < (m + c - 1) \div c <=> q * c < m
OBVIOUS

\* Every chunk of a positive number of rows has some of them, and no more than
\* a chunk holds.
LEMMA ChunkValid ==
    ASSUME NEW type, type \notin {"recovery_event", "transfer_event", "loss"}, NEW context,
           NEW n \in Nat \ {0}, NEW i \in 1..ChunkCount(n), NEW p
    PROVE  /\ ValidRow(Chunk(type, context, n, i - 1), p)
           /\ Chunk(type, context, n, i - 1).type # "loss"
<1> DEFINE row == Chunk(type, context, n, i - 1)
           q == i - 1
           lot == ChunkMembers(n, q)
<1>1. /\ row.type = type /\ row.index = q /\ row.count = ChunkCount(n) /\ row.total = n
      /\ row.members = lot
    BY DEF Chunk
<1>2. ChunkSize \in Nat \ {0} /\ ChunkCount(n) \in Nat /\ q \in Nat /\ q < ChunkCount(n)
    BY ProfileAssumption, ChunkCountNat
<1>3. q * ChunkSize < n /\ q * ChunkSize \in Nat
    BY <1>2, Division DEF ChunkCount
<1>4. q * ChunkSize \in lot
    BY <1>2, <1>3, Division DEF ChunkMembers
<1>5. lot \subseteq (q * ChunkSize)..((q + 1) * ChunkSize - 1)
    BY <1>2, <1>3, Division DEF ChunkMembers
<1>6. Cardinality(lot) <= ChunkSize
    <2> DEFINE low == q * ChunkSize
               high == (q + 1) * ChunkSize - 1
    <2>1. low \in Int /\ high \in Int /\ high - low + 1 = ChunkSize /\ low <= high
        BY <1>2
    <2> HIDE DEF low, high
    <2>2. IsFiniteSet(low..high) /\ Cardinality(low..high) = ChunkSize
        BY <2>1, FS_Interval
    <2>3. Cardinality(lot) <= Cardinality(low..high)
        BY <1>5, <2>2, FS_Subset DEF low, high
    <2> QED
        BY <2>2, <2>3
<1>7. ValidChunk(row)
    BY <1>1, <1>2, <1>4, <1>6 DEF ValidChunk
<1> QED
    BY <1>1, <1>7 DEF ValidRow

-----------------------------------------------------------------------------
(* Steps between clean states *)

\* What a failure leaves is never taken back.
LEMMA CleanBefore ==
    ASSUME PlainTypeOK, RefusalStep, made \subseteq made',
           \A p \in Processes : closed'[p] = "open" => closed[p] = "open",
           \A r \in Requests : host[r] = "finished" => host'[r] = "finished",
           Clean'
    PROVE  Clean
<1>1. refusals \in Nat /\ refusals' = 0
    BY DEF PlainTypeOK, Clean
<1>2. refusals = 0
    BY <1>1 DEF RefusalStep
<1>3. made \cap {"repeat", "migrate", "reset", "requeue_again"} = {}
    BY DEF Clean
<1>4. \A p \in Processes : closed[p] = "open"
    BY DEF Clean
<1>5. \A r \in Requests : host[r] # "finished"
    BY DEF Clean
<1> QED
    BY <1>2, <1>3, <1>4, <1>5 DEF Clean

LEMMA EntriesStep ==
    ASSUME EntriesReady, made \subseteq made',
           \A k \in Requests \X Epochs : episodes'[k] # NoEpisode =>
                \/ EntryReady(k)'
                \/ episodes'[k] = episodes[k] /\ issued'[k] = issued[k]
    PROVE  EntriesReady'
<1> SUFFICES ASSUME NEW k \in Requests \X Epochs, episodes'[k] # NoEpisode,
                    episodes'[k] = episodes[k], issued'[k] = issued[k]
             PROVE  EntryReady(k)'
    BY DEF EntriesReady, Episodes
<1>1. EntryReady(k)
    BY DEF EntriesReady, Episodes
<1>2. "requeue" \notin made' => "requeue" \notin made
    OBVIOUS
<1> QED
    BY <1>1, <1>2 DEF EntryReady

\* An entry that waits for its receipt goes on waiting.
LEMMA AwaitedKept ==
    ASSUME \A k \in Episodes :
                episodes[k].context # None /\ episodes[k].receipt = None =>
                    /\ k \in Episodes' /\ episodes'[k].context = episodes[k].context
                    /\ episodes'[k].receipt = None
    PROVE  \A context : Awaited(context) => Awaited(context)'
<1> SUFFICES ASSUME NEW context, Awaited(context) PROVE Awaited(context)'
    OBVIOUS
<1> DEFINE k == KeyOf(context)
<1>1. k \in Episodes /\ episodes[k].context = context /\ episodes[k].receipt = None /\ context # None
    BY DEF Awaited
<1>2. /\ k \in Episodes' /\ episodes'[k].context = episodes[k].context
      /\ episodes'[k].receipt = None
    BY <1>1
<1>3. KeyOf(context)' = k
    BY DEF KeyOf
<1> QED
    BY <1>1, <1>2, <1>3 DEF Awaited

LEMMA OnePlaceStep ==
    ASSUME OnePlace, inflight' \subseteq inflight, receipts' \subseteq receipts,
           \A context \in envelope' : context.epoch # 0 =>
                /\ Awaited(context)'
                /\ \/ context \in envelope
                   \/ /\ \A x \in inflight : x[2] # context
                      /\ \A receipt \in receipts : receipt.context # context,
           \A x \in inflight' : x[2].epoch # 0 => Awaited(x[2])',
           \A receipt \in receipts' : Awaited(receipt.context)'
    PROVE  OnePlace'
<1>1. ASSUME NEW context \in envelope', context.epoch # 0
      PROVE  /\ Awaited(context)'
             /\ \A x \in inflight' : x[2] # context
             /\ \A receipt \in receipts' : receipt.context # context
    BY <1>1 DEF OnePlace
<1>2. ASSUME NEW x \in inflight', x[2].epoch # 0
      PROVE  /\ Awaited(x[2])'
             /\ \A y \in inflight' : y[2] = x[2] => y = x
             /\ \A receipt \in receipts' : receipt.context # x[2]
    BY <1>2 DEF OnePlace
<1>3. ASSUME NEW receipt \in receipts'
      PROVE  /\ ReceiptOK(receipt)' /\ Awaited(receipt.context)'
             /\ \A other \in receipts' : other.context = receipt.context => other = receipt
    BY <1>3 DEF OnePlace, ReceiptOK
<1> QED
    BY <1>1, <1>2, <1>3 DEF OnePlace

\* Episodes and the wire stay as they are.
LEMMA EvidenceSame ==
    ASSUME Ready, made \subseteq made',
           UNCHANGED <<issued, episodes, envelope, inflight, pending, receipts, computes, attempts>>
    PROVE  IssuedOK' /\ EntriesReady' /\ OnePlace' /\ AttemptsPending' /\ ComputesReady'
<1>1. IssuedOK' /\ AttemptsPending' /\ ComputesReady'
    BY DEF Ready, IssuedOK, IsIssued, AttemptsPending, ComputesReady
<1>2. EntriesReady'
    BY EntriesStep DEF Ready
<1>3. \A context : Awaited(context) => Awaited(context)'
    BY DEF Awaited, Episodes, KeyOf
<1>4. OnePlace'
    <2>1. OnePlace
        BY DEF Ready
    <2>2. /\ \A context \in envelope' : context.epoch # 0 =>
                Awaited(context)' /\ context \in envelope
          /\ \A x \in inflight' : x[2].epoch # 0 => Awaited(x[2])'
          /\ \A receipt \in receipts' : Awaited(receipt.context)'
        BY <1>3, <2>1 DEF OnePlace
    <2> QED
        BY <2>1, <2>2, OnePlaceStep
<1> QED
    BY <1>1, <1>2, <1>4

\* The requests: one moves on, and the episodes of preempted ones stay.
LEMMA HostStays ==
    ASSUME HostReady, known \subseteq known', NEW r \in Requests, DOMAIN host = Requests,
           NEW s, host' = [host EXCEPT ![r] = s], s # "preempted", r \in known',
           epoch' = epoch,
           \A q \in Requests \ {r} : host[q] = "preempted" =>
                <<q, epoch[q]>> \in Episodes'
                    /\ episodes'[<<q, epoch[q]>>].context = episodes[<<q, epoch[q]>>].context
    PROVE  HostReady'
<1>1. \A q \in Requests : host'[q] # "new" => q \in known'
    BY DEF HostReady
<1>2. ASSUME NEW q \in Requests, host'[q] = "preempted"
      PROVE  <<q, epoch'[q]>> \in Episodes' /\ episodes'[<<q, epoch'[q]>>].context = None
    <2>1. q # r /\ host[q] = "preempted"
        BY <1>2
    <2>2. episodes[<<q, epoch[q]>>].context = None
        BY <2>1 DEF HostReady
    <2> QED
        BY <2>1, <2>2
<1> QED
    BY <1>1, <1>2 DEF HostReady

LEMMA HostSame ==
    ASSUME HostReady, UNCHANGED <<host, known, epoch>>,
           \A q \in Requests : host[q] = "preempted" =>
                <<q, epoch[q]>> \in Episodes'
                    /\ episodes'[<<q, epoch[q]>>].context = episodes[<<q, epoch[q]>>].context
    PROVE  HostReady'
<1>1. \A q \in Requests : host'[q] # "new" => q \in known'
    BY DEF HostReady
<1>2. ASSUME NEW q \in Requests, host'[q] = "preempted"
      PROVE  <<q, epoch'[q]>> \in Episodes' /\ episodes'[<<q, epoch'[q]>>].context = None
    <2>1. host[q] = "preempted"
        BY <1>2
    <2>2. episodes[<<q, epoch[q]>>].context = None
        BY <2>1 DEF HostReady
    <2> QED
        BY <2>1, <2>2
<1> QED
    BY <1>1, <1>2 DEF HostReady

\* Nothing failed and both processes are open.
LEMMA CleanFacts ==
    ASSUME Clean
    PROVE  /\ refusals = 0 /\ EngineOpen /\ WorkerOpen
           /\ \A p \in Processes : closed[p] = "open"
BY DEF Clean, EngineOpen, WorkerOpen, Processes

LEMMA ReadyParts ==
    ASSUME \A p \in Processes : Lossless(p)', IssuedOK', EntriesReady', HostReady', OnePlace',
           AttemptsPending', ComputesReady'
    PROVE  Ready'
BY DEF Ready

LEMMA RequestStartedReady ==
    ASSUME RecoveryInv, Clean, Ready, Clean', NEW r \in Requests, RequestStarted(r)
    PROVE  Ready'
<1> DEFINE event == EngineEvent("queued", r, 0)
<1>1. refusals = 0 /\ refusals' = 0 /\ EngineOpen
    BY CleanFacts DEF Clean
<1>2. PICK k \in {0, 1} :
            /\ Perform("engine", Script(<<event>>, <<>>, <<>>), k)
            /\ known' = IF k = 1 THEN known \cup {r} ELSE known
    BY <1>1 DEF RequestStarted
<1>3. /\ UNCHANGED <<issued, episodes, envelope, inflight, pending, receipts, computes,
                     attempts, made, epoch>>
      /\ host' = [host EXCEPT ![r] = "waiting"]
    BY DEF RequestStarted, workerVars, wireVars, planVars
<1> HIDE DEF event
<1>4. k = 1 /\ \A q \in Processes : Lossless(q)'
    <2>1. /\ IsSeq(<<event>>) /\ IsSeq(<<>>) /\ Len(<<event>>) = 1 /\ Len(<<>>) = 0
          /\ DOMAIN <<>> = {}
        BY Tuples
    <2> DEFINE l == <<event>>
               n == <<>>
    <2>2. /\ IsSeq(l) /\ IsSeq(n) /\ Len(l) = 1 /\ Len(n) = 0 /\ DOMAIN n = {}
          /\ Perform("engine", Script(l, n, n), k)
        BY <1>2, <2>1
    <2> HIDE DEF l, n
    <2>3. k \in 0..(Len(l) + Len(n) + Len(n)) /\ "engine" \in Processes
        BY <2>2 DEF Processes
    <2>4. ShardsOK /\ \A q \in Processes : Lossless(q)
        BY DEF RecoveryInv, EvidenceInv, Ready
    <2>5. k = Len(l) + Len(n) + Len(n) /\ \A q \in Processes : Lossless(q)'
        BY <1>1, <2>2, <2>3, <2>4, CleanScript
    <2> QED
        BY <2>2, <2>5
<1>5. IssuedOK' /\ EntriesReady' /\ OnePlace' /\ AttemptsPending' /\ ComputesReady'
    BY <1>3, EvidenceSame
<1>6. HostReady'
    <2>1. HostReady /\ DOMAIN host = Requests
        BY DEF Ready, RecoveryInv, PlainTypeOK
    <2>2. known' = known \cup {r}
        BY <1>2, <1>4
    <2>3. \A q \in Requests : host[q] = "preempted" => <<q, epoch[q]>> \in Episodes
        BY <2>1 DEF HostReady
    <2>4. Episodes' = Episodes
        BY <1>3 DEF Episodes
    <2> QED
        BY <1>3, <2>1, <2>2, <2>3, <2>4, HostStays
<1> QED
    BY <1>4, <1>5, <1>6, ReadyParts

LEMMA RequestScheduledReady ==
    ASSUME RecoveryInv, Clean, Ready, Clean', NEW r \in Requests, RequestScheduled(r)
    PROVE  Ready'
<1>1. refusals = 0 /\ refusals' = 0 /\ EngineOpen
    BY CleanFacts DEF Clean
<1>2. r \in known
    BY DEF Ready, HostReady, RequestScheduled
<1>3. UNCHANGED sinkVars
    BY <1>1, <1>2 DEF RequestScheduled, Failing
<1>4. /\ UNCHANGED <<known, issued, episodes, envelope, inflight, pending, receipts, computes,
                     attempts, made, epoch>>
      /\ host' = [host EXCEPT ![r] = "running"]
    BY DEF RequestScheduled, workerVars, wireVars, planVars, engineVars
<1>5. IssuedOK' /\ EntriesReady' /\ OnePlace' /\ AttemptsPending' /\ ComputesReady'
    BY <1>4, EvidenceSame
<1>6. HostReady'
    <2>1. HostReady /\ DOMAIN host = Requests
        BY DEF Ready, RecoveryInv, PlainTypeOK
    <2>3. \A q \in Requests : host[q] = "preempted" => <<q, epoch[q]>> \in Episodes
        BY <2>1 DEF HostReady
    <2>4. Episodes' = Episodes
        BY <1>4 DEF Episodes
    <2> QED
        BY <1>2, <1>4, <2>1, <2>3, <2>4, HostStays
<1>7. \A p \in Processes : Lossless(p)'
    BY <1>3 DEF Ready, Lossless, sinkVars
<1> QED
    BY <1>5, <1>6, <1>7, ReadyParts

\* A script of the open scheduler or worker adapter between clean states.
LEMMA ReadyScript ==
    ASSUME RecoveryInv, Clean, Ready, Clean', NEW p \in Processes,
           NEW l, NEW m, NEW n, IsSeq(l), IsSeq(m), IsSeq(n),
           NEW k \in 0..Steps(Script(l, m, n)), Perform(p, Script(l, m, n), k),
           \A i \in DOMAIN m : m[i].type # "loss" /\ ValidRow(m[i], p)
    PROVE  /\ k = Len(l) + Len(m) + Len(n) /\ k = Steps(Script(l, m, n))
           /\ \A q \in Processes : Lossless(q)'
<1>1. ShardsOK /\ refusals = 0 /\ refusals' = 0 /\ \A q \in Processes : Lossless(q)
    BY DEF RecoveryInv, EvidenceInv, Ready, Clean
<1>2. Steps(Script(l, m, n)) = Len(l) + Len(m) + Len(n)
    BY ScriptFacts
<1>3. k \in 0..(Len(l) + Len(m) + Len(n))
    BY <1>2
<1> QED
    BY <1>1, <1>2, <1>3, CleanScript

\* What holds of an entry of _episodes.
LEMMA EntryFacts ==
    ASSUME RecoveryInv, Ready, NEW k \in Episodes
    PROVE  /\ k \in Requests \X Epochs /\ episodes[k] # NoEpisode
           /\ DOMAIN episodes = Requests \X Epochs /\ DOMAIN issued = Requests \X Epochs
           /\ IsEpisode(episodes[k]) /\ IsIssued(issued[k]) /\ k[2] <= epoch[k[1]]
           /\ EntryReady(k)
BY DEF RecoveryInv, EvidenceInv, EngineInv, EpisodeOK, Ready, IssuedOK, EntriesReady, Episodes

\* Fields of the record of issued events.
LEMMA WithIssued ==
    ASSUME NEW x, IsIssued(x), NEW v, NEW y
    PROVE  /\ y = [x EXCEPT !.preempted = v] => IsIssued(y) /\ y.preempted = v
           /\ y = [x EXCEPT !.admission = v] =>
                    IsIssued(y) /\ y.admission = v /\ y.preempted = x.preempted
<1> DEFINE Fields == {"preempted", "admission", "resumed", "firstCompute"}
<1>1. \A z : IsIssued(z) <=> z = [f \in Fields |-> z[f]]
    BY DEF IsIssued
<1>2. x = [f \in Fields |-> x[f]]
    BY <1>1
<1>3. ASSUME y = [x EXCEPT !.preempted = v]
      PROVE  y = [f \in Fields |-> y[f]] /\ y["preempted"] = v
    BY <1>2, <1>3
<1>4. ASSUME y = [x EXCEPT !.admission = v]
      PROVE  y = [f \in Fields |-> y[f]] /\ y["admission"] = v /\ y["preempted"] = x["preempted"]
    BY <1>2, <1>4
<1> QED
    BY <1>1, <1>3, <1>4

LEMMA WithIssuedBoth ==
    ASSUME NEW x, IsIssued(x), NEW v, NEW w, NEW y,
           y = [x EXCEPT !.resumed = v, !.firstCompute = w]
    PROVE  IsIssued(y)
<1> DEFINE Fields == {"preempted", "admission", "resumed", "firstCompute"}
<1>1. \A z : IsIssued(z) <=> z = [f \in Fields |-> z[f]]
    BY DEF IsIssued
<1>2. x = [f \in Fields |-> x[f]]
    BY <1>1
<1>3. y = [f \in Fields |-> y[f]]
    BY <1>2
<1> QED
    BY <1>1, <1>3

\* A preempted episode that has just begun.
LEMMA FreshReady ==
    ASSUME NEW r, NEW e
    PROVE  LET f == FreshEpisode(r, e) IN
           /\ f.context = None /\ f.receipt = None /\ f.wakeup = None /\ ~f.admission
           /\ f.occurrence = 0
BY DEF FreshEpisode

LEMMA RequestPreemptedReady ==
    ASSUME RecoveryInv, Clean, Ready, Clean', NEW r \in Requests, RequestPreempted(r)
    PROVE  Ready'
<1>0. PICK e : e = epoch[r] + 1
    OBVIOUS
<1> DEFINE key == <<r, e>>
           event == EngineEvent("preempted", r, e - 1)
<1>1. refusals = 0 /\ refusals' = 0 /\ EngineOpen
    BY CleanFacts DEF Clean
<1>2. r \in known
    BY DEF Ready, HostReady, RequestPreempted
<1>3. PICK k \in {0, 1} :
            /\ Perform("engine", Script(<<event>>, <<>>, <<>>), k)
            /\ IF k = 1
               THEN /\ episodes' = Superseded(r, e)
                    /\ issued' = [issued EXCEPT ![key].preempted = NthBase("engine", 1)]
               ELSE UNCHANGED <<issued, episodes>>
    BY <1>0, <1>1, <1>2 DEF RequestPreempted
<1>4. /\ UNCHANGED <<known, envelope, inflight, pending, receipts, computes, attempts, made>>
      /\ host' = [host EXCEPT ![r] = "preempted"]
      /\ epoch' = [epoch EXCEPT ![r] = e]
      /\ epoch[r] < MaxEpoch
    BY <1>0 DEF RequestPreempted, workerVars, wireVars, planVars
<1>5. epoch \in [Requests -> 0..MaxEpoch] /\ DOMAIN host = Requests /\ MaxEpoch \in Nat
    BY RecoveryAssumption DEF RecoveryInv, PlainTypeOK
<1>6. e \in Epochs /\ key \in Requests \X Epochs /\ epoch' [r] = e
    BY <1>0, <1>4, <1>5 DEF Epochs
<1>7. k = 1 /\ \A q \in Processes : Lossless(q)'
    <2> HIDE DEF event
    <2> DEFINE l == <<event>>
               n == <<>>
    <2>1. /\ IsSeq(l) /\ IsSeq(n) /\ Len(l) = 1 /\ Len(n) = 0 /\ DOMAIN n = {}
          /\ Perform("engine", Script(l, n, n), k)
        BY <1>3, Tuples
    <2> HIDE DEF l, n
    <2>2. k \in 0..(Len(l) + Len(n) + Len(n)) /\ "engine" \in Processes
        BY <2>1 DEF Processes
    <2>5. k \in 0..Steps(Script(l, n, n))
        BY <2>1, <2>2, ScriptFacts
    <2>3. k = Len(l) + Len(n) + Len(n) /\ \A q \in Processes : Lossless(q)'
        BY <2>1, <2>2, <2>5, ReadyScript
    <2> QED
        BY <2>1, <2>3
<1>8. episodes' = Superseded(r, e) /\ issued' = [issued EXCEPT ![key].preempted = NthBase("engine", 1)]
    BY <1>3, <1>7
<1>9. \A k1 \in Episodes : k1 # key
    <2> SUFFICES ASSUME key \in Episodes PROVE FALSE
        OBVIOUS
    <2>1. key[2] <= epoch[key[1]]
        BY EntryFacts
    <2> QED
        BY <1>0, <2>1, <1>5
<1>10. DOMAIN episodes = Requests \X Epochs /\ DOMAIN issued = Requests \X Epochs
       /\ IsIssued(issued[key])
    BY <1>6 DEF RecoveryInv, EvidenceInv, EngineInv, Ready, IssuedOK
<1> HIDE DEF key
<1>11. /\ episodes'[key] = FreshEpisode(r, e)
       /\ \A x \in Requests \X Epochs : x # key =>
            \/ episodes'[x] = episodes[x]
            \/ episodes'[x] = NoEpisode /\ x \in EpisodesOf(r) /\ x \notin Begun
    BY <1>6, <1>8, <1>10 DEF Superseded, key
<1>12. /\ DOMAIN issued' = Requests \X Epochs
       /\ \A x \in Requests \X Epochs : x # key => issued'[x] = issued[x]
       /\ issued'[key] = [issued[key] EXCEPT !.preempted = NthBase("engine", 1)]
    BY <1>6, <1>8, <1>10
<1>13. IsIssued(issued'[key]) /\ issued'[key].preempted # None
    <2> DEFINE v == NthBase("engine", 1)
    <2>1. v # None /\ issued'[key] = [issued[key] EXCEPT !.preempted = v]
        BY <1>12, NthIsSome
    <2> HIDE DEF v
    <2> QED
        BY <1>10, <2>1, WithIssued
<1>14. IssuedOK'
    <2>1. \A x \in Requests \X Epochs : IsIssued(issued[x])
        BY DEF Ready, IssuedOK
    <2>2. \A x \in Requests \X Epochs : IsIssued(issued'[x])
        BY <1>12, <1>13, <2>1
    <2> QED
        BY <1>12, <2>2 DEF IssuedOK, IsIssued
<1>15. EntryReady(key)'
    <2> DEFINE f == episodes'[key]
    <2>1. f.context = None /\ f.receipt = None /\ f.wakeup = None /\ ~f.admission /\ f.occurrence = 0
        BY <1>11, FreshReady
    <2> QED
        BY <1>13, <2>1 DEF EntryReady
<1>16. EntriesReady'
    <2>1. EntriesReady
        BY DEF Ready
    <2> QED
        BY <1>4, <1>11, <1>12, <1>15, <2>1, EntriesStep
<1>17. HostReady'
    <2>1. HostReady
        BY DEF Ready
    <2>2. \A q \in Requests : host'[q] # "new" => q \in known'
        BY <1>2, <1>4, <1>5, <2>1 DEF HostReady
    <2>3. ASSUME NEW q \in Requests, host'[q] = "preempted"
          PROVE  <<q, epoch'[q]>> \in Episodes' /\ episodes'[<<q, epoch'[q]>>].context = None
        <3>1. CASE q = r
            <4>1. <<q, epoch'[q]>> = key
                BY <1>6, <3>1 DEF key
            <4>2. episodes'[key] # NoEpisode
                <5>1. IsEpisode(FreshEpisode(r, e)) /\ ~FreshEpisode(r, e).admission
                    BY FreshIsEpisode
                <5>2. FreshEpisode(r, e).at = "preempted" /\ NoEpisode.at = "none"
                    BY DEF FreshEpisode, NoEpisode
                <5> QED
                    BY <1>11, <5>2
            <4>3. FreshEpisode(r, e).context = None
                BY FreshReady
            <4> QED
                BY <1>6, <1>11, <4>1, <4>2, <4>3 DEF Episodes
        <3>2. CASE q # r
            <4>1. host[q] = "preempted" /\ epoch'[q] = epoch[q]
                BY <1>4, <1>5, <2>3, <3>2
            <4> DEFINE x == <<q, epoch[q]>>
            <4>2. x \in Episodes /\ episodes[x].context = None
                BY <2>1, <4>1 DEF HostReady
            <4>3. x \notin EpisodesOf(r) /\ x # key
                BY <3>2 DEF EpisodesOf, key
            <4>4. x \in Requests \X Epochs /\ episodes[x] # NoEpisode
                BY <4>2 DEF Episodes
            <4> HIDE DEF x
            <4>5. episodes'[x] = episodes[x]
                BY <1>11, <4>3, <4>4
            <4>6. x \in Episodes' /\ episodes'[x].context = None
                BY <4>2, <4>4, <4>5 DEF Episodes
            <4> QED
                BY <4>1, <4>6 DEF x
        <3> QED
            BY <3>1, <3>2
    <2> QED
        BY <2>2, <2>3 DEF HostReady
<1>18. OnePlace'
    <2>1. ASSUME NEW x \in Episodes, episodes[x].context # None, episodes[x].receipt = None
          PROVE  /\ x \in Episodes' /\ episodes'[x].context = episodes[x].context
                 /\ episodes'[x].receipt = None
        <3>1. x \in Requests \X Epochs /\ episodes[x] # NoEpisode /\ episodes[x].preempt # None
            BY <2>1, EntryFacts DEF EntryReady
        <3>2. x \in Begun /\ x # key
            BY <1>9, <3>1 DEF Begun
        <3>3. episodes'[x] = episodes[x]
            BY <1>11, <3>1, <3>2
        <3> QED
            BY <2>1, <3>1, <3>3 DEF Episodes
    <2>2. \A context : Awaited(context) => Awaited(context)'
        BY <2>1, AwaitedKept
    <2>3. OnePlace
        BY DEF Ready
    <2> QED
        BY <1>4, <2>2, <2>3, OnePlaceStep DEF OnePlace
<1>19. AttemptsPending' /\ ComputesReady'
    BY <1>4 DEF Ready, AttemptsPending, ComputesReady
<1> QED
    BY <1>7, <1>14, <1>16, <1>17, <1>18, <1>19, ReadyParts

\* The entry of one episode changes.
LEMMA OneEntryReady ==
    ASSUME EntriesReady, NEW key \in Requests \X Epochs, made \subseteq made',
           \A x \in Requests \X Epochs : x # key =>
                episodes'[x] = episodes[x] /\ issued'[x] = issued[x],
           episodes'[key] = NoEpisode \/ EntryReady(key)'
    PROVE  EntriesReady'
BY EntriesStep

\* An episode that holds no context or a receipt is not the one a context awaits.
LEMMA OneEntryAwaited ==
    ASSUME NEW key \in Requests \X Epochs,
           \A x \in Requests \X Epochs : x # key => episodes'[x] = episodes[x],
           episodes[key].context = None \/ episodes[key].receipt # None
    PROVE  \A context : Awaited(context) => Awaited(context)'
<1>1. ASSUME NEW x \in Episodes, episodes[x].context # None, episodes[x].receipt = None
      PROVE  /\ x \in Episodes' /\ episodes'[x].context = episodes[x].context
             /\ episodes'[x].receipt = None
    <2>1. x # key /\ x \in Requests \X Epochs /\ episodes[x] # NoEpisode
        BY <1>1 DEF Episodes
    <2>2. episodes'[x] = episodes[x]
        BY <2>1
    <2> QED
        BY <1>1, <2>1, <2>2 DEF Episodes
<1> QED
    BY <1>1, AwaitedKept

\* Episodes change, and no transfer or receipt moves.
LEMMA WireSame ==
    ASSUME OnePlace, UNCHANGED <<envelope, inflight, receipts>>,
           \A context : Awaited(context) => Awaited(context)'
    PROVE  OnePlace'
<1>1. /\ \A context \in envelope' : context.epoch # 0 =>
                Awaited(context)' /\ context \in envelope
      /\ \A x \in inflight' : x[2].epoch # 0 => Awaited(x[2])'
      /\ \A receipt \in receipts' : Awaited(receipt.context)'
    BY DEF OnePlace
<1> QED
    BY <1>1, OnePlaceStep

LEMMA BlockChunksValid ==
    ASSUME NEW context, NEW p, NEW i \in DOMAIN BlockChunks(context)
    PROVE  BlockChunks(context)[i].type # "loss" /\ ValidRow(BlockChunks(context)[i], p)
<1>1. Blocks \in Nat \ {0}
    BY ProfileAssumption
<1>2. /\ i \in 1..ChunkCount(Blocks)
      /\ BlockChunks(context)[i] = Chunk("block_set_chunk", context, Blocks, i - 1)
    BY DEF BlockChunks
<1> QED
    BY <1>1, <1>2, ChunkValid

LEMMA PrepareUnassociatedReady ==
    ASSUME RecoveryInv, Clean, Ready, Clean', NEW r, NEW op, PrepareUnassociated(r, op),
           UNCHANGED <<host, known, epoch, issued, episodes, inflight, pending, receipts,
                       computes, attempts>>,
           made \subseteq made'
    PROVE  Ready'
<1> DEFINE context == [request |-> r, epoch |-> 0, op |-> op, preempted |-> None,
                       preempt |-> None]
           m == BlockChunks(context)
           l == <<>>
<1>1. context.epoch = 0
    OBVIOUS
<1> HIDE DEF context
<1>2. PICK k \in Outcomes("engine", Script(l, m, l)) :
            /\ Perform("engine", Script(l, m, l), k)
            /\ envelope' = IF k = Steps(Script(l, m, l)) THEN envelope \cup {context} ELSE envelope
    BY DEF PrepareUnassociated, context
<1>3. /\ IsSeq(l) /\ IsSeq(m) /\ k \in 0..Steps(Script(l, m, l)) /\ "engine" \in Processes
      /\ \A i \in DOMAIN m : m[i].type # "loss" /\ ValidRow(m[i], "engine")
    BY <1>2, Tuples, BlockChunksFacts, BlockChunksValid DEF Outcomes, Processes
<1> HIDE DEF l, m
<1>4. \A q \in Processes : Lossless(q)'
    BY <1>2, <1>3, ReadyScript
<1>5. IssuedOK' /\ AttemptsPending' /\ ComputesReady'
    BY DEF Ready, IssuedOK, IsIssued, AttemptsPending, ComputesReady
<1>6. EntriesReady'
    BY EntriesStep DEF Ready
<1>7. HostReady'
    <2>1. HostReady /\ Episodes' = Episodes
        BY DEF Ready, Episodes
    <2>2. \A q \in Requests : host[q] = "preempted" => <<q, epoch[q]>> \in Episodes
        BY <2>1 DEF HostReady
    <2> QED
        BY <2>1, <2>2, HostSame
<1>8. OnePlace'
    <2>1. OnePlace /\ \A c : Awaited(c) => Awaited(c)'
        BY DEF Ready, Awaited, KeyOf, Episodes
    <2>2. \A c \in envelope' : c \in envelope \/ c.epoch = 0
        BY <1>1, <1>2
    <2>3. /\ \A c \in envelope' : c.epoch # 0 => Awaited(c)' /\ c \in envelope
          /\ \A x \in inflight' : x[2].epoch # 0 => Awaited(x[2])'
          /\ \A receipt \in receipts' : Awaited(receipt.context)'
        BY <2>1, <2>2 DEF OnePlace
    <2> QED
        BY <2>1, <2>3, OnePlaceStep
<1> QED
    BY <1>4, <1>5, <1>6, <1>7, <1>8, ReadyParts

\* A key and a context that a clean step uses, as values that stay.
LEMMA PrepareRestoreReady ==
    ASSUME RecoveryInv, Clean, Ready, Clean', NEW r \in Requests, NEW key \in EpisodesOf(r),
           episodes[key].context = None, PrepareRestore(r, key),
           UNCHANGED <<known, epoch, issued, inflight, pending, receipts, computes, attempts>>,
           made \subseteq made',
           host' = [host EXCEPT ![r] = "restoring"], host[r] = "preempted"
    PROVE  Ready'
<1> DEFINE link == NthRow("engine", 1)
           whole == [request |-> r, epoch |-> key[2], op |-> "restore",
                     preempted |-> issued[key].preempted, preempt |-> link]
<1>1. PICK context : context = whole
    OBVIOUS
<1> DEFINE row == Recovery([context EXCEPT !.preempt = None], "preempt", None,
                           issued[key].preempted, None)
           chunks == BlockChunks(context)
           m == <<row>> \o chunks
           l == <<>>
<1>2. /\ context.request = r /\ context.epoch = key[2] /\ context.op = "restore"
      /\ context.preempt = link /\ context # None /\ link # None
    BY <1>1, NthIsSome DEF None
<1>3. PICK k \in Outcomes("engine", Script(l, m, l)) :
            /\ Perform("engine", Script(l, m, l), k)
            /\ IF k = 0
               THEN episodes' = [episodes EXCEPT ![key] = NoEpisode]
               ELSE episodes' = [episodes EXCEPT
                        ![key].preempt = context.preempt,
                        ![key].context = IF k = Steps(Script(l, m, l)) THEN context ELSE None]
            /\ envelope' = IF k = Steps(Script(l, m, l)) THEN envelope \cup {context} ELSE envelope
    BY <1>1 DEF PrepareRestore
<1>4. key \in Requests \X Epochs /\ key[1] = r /\ key = <<r, key[2]>> /\ key \in Episodes
    BY DEF EpisodesOf, Episodes
<1>5. /\ episodes[key] # NoEpisode /\ IsEpisode(episodes[key]) /\ EntryReady(key)
      /\ DOMAIN episodes = Requests \X Epochs
    BY <1>4, EntryFacts
<1>6. row.type # "loss" /\ ValidRow(row, "engine")
    BY <1>5, PreemptValid DEF EntryReady
<1>7. IsSeq(chunks) /\ \A i \in DOMAIN chunks : chunks[i].type # "loss" /\ ValidRow(chunks[i], "engine")
    BY BlockChunksFacts, BlockChunksValid
<1> HIDE DEF row, chunks, link, whole
<1>8. IsSeq(m) /\ Len(m) \in Nat \ {0} /\ \A i \in DOMAIN m : m[i].type # "loss" /\ ValidRow(m[i], "engine")
    <2> DEFINE s == <<row>>
    <2>1. IsSeq(s) /\ Len(s) = 1 /\ DOMAIN s = {1} /\ s[1] = row
        BY Tuples
    <2> HIDE DEF s
    <2>2. Len(chunks) \in Nat /\ DOMAIN chunks = 1..Len(chunks)
        BY <1>7, SeqFacts
    <2>3. /\ IsSeq(s \o chunks) /\ Len(s \o chunks) = Len(s) + Len(chunks)
          /\ DOMAIN (s \o chunks) = 1..(Len(s) + Len(chunks))
          /\ \A i \in 1..Len(s) : (s \o chunks)[i] = s[i]
          /\ \A i \in 1..Len(chunks) : (s \o chunks)[Len(s) + i] = chunks[i]
        <3>1. IsSeq(s) /\ IsSeq(chunks)
            BY <2>1, <1>7
        <3> QED
            BY <3>1, ConcatFacts
    <2> DEFINE t == s \o chunks
    <2> HIDE DEF t
    <2>4. ASSUME NEW i \in DOMAIN t PROVE t[i].type # "loss" /\ ValidRow(t[i], "engine")
        <3>1. CASE i = 1
            BY <3>1, <2>1, <2>3, <1>6 DEF t
        <3>2. CASE i # 1
            <4> DEFINE j == i - 1
            <4>1. j \in 1..Len(chunks) /\ i = 1 + j
                BY <3>2, <2>1, <2>2, <2>3 DEF t
            <4>2. t[i] = chunks[j]
                BY <4>1, <2>1, <2>3 DEF t
            <4> QED
                BY <4>1, <4>2, <2>2, <1>7
        <3> QED
            BY <3>1, <3>2
    <2>5. m = t
        BY DEF t, s
    <2>6. IsSeq(t) /\ Len(t) \in Nat \ {0}
        BY <2>1, <2>2, <2>3 DEF t
    <2> QED
        BY <2>4, <2>5, <2>6
<1>9. IsSeq(l) /\ Len(l) = 0
    BY Tuples
<1> HIDE DEF l, m
<1>10. k \in 0..Steps(Script(l, m, l)) /\ "engine" \in Processes
    BY <1>3 DEF Outcomes, Processes
<1>11. /\ \A q \in Processes : Lossless(q)'
       /\ k = Steps(Script(l, m, l)) /\ k # 0
    BY <1>3, <1>8, <1>9, <1>10, ReadyScript
<1>12. envelope' = envelope \cup {context}
    BY <1>3, <1>11
<1>13. /\ \A x \in Requests \X Epochs : x # key => episodes'[x] = episodes[x]
       /\ episodes'[key] = [episodes[key] EXCEPT !.preempt = context.preempt, !.context = context]
       /\ DOMAIN episodes' = Requests \X Epochs
    BY <1>3, <1>4, <1>5, <1>11
<1>14. /\ IsEpisode(episodes'[key]) /\ episodes'[key].preempt = context.preempt
       /\ episodes'[key].context = context /\ episodes'[key].receipt = episodes[key].receipt
       /\ episodes'[key].wakeup = episodes[key].wakeup
       /\ episodes'[key].admission = episodes[key].admission
       /\ episodes'[key].occurrence = episodes[key].occurrence
    <2> DEFINE e == episodes[key]
               f == episodes'[key]
               v == context.preempt
    <2>1. IsEpisode(e) /\ f = [e EXCEPT !.preempt = v, !.context = context]
        BY <1>5, <1>13
    <2> HIDE DEF e, f, v
    <2>2. e = [x \in EntryFields |-> e[x]] /\ e.at = "preempted"
        BY <2>1, EntryIsFunction
    <2>3. f = [x \in EntryFields |-> f[x]]
        BY <2>1, <2>2
    <2>4. f.at = e.at /\ f.receipt = e.receipt /\ f.wakeup = e.wakeup
        BY <2>1, <2>2 DEF EntryFields
    <2>5. f.occurrence = e.occurrence
        BY <2>1, <2>2 DEF EntryFields
    <2>6. f.admission = e.admission
        BY <2>1, <2>2 DEF EntryFields
    <2>7. f.preempt = v
        BY <2>1, <2>2 DEF EntryFields
    <2>8. f.context = context
        BY <2>1, <2>2 DEF EntryFields
    <2>9. IsEpisode(f)
        BY <2>2, <2>3, <2>4, EntryIsFunction
    <2> QED
        BY <2>4, <2>5, <2>6, <2>7, <2>8, <2>9 DEF e, f, v
<1>15. /\ episodes[key].receipt = None /\ episodes[key].wakeup = None /\ ~episodes[key].admission
       /\ issued[key].preempted # None /\ ("requeue" \notin made => episodes[key].occurrence = 0)
    BY <1>5 DEF EntryReady, ReceiptOK
<1>16. EntryReady(key)'
    <2>1. RestoreOf(context, key)
        BY <1>2, <1>4 DEF RestoreOf, KeyOf
    <2>2. RestoreOf(context, key)'
        BY <2>1 DEF RestoreOf, KeyOf
    <2> QED
        BY <1>2, <1>14, <1>15, <2>2 DEF EntryReady
<1>17. EntriesReady'
    BY <1>4, <1>13, <1>16, OneEntryReady DEF Ready
<1>18. \A c : Awaited(c) => Awaited(c)'
    BY <1>4, <1>13, OneEntryAwaited
<1>19. Awaited(context)'
    <2>1. episodes'[key] # NoEpisode
        <3>1. episodes'[key].at = "preempted" /\ NoEpisode.at = "none"
            BY <1>14 DEF IsEpisode, NoEpisode
        <3> QED
            BY <3>1
    <2>2. KeyOf(context) = key
        BY <1>2, <1>4 DEF KeyOf
    <2>3. key \in Episodes'
        BY <2>1, <1>4 DEF Episodes
    <2> QED
        BY <1>2, <1>14, <1>15, <2>2, <2>3 DEF Awaited, KeyOf
<1>20. OnePlace'
    <2>1. OnePlace
        BY DEF Ready
    <2>2. key[2] # 0
        BY <1>4 DEF Epochs
    <2>3. ~Awaited(context)
        <3>1. KeyOf(context) = key
            BY <1>2, <1>4 DEF KeyOf
        <3> QED
            BY <3>1, <1>2 DEF Awaited
    <2>4. /\ \A x \in inflight : x[2] # context
          /\ \A receipt \in receipts : receipt.context # context
        BY <1>2, <2>1, <2>2, <2>3 DEF OnePlace
    <2>5. \A c \in envelope' : c.epoch # 0 =>
                /\ Awaited(c)'
                /\ \/ c \in envelope
                   \/ /\ \A x \in inflight : x[2] # c
                      /\ \A receipt \in receipts : receipt.context # c
        BY <1>12, <1>18, <1>19, <2>1, <2>4 DEF OnePlace
    <2>6. /\ \A x \in inflight' : x[2].epoch # 0 => Awaited(x[2])'
          /\ \A receipt \in receipts' : Awaited(receipt.context)'
        BY <1>18, <2>1 DEF OnePlace
    <2> QED
        BY <2>1, <2>5, <2>6, OnePlaceStep
<1>21. HostReady'
    <2>1. HostReady /\ DOMAIN host = Requests
        BY DEF Ready, RecoveryInv, PlainTypeOK
    <2>2. r \in known
        BY <2>1 DEF HostReady
    <2>3. ASSUME NEW q \in Requests \ {r}, host[q] = "preempted"
          PROVE  <<q, epoch[q]>> \in Episodes'
                    /\ episodes'[<<q, epoch[q]>>].context = episodes[<<q, epoch[q]>>].context
        <3> DEFINE x == <<q, epoch[q]>>
        <3>1. x \in Episodes /\ x # key
            BY <1>4, <2>1, <2>3 DEF HostReady
        <3> HIDE DEF x
        <3>2. x \in Requests \X Epochs /\ episodes[x] # NoEpisode /\ episodes'[x] = episodes[x]
            BY <1>13, <3>1 DEF Episodes
        <3>3. x \in Episodes' /\ episodes'[x].context = episodes[x].context
            BY <3>2 DEF Episodes
        <3> QED
            BY <3>3 DEF x
    <2> QED
        BY <2>1, <2>2, <2>3, HostStays
<1>22. IssuedOK' /\ AttemptsPending' /\ ComputesReady'
    BY DEF Ready, IssuedOK, IsIssued, AttemptsPending, ComputesReady
<1> QED
    BY <1>11, <1>17, <1>20, <1>21, <1>22, ReadyParts

LEMMA PrepareContextReady ==
    ASSUME RecoveryInv, Clean, Ready, Clean', NEW r \in Requests,
           NEW op \in {"restore", "preserve"}, PrepareContext(r, op)
    PROVE  Ready'
<1>1. refusals = 0 /\ refusals' = 0 /\ EngineOpen
    BY CleanFacts DEF Clean
<1>2. r \in known
    BY DEF Ready, HostReady, PrepareContext
<1>3. UNCHANGED <<epoch, known, issued, inflight, pending, attempts, receipts, computes>>
    BY DEF PrepareContext, workerVars
<1>4. CASE op = "restore" /\ host[r] = "preempted" /\ host' = [host EXCEPT ![r] = "restoring"]
           /\ UNCHANGED planVars
    <2> DEFINE own == <<r, epoch[r]>>
    <2>1. own \in Episodes /\ episodes[own].context = None
        BY <1>4 DEF Ready, HostReady
    <2>2. own \in EpisodesOf(r)
        BY <2>1 DEF EpisodesOf
    <2>3. PICK key \in EpisodesOf(r) :
            /\ \A k \in EpisodesOf(r) : k[2] <= key[2]
            /\ IF episodes[key].context # None
               THEN Drop("engine", 1) /\ UNCHANGED <<episodes, envelope>>
               ELSE PrepareRestore(r, key)
        BY <1>1, <1>2, <1>4, <2>2 DEF PrepareContext
    <2>4. key = own
        <3>1. key \in Episodes /\ key[1] = r /\ key \in Requests \X Epochs
            BY DEF EpisodesOf, Episodes
        <3>2. key[2] <= epoch[key[1]]
            BY <3>1, EntryFacts
        <3>3. epoch[r] <= key[2]
            BY <2>2, <2>3
        <3>4. epoch[r] \in Nat /\ key[2] \in Nat /\ key = <<key[1], key[2]>>
            BY <3>1 DEF RecoveryInv, PlainTypeOK, Epochs
        <3> QED
            BY <3>1, <3>2, <3>3, <3>4
    <2>5. episodes[key].context = None
        BY <2>1, <2>4
    <2>6. PrepareRestore(r, key) /\ made \subseteq made'
        BY <2>3, <2>5, <1>4 DEF planVars
    <2> HIDE DEF own
    <2> QED
        BY <1>3, <1>4, <2>5, <2>6, PrepareRestoreReady
<1>5. CASE host[r] = "running" /\ Occurs(IF op = "restore" THEN "migrate" ELSE "preserve")
           /\ UNCHANGED host
    <2>1. op = "preserve"
        <3>1. op = "restore" => "migrate" \in made'
            BY <1>5 DEF Occurs
        <3> QED
            BY <3>1 DEF Clean
    <2>2. made \subseteq made'
        BY <1>5 DEF Occurs
    <2>3. PrepareUnassociated(r, op) /\ UNCHANGED episodes
        BY <1>1, <1>2, <2>1 DEF PrepareContext
    <2> QED
        BY <1>3, <1>5, <2>2, <2>3, PrepareUnassociatedReady
<1> QED
    BY <1>4, <1>5 DEF PrepareContext

LEMMA ConsumeReceiptReady ==
    ASSUME RecoveryInv, Clean, Ready, Clean', NEW receipt \in receipts, ConsumeReceipt(receipt)
    PROVE  Ready'
<1> DEFINE key == KeyOf(receipt.context)
<1>1. refusals = 0 /\ EngineOpen
    BY CleanFacts
<1>2. OnePlace
    BY DEF Ready
<1>3. ReceiptOK(receipt) /\ Awaited(receipt.context)
    BY <1>2 DEF OnePlace
<1>4. /\ key \in Episodes /\ episodes[key].context = receipt.context
      /\ episodes[key].receipt = None /\ receipt.context # None
    BY <1>3 DEF Awaited
<1>5. Accepts(receipt)
    BY <1>4 DEF Accepts, KeyOf
<1>6. "repeat" \notin made'
    BY DEF Clean
<1>7. receipts' = receipts \ {receipt} /\ made' = made
    BY <1>6 DEF ConsumeReceipt, Occurs, planVars
<1>8. episodes' = [episodes EXCEPT ![key].receipt = receipt] /\ UNCHANGED sinkVars
    BY <1>1, <1>5 DEF ConsumeReceipt, KeyOf
<1>9. UNCHANGED <<host, epoch, known, issued, inflight, pending, attempts, envelope, computes>>
    BY DEF ConsumeReceipt, hostVars, workerVars
<1>10. /\ key \in Requests \X Epochs /\ episodes[key] # NoEpisode /\ IsEpisode(episodes[key])
       /\ EntryReady(key) /\ DOMAIN episodes = Requests \X Epochs
    BY <1>4, EntryFacts
<1> HIDE DEF key
<1>11. /\ \A x \in Requests \X Epochs : x # key => episodes'[x] = episodes[x]
       /\ episodes'[key] = [episodes[key] EXCEPT !.receipt = receipt]
    BY <1>8, <1>10
<1>12. /\ IsEpisode(episodes'[key]) /\ episodes'[key].receipt = receipt
       /\ episodes'[key].preempt = episodes[key].preempt
       /\ episodes'[key].context = episodes[key].context
       /\ episodes'[key].wakeup = episodes[key].wakeup
       /\ episodes'[key].predecessor = episodes[key].predecessor
       /\ episodes'[key].admission = episodes[key].admission
       /\ episodes'[key].occurrence = episodes[key].occurrence
    <2> DEFINE e == episodes[key]
               f == episodes'[key]
    <2>1. IsEpisode(e) /\ f = [e EXCEPT !.receipt = receipt]
        BY <1>10, <1>11
    <2> HIDE DEF e, f
    <2>2. e = [x \in EntryFields |-> e[x]] /\ e.at = "preempted"
        BY <2>1, EntryIsFunction
    <2>3. f = [x \in EntryFields |-> f[x]]
        BY <2>1, <2>2
    <2>4. f.at = e.at /\ f.preempt = e.preempt /\ f.wakeup = e.wakeup
        BY <2>1, <2>2 DEF EntryFields
    <2>5. f.occurrence = e.occurrence /\ f.predecessor = e.predecessor
        BY <2>1, <2>2 DEF EntryFields
    <2>6. f.admission = e.admission
        BY <2>1, <2>2 DEF EntryFields
    <2>7. f.context = e.context
        BY <2>1, <2>2 DEF EntryFields
    <2>8. f.receipt = receipt
        BY <2>1, <2>2 DEF EntryFields
    <2>9. IsEpisode(f)
        BY <2>2, <2>3, <2>4, EntryIsFunction
    <2> QED
        BY <2>4, <2>5, <2>6, <2>7, <2>8, <2>9 DEF e, f
<1>13. PICK c : c = key
    OBVIOUS
<1>14. EntryReady(c)'
    <2>1. EntryReady(c)
        BY <1>10, <1>13
    <2>2. ~episodes[c].admission /\ episodes[c].wakeup = None
        BY <2>1, <1>4, <1>13 DEF EntryReady
    <2>3. RestoreOf(episodes[c].context, c) /\ episodes[c].preempt # None
        BY <2>1, <1>4, <1>13 DEF EntryReady
    <2>4. /\ episodes'[c].preempt = episodes[c].preempt /\ episodes'[c].context = receipt.context
          /\ episodes'[c].context = episodes[c].context
          /\ episodes'[c].receipt = receipt /\ episodes'[c].wakeup = None
          /\ episodes'[c].occurrence = episodes[c].occurrence
        BY <1>4, <1>12, <1>13, <2>2
    <2>5. ~episodes'[c].admission
        BY <1>12, <1>13, <2>2
    <2>7. RestoreOf(episodes'[c].context, c)
        BY <2>3, <2>4
    <2>8. issued'[c].preempted # None /\ ("requeue" \notin made' => episodes[c].occurrence = 0)
        BY <2>1, <1>7, <1>9 DEF EntryReady
    <2>9. ReceiptOK(receipt)'
        BY <1>3 DEF ReceiptOK
    <2> QED
        BY <2>3, <2>4, <2>5, <2>7, <2>8, <2>9 DEF EntryReady
<1>15. EntriesReady'
    <2>1. EntriesReady /\ made \subseteq made'
        BY <1>7 DEF Ready
    <2> QED
        BY <1>9, <1>10, <1>11, <1>13, <1>14, <2>1, OneEntryReady
<1>16. ASSUME NEW x, Awaited(x), x # receipt.context
       PROVE  Awaited(x)'
    <2> DEFINE k == KeyOf(x)
    <2>1. k \in Episodes /\ episodes[k].context = x /\ episodes[k].receipt = None /\ x # None
        BY <1>16 DEF Awaited
    <2>2. k # key
        BY <1>4, <1>16, <2>1
    <2>3. k \in Requests \X Epochs /\ episodes[k] # NoEpisode
        BY <2>1 DEF Episodes
    <2>4. episodes'[k] = episodes[k]
        BY <1>11, <2>2, <2>3
    <2>5. k \in Episodes'
        BY <2>3, <2>4 DEF Episodes
    <2>6. KeyOf(x)' = k
        BY DEF KeyOf
    <2> HIDE DEF k
    <2> QED
        BY <2>1, <2>4, <2>5, <2>6 DEF Awaited
<1>17. OnePlace'
    <2>1. /\ \A x \in envelope' : x.epoch # 0 => Awaited(x)' /\ x \in envelope
          /\ \A x \in inflight' : x[2].epoch # 0 => Awaited(x[2])'
          /\ \A other \in receipts' : Awaited(other.context)'
        BY <1>2, <1>7, <1>9, <1>16 DEF OnePlace
    <2> QED
        BY <1>2, <1>7, <1>9, <2>1, OnePlaceStep
<1>18. HostReady'
    <2>1. HostReady
        BY DEF Ready
    <2>2. ASSUME NEW q \in Requests, host[q] = "preempted"
          PROVE  <<q, epoch[q]>> \in Episodes'
                    /\ episodes'[<<q, epoch[q]>>].context = episodes[<<q, epoch[q]>>].context
        <3> DEFINE x == <<q, epoch[q]>>
        <3>1. x \in Episodes /\ episodes[x].context = None
            BY <2>1, <2>2 DEF HostReady
        <3> HIDE DEF x
        <3>2. x # key
            BY <1>4, <3>1
        <3>3. x \in Requests \X Epochs /\ episodes[x] # NoEpisode /\ episodes'[x] = episodes[x]
            BY <1>11, <3>1, <3>2 DEF Episodes
        <3>4. x \in Episodes' /\ episodes'[x].context = episodes[x].context
            BY <3>3 DEF Episodes
        <3> QED
            BY <3>4 DEF x
    <2> QED
        BY <1>9, <2>1, <2>2, HostSame
<1>19. IssuedOK' /\ AttemptsPending' /\ ComputesReady'
    BY <1>9 DEF Ready, IssuedOK, IsIssued, AttemptsPending, ComputesReady
<1>20. \A p \in Processes : Lossless(p)'
    BY <1>8 DEF Ready, Lossless, sinkVars
<1> QED
    BY <1>15, <1>17, <1>18, <1>19, <1>20, ReadyParts

\* The requests, when only entries of a request that is not preempted change.
LEMMA OthersStay ==
    ASSUME HostReady, NEW key \in Requests \X Epochs, host[key[1]] # "preempted",
           \A x \in Requests \X Epochs : x # key => episodes'[x] = episodes[x]
    PROVE  \A q \in Requests : host[q] = "preempted" =>
                <<q, epoch[q]>> \in Episodes'
                    /\ episodes'[<<q, epoch[q]>>].context = episodes[<<q, epoch[q]>>].context
<1> SUFFICES ASSUME NEW q \in Requests, host[q] = "preempted"
             PROVE  <<q, epoch[q]>> \in Episodes'
                    /\ episodes'[<<q, epoch[q]>>].context = episodes[<<q, epoch[q]>>].context
    OBVIOUS
<1>1. PICK x : x = <<q, epoch[q]>>
    OBVIOUS
<1>2. x \in Episodes /\ x # key
    BY <1>1 DEF HostReady
<1>3. x \in Requests \X Epochs /\ episodes[x] # NoEpisode /\ episodes'[x] = episodes[x]
    BY <1>2 DEF Episodes
<1>4. x \in Episodes' /\ episodes'[x].context = episodes[x].context
    BY <1>3 DEF Episodes
<1> QED
    BY <1>1, <1>4

\* A base event, then a row.
LEMMA ReadyPair ==
    ASSUME RecoveryInv, Clean, Ready, Clean', NEW a, NEW b, b.type # "loss",
           ValidRow(b, "engine"),
           NEW k \in Outcomes("engine", Script(<<a>>, <<b>>, <<>>)),
           Perform("engine", Script(<<a>>, <<b>>, <<>>), k)
    PROVE  k = 2 /\ \A q \in Processes : Lossless(q)'
<1> DEFINE l == <<a>>
           m == <<b>>
           n == <<>>
<1>1. /\ IsSeq(l) /\ IsSeq(m) /\ IsSeq(n) /\ Len(l) = 1 /\ Len(m) = 1 /\ Len(n) = 0
      /\ DOMAIN m = {1} /\ m[1] = b
    BY Tuples
<1>2. Perform("engine", Script(l, m, n), k) /\ k \in Outcomes("engine", Script(l, m, n))
    OBVIOUS
<1> HIDE DEF l, m, n
<1>3. k \in 0..Steps(Script(l, m, n)) /\ "engine" \in Processes
    BY <1>2 DEF Outcomes, Processes
<1>4. \A i \in DOMAIN m : m[i].type # "loss" /\ ValidRow(m[i], "engine")
    BY <1>1
<1>5. IsSeq(l) /\ IsSeq(m) /\ IsSeq(n)
    BY <1>1
<1>6. k = Len(l) + Len(m) + Len(n) /\ \A q \in Processes : Lossless(q)'
    BY <1>2, <1>3, <1>4, <1>5, ReadyScript
<1> QED
    BY <1>1, <1>6

LEMMA AdmissionStartedReady ==
    ASSUME RecoveryInv, Clean, Ready, Clean', NEW r \in Requests, AdmissionStarted(r)
    PROVE  Ready'
<1>0. PICK key : key = <<r, epoch[r]>>
    OBVIOUS
<1> DEFINE receipt == episodes[key].receipt
           event == EngineEvent("admission_started", r, epoch[r])
           wakeup == Recovery(receipt.context, "scheduler_wakeup", receipt.row, None,
                              receipt.transfer)
           ready == EngineOpen /\ key \in Episodes
                        /\ episodes[key].receipt # None /\ ~episodes[key].admission
           script == Script(<<event>>, <<wakeup>>, <<>>)
<1>1. /\ UNCHANGED <<epoch, known, inflight, pending, attempts, envelope, receipts, computes, made>>
      /\ host' = [host EXCEPT ![r] = "admitting"] /\ host[r] = "restoring"
      /\ DOMAIN host = Requests /\ HostReady /\ OnePlace /\ EntriesReady /\ r \in known
    BY DEF AdmissionStarted, workerVars, wireVars, planVars, RecoveryInv, PlainTypeOK, Ready, HostReady
<1>2. \/ ~ready /\ UNCHANGED <<issued, episodes, sinkVars>>
      \/ /\ ready
         /\ \E k \in Outcomes("engine", script) :
               /\ Perform("engine", script, k)
               /\ issued' = IF k = 0 THEN issued
                            ELSE [issued EXCEPT ![key].admission = NthBase("engine", 1)]
               /\ episodes' = IF k < 2 THEN episodes
                              ELSE [episodes EXCEPT ![key].admission = TRUE,
                                       ![key].wakeup = NthRow("engine", 1),
                                       ![key].predecessor = NthRow("engine", 1)]
    BY <1>0 DEF AdmissionStarted
<1>3. AttemptsPending' /\ ComputesReady'
    BY <1>1 DEF Ready, AttemptsPending, ComputesReady
<1>4. CASE UNCHANGED <<issued, episodes, sinkVars>>
    <2>1. IssuedOK' /\ EntriesReady' /\ OnePlace'
        BY <1>1, <1>4, EvidenceSame
    <2>2. \A p \in Processes : Lossless(p)'
        BY <1>4 DEF Ready, Lossless, sinkVars
    <2>3. Episodes' = Episodes
        BY <1>4 DEF Episodes
    <2>4. \A q \in Requests : host[q] = "preempted" => <<q, epoch[q]>> \in Episodes
        BY <1>1 DEF HostReady
    <2>5. HostReady'
        BY <1>1, <1>4, <2>3, <2>4, HostStays
    <2> QED
        BY <1>3, <2>1, <2>2, <2>5, ReadyParts
<1>5. CASE ready /\ ~UNCHANGED <<issued, episodes, sinkVars>>
    <2>1. PICK k \in Outcomes("engine", script) :
               /\ Perform("engine", script, k)
               /\ issued' = IF k = 0 THEN issued
                            ELSE [issued EXCEPT ![key].admission = NthBase("engine", 1)]
               /\ episodes' = IF k < 2 THEN episodes
                              ELSE [episodes EXCEPT ![key].admission = TRUE,
                                       ![key].wakeup = NthRow("engine", 1),
                                       ![key].predecessor = NthRow("engine", 1)]
        BY <1>2, <1>5
    <2>2. /\ key \in Episodes /\ key \in Requests \X Epochs /\ episodes[key] # NoEpisode
          /\ IsEpisode(episodes[key]) /\ IsIssued(issued[key]) /\ EntryReady(key)
          /\ DOMAIN episodes = Requests \X Epochs /\ DOMAIN issued = Requests \X Epochs
        BY <1>5, EntryFacts
    <2>3. receipt # None /\ ReceiptOK(receipt) /\ ~episodes[key].admission
        BY <1>5, <2>2 DEF EntryReady
    <2>4. wakeup.type # "loss" /\ ValidRow(wakeup, "engine")
        <3>1. /\ "scheduler_wakeup" \in UniqueStages \ {"preempt", "admission", "first_prefill_or_decode"}
              /\ (None # None) = ("scheduler_wakeup" \in BaseStages)
            BY DEF UniqueStages, BaseStages
        <3>2. receipt.row # None /\ receipt.transfer # None
            BY <2>3 DEF ReceiptOK
        <3> HIDE DEF receipt, event
        <3> QED
            BY <3>1, <3>2, RecoveryValid
    <2> HIDE DEF receipt, event, wakeup, ready
    <2>5. k = 2 /\ \A q \in Processes : Lossless(q)'
        <3>1. PICK a, b : a = event /\ b = wakeup
            OBVIOUS
        <3>2. /\ Perform("engine", Script(<<a>>, <<b>>, <<>>), k)
              /\ k \in Outcomes("engine", Script(<<a>>, <<b>>, <<>>))
            BY <2>1, <3>1
        <3>3. b.type # "loss" /\ ValidRow(b, "engine")
            BY <2>4, <3>1
        <3> HIDE DEF script
        <3> QED
            BY <3>2, <3>3, ReadyPair
    <2>6. PICK v : v = NthRow("engine", 1)
        OBVIOUS
    <2>7. PICK b : b = NthBase("engine", 1)
        OBVIOUS
    <2>8. v # None /\ b # None
        BY <2>6, <2>7, NthIsSome
    <2>9. /\ \A x \in Requests \X Epochs : x # key =>
                episodes'[x] = episodes[x] /\ issued'[x] = issued[x]
          /\ episodes'[key] = [episodes[key] EXCEPT !.admission = TRUE, !.wakeup = v, !.predecessor = v]
          /\ issued'[key] = [issued[key] EXCEPT !.admission = b]
          /\ DOMAIN issued' = Requests \X Epochs
        BY <2>1, <2>2, <2>5, <2>6, <2>7
    <2>10. IsIssued(issued'[key]) /\ issued'[key].admission = b /\ issued'[key].preempted = issued[key].preempted
        BY <2>2, <2>9, WithIssued
    <2>11. IssuedOK'
        <3>1. \A x \in Requests \X Epochs : IsIssued(issued'[x])
            BY <2>9, <2>10 DEF Ready, IssuedOK
        <3> QED
            BY <2>9, <3>1 DEF IssuedOK, IsIssued
    <2>12. /\ episodes'[key].context = episodes[key].context
           /\ episodes'[key].receipt = episodes[key].receipt
           /\ episodes'[key].preempt = episodes[key].preempt
           /\ episodes'[key].predecessor = v
           /\ episodes'[key].occurrence = episodes[key].occurrence
        <3> DEFINE e == episodes[key]
                   f == episodes'[key]
        <3>1. IsEpisode(e) /\ f = [e EXCEPT !.admission = TRUE, !.wakeup = v, !.predecessor = v]
            BY <2>2, <2>9
        <3> HIDE DEF e, f
        <3>2. e = [x \in EntryFields |-> e[x]]
            BY <3>1, EntryIsFunction
        <3>3. f.context = e.context /\ f.receipt = e.receipt /\ f.preempt = e.preempt
            BY <3>1, <3>2 DEF EntryFields
        <3>4. f.predecessor = v /\ f.occurrence = e.occurrence
            BY <3>1, <3>2 DEF EntryFields
        <3> QED
            BY <3>3, <3>4 DEF e, f
    <2>13. EntryReady(key)'
        <3>1. receipt = episodes[key].receipt
            BY DEF receipt
        <3>2. /\ episodes[key].context # None => RestoreOf(episodes[key].context, key) /\ episodes[key].preempt # None
              /\ episodes[key].receipt.context = episodes[key].context
              /\ issued[key].preempted # None
              /\ ("requeue" \notin made' => episodes[key].occurrence = 0)
            BY <1>1, <2>2, <2>3, <3>1 DEF EntryReady
        <3>3. episodes'[key].receipt # None /\ ReceiptOK(episodes'[key].receipt)
            BY <2>3, <2>12, <3>1
        <3> QED
            BY <2>8, <2>10, <2>12, <3>2, <3>3 DEF EntryReady
    <2>14. EntriesReady'
        BY <1>1, <2>2, <2>9, <2>13, OneEntryReady
    <2>15. \A c : Awaited(c) => Awaited(c)'
        BY <2>2, <2>3, <2>9, OneEntryAwaited DEF receipt
    <2>16. OnePlace'
        BY <1>1, <2>15, WireSame
    <2>17. HostReady'
        <3>1. key[1] = r
            BY <1>0
        <3>2. \A q \in Requests : host[q] = "preempted" =>
                <<q, epoch[q]>> \in Episodes'
                    /\ episodes'[<<q, epoch[q]>>].context = episodes[<<q, epoch[q]>>].context
            BY <1>1, <2>2, <2>9, <3>1, OthersStay
        <3> QED
            BY <1>1, <3>2, HostStays
    <2> QED
        BY <1>3, <2>5, <2>11, <2>14, <2>16, <2>17, ReadyParts
<1> QED
    BY <1>2, <1>4, <1>5

\* A script of one row.
LEMMA ReadyRow ==
    ASSUME RecoveryInv, Clean, Ready, Clean', NEW p \in Processes, NEW b, b.type # "loss",
           ValidRow(b, p),
           NEW k \in 0..Steps(Script(<<>>, <<b>>, <<>>)),
           Perform(p, Script(<<>>, <<b>>, <<>>), k)
    PROVE  k = 1 /\ \A q \in Processes : Lossless(q)'
<1> DEFINE m == <<b>>
           n == <<>>
<1>1. /\ IsSeq(m) /\ IsSeq(n) /\ Len(m) = 1 /\ Len(n) = 0
      /\ DOMAIN m = {1} /\ m[1] = b
    BY Tuples
<1>2. Perform(p, Script(n, m, n), k) /\ k \in 0..Steps(Script(n, m, n))
    OBVIOUS
<1> HIDE DEF m, n
<1>4. \A i \in DOMAIN m : m[i].type # "loss" /\ ValidRow(m[i], p)
    BY <1>1
<1>5. IsSeq(m) /\ IsSeq(n)
    BY <1>1
<1>6. k = Len(n) + Len(m) + Len(n) /\ \A q \in Processes : Lossless(q)'
    BY <1>2, <1>4, <1>5, ReadyScript
<1> QED
    BY <1>1, <1>6

LEMMA RequestRequeuedReady ==
    ASSUME RecoveryInv, Clean, Ready, Clean', NEW r \in Requests, RequestRequeued(r)
    PROVE  Ready'
<1>0. PICK key : key = <<r, epoch[r]>>
    OBVIOUS
<1> DEFINE receipt == episodes[key].receipt
           row == [Recovery(receipt.context, "requeue", episodes[key].predecessor, None,
                            receipt.transfer)
                     EXCEPT !.occurrence = episodes[key].occurrence, !.reason = "token_budget"]
<1>1. /\ UNCHANGED <<host, epoch, known, issued, inflight, pending, attempts, envelope,
                     receipts, computes>>
      /\ host[r] = "admitting" /\ key \in Episodes /\ episodes[key].wakeup # None
      /\ HostReady /\ OnePlace /\ EntriesReady
    BY <1>0 DEF RequestRequeued, hostVars, workerVars, wireVars, Ready
<1>2. "requeue" \notin made /\ made' = made \cup {"requeue"}
    BY DEF RequestRequeued, Occurs, Clean
<1>3. PICK k \in Outcomes("engine", Script(<<>>, <<row>>, <<>>)) :
            /\ Perform("engine", Script(<<>>, <<row>>, <<>>), k)
            /\ IF k = 1 THEN RequeueRecorded(key) ELSE UNCHANGED episodes
    BY <1>0 DEF RequestRequeued
<1>4. /\ key \in Requests \X Epochs /\ episodes[key] # NoEpisode
      /\ IsEpisode(episodes[key]) /\ EntryReady(key) /\ DOMAIN episodes = Requests \X Epochs
    BY <1>1, EntryFacts
<1>5. receipt # None /\ episodes[key].predecessor # None /\ episodes[key].occurrence = 0
      /\ ReceiptOK(receipt) /\ receipt.transfer # None
    BY <1>1, <1>2, <1>4 DEF EntryReady, ReceiptOK
<1> HIDE DEF receipt
<1>6. row.type # "loss" /\ ValidRow(row, "engine")
    BY <1>5, RequeueValid
<1>7. k = 1 /\ \A q \in Processes : Lossless(q)'
    <2>1. PICK b : b = row
        OBVIOUS
    <2>2. /\ Perform("engine", Script(<<>>, <<b>>, <<>>), k)
          /\ k \in Outcomes("engine", Script(<<>>, <<b>>, <<>>))
        BY <1>3, <2>1
    <2>3. b.type # "loss" /\ ValidRow(b, "engine")
        BY <1>6, <2>1
    <2> HIDE DEF row
    <2>4. k \in 0..Steps(Script(<<>>, <<b>>, <<>>)) /\ "engine" \in Processes
        BY <2>2 DEF Outcomes, Processes
    <2> QED
        BY <2>2, <2>3, <2>4, ReadyRow
<1> HIDE DEF row
<1>8. PICK v : v = NthRow("engine", 1)
    OBVIOUS
<1>9. v # None
    BY <1>8, NthIsSome
<1>10. /\ \A x \in Requests \X Epochs : x # key => episodes'[x] = episodes[x]
       /\ \E w : episodes'[key] = [episodes[key] EXCEPT !.predecessor = v, !.occurrence = w]
    BY <1>3, <1>4, <1>7, <1>8 DEF RequeueRecorded
<1>11. /\ episodes'[key].context = episodes[key].context
       /\ episodes'[key].receipt = episodes[key].receipt
       /\ episodes'[key].preempt = episodes[key].preempt
       /\ episodes'[key].admission = episodes[key].admission
       /\ episodes'[key].predecessor = v
    <2>1. PICK w : episodes'[key] = [episodes[key] EXCEPT !.predecessor = v, !.occurrence = w]
        BY <1>10
    <2> DEFINE e == episodes[key]
               f == episodes'[key]
    <2>2. IsEpisode(e) /\ f = [e EXCEPT !.predecessor = v, !.occurrence = w]
        BY <1>4, <2>1
    <2> HIDE DEF e, f
    <2>3. e = [x \in EntryFields |-> e[x]]
        BY <2>2, EntryIsFunction
    <2>4. f.context = e.context /\ f.receipt = e.receipt /\ f.preempt = e.preempt
        BY <2>2, <2>3 DEF EntryFields
    <2>5. f.admission = e.admission
        BY <2>2, <2>3 DEF EntryFields
    <2>6. f.predecessor = v
        BY <2>2, <2>3 DEF EntryFields
    <2> QED
        BY <2>4, <2>5, <2>6 DEF e, f
<1>12. EntryReady(key)'
    <2>1. /\ episodes[key].context # None => RestoreOf(episodes[key].context, key) /\ episodes[key].preempt # None
          /\ episodes[key].receipt # None /\ ReceiptOK(episodes[key].receipt)
          /\ episodes[key].receipt.context = episodes[key].context
          /\ issued[key].preempted # None
        BY <1>4, <1>5 DEF EntryReady, receipt
    <2>2. episodes[key].admission => issued[key].admission # None
        BY <1>4 DEF EntryReady
    <2>3. episodes'[key].admission => issued'[key].admission # None
        BY <2>2, <1>1, <1>11
    <2>4. "requeue" \in made'
        BY <1>2
    <2>5. ReceiptOK(episodes'[key].receipt)
        BY <2>1, <1>11
    <2> QED
        BY <1>1, <1>9, <1>11, <2>1, <2>3, <2>4, <2>5 DEF EntryReady
<1>13. EntriesReady'
    BY <1>1, <1>2, <1>4, <1>10, <1>12, OneEntryReady
<1>14. \A c : Awaited(c) => Awaited(c)'
    BY <1>4, <1>5, <1>10, OneEntryAwaited DEF receipt
<1>15. OnePlace'
    BY <1>1, <1>14, WireSame
<1>16. HostReady'
    <2>1. key[1] = r
        BY <1>0
    <2>2. \A q \in Requests : host[q] = "preempted" =>
                <<q, epoch[q]>> \in Episodes'
                    /\ episodes'[<<q, epoch[q]>>].context = episodes[<<q, epoch[q]>>].context
        BY <1>1, <1>4, <1>10, <2>1, OthersStay
    <2> QED
        BY <1>1, <2>2, HostSame
<1>17. IssuedOK' /\ AttemptsPending' /\ ComputesReady'
    BY <1>1 DEF Ready, IssuedOK, IsIssued, AttemptsPending, ComputesReady
<1> QED
    BY <1>7, <1>13, <1>15, <1>16, <1>17, ReadyParts

LEMMA RequestAdmittedReady ==
    ASSUME RecoveryInv, Clean, Ready, Clean', NEW r \in Requests, NEW kind \in Kinds,
           RequestAdmitted(r, kind)
    PROVE  Ready'
<1>0. PICK key : key = <<r, epoch[r]>>
    OBVIOUS
<1> DEFINE receipt == episodes[key].receipt
           ready == EngineOpen /\ key \in Episodes /\ episodes[key].admission
                        /\ episodes[key].admitted = None
           script == AdmittedScript(r, key, kind)
           compute == [context |-> receipt.context, transfer |-> receipt.transfer,
                       kind |-> kind, admission |-> NthRow("engine", 1),
                       started |-> NthBase("engine", 3)]
<1>1. /\ UNCHANGED <<epoch, known, inflight, pending, attempts, envelope, receipts, made>>
      /\ host' = [host EXCEPT ![r] = "running"] /\ host[r] = "admitting"
      /\ DOMAIN host = Requests /\ HostReady /\ OnePlace /\ EntriesReady /\ r \in known
    BY DEF RequestAdmitted, workerVars, planVars, RecoveryInv, PlainTypeOK, Ready, HostReady
<1>2. \/ UNCHANGED <<issued, episodes, computes, sinkVars>>
      \/ /\ ready
         /\ \E k \in Outcomes("engine", script) :
               /\ Perform("engine", script, k)
               /\ issued' = IF k < 4 THEN issued
                            ELSE [issued EXCEPT ![key].resumed = NthBase("engine", 1),
                                                ![key].firstCompute = NthBase("engine", 3)]
               /\ episodes' = CASE k = 4 -> [episodes EXCEPT ![key] = NoEpisode]
                                [] k = 3 -> [episodes EXCEPT ![key].admitted = NthRow("engine", 1)]
                                [] OTHER -> episodes
               /\ computes' = IF k = 4 THEN computes \cup {compute} ELSE computes
    BY <1>0 DEF RequestAdmitted
<1>3. AttemptsPending'
    BY <1>1 DEF Ready, AttemptsPending
<1>4. CASE UNCHANGED <<issued, episodes, computes, sinkVars>>
    <2>1. IssuedOK' /\ EntriesReady' /\ OnePlace' /\ ComputesReady'
        BY <1>1, <1>4, EvidenceSame
    <2>2. \A p \in Processes : Lossless(p)'
        BY <1>4 DEF Ready, Lossless, sinkVars
    <2>3. Episodes' = Episodes
        BY <1>4 DEF Episodes
    <2>4. \A q \in Requests : host[q] = "preempted" => <<q, epoch[q]>> \in Episodes
        BY <1>1 DEF HostReady
    <2>5. HostReady'
        BY <1>1, <1>4, <2>3, <2>4, HostStays
    <2> QED
        BY <1>3, <2>1, <2>2, <2>5, ReadyParts
<1>5. CASE ready /\ ~UNCHANGED <<issued, episodes, computes, sinkVars>>
    <2>1. PICK k \in Outcomes("engine", script) :
               /\ Perform("engine", script, k)
               /\ issued' = IF k < 4 THEN issued
                            ELSE [issued EXCEPT ![key].resumed = NthBase("engine", 1),
                                                ![key].firstCompute = NthBase("engine", 3)]
               /\ episodes' = CASE k = 4 -> [episodes EXCEPT ![key] = NoEpisode]
                                [] k = 3 -> [episodes EXCEPT ![key].admitted = NthRow("engine", 1)]
                                [] OTHER -> episodes
               /\ computes' = IF k = 4 THEN computes \cup {compute} ELSE computes
        BY <1>2, <1>5
    <2>2. /\ key \in Episodes /\ key \in Requests \X Epochs /\ episodes[key] # NoEpisode
          /\ IsIssued(issued[key]) /\ EntryReady(key) /\ episodes[key].admission
          /\ DOMAIN episodes = Requests \X Epochs /\ DOMAIN issued = Requests \X Epochs
        BY <1>5, EntryFacts
    <2>3. /\ receipt # None /\ ReceiptOK(receipt) /\ episodes[key].predecessor # None
          /\ issued[key].admission # None /\ receipt.transfer # None
        BY <2>2 DEF EntryReady, ReceiptOK
    <2> DEFINE row == [Recovery(receipt.context, "admission", episodes[key].predecessor,
                                NthBase("engine", 1), receipt.transfer)
                          EXCEPT !.admission = issued[key].admission]
               resumed == EngineEvent("resumed", r, key[2])
               edge == Edge(r, receipt.done, issued[key].admission, "h2d")
               first == EngineEvent(kind, r, key[2])
    <2>4. row.type # "loss" /\ ValidRow(row, "engine")
        <3>1. NthBase("engine", 1) # None
            BY NthIsSome
        <3> HIDE DEF receipt
        <3> QED
            BY <2>3, <3>1, AdmissionValid
    <2>5. /\ compute.admission # None /\ compute.started # None
          /\ compute.transfer # None /\ compute.kind \in Kinds
        <3>1. compute.admission = NthRow("engine", 1) /\ compute.started = NthBase("engine", 3)
              /\ compute.transfer = receipt.transfer /\ compute.kind = kind
            OBVIOUS
        <3> HIDE DEF compute, receipt
        <3> QED
            BY <2>3, <3>1, NthIsSome
    <2>6. script = Script(<<resumed, edge>>, <<row>>, <<first>>)
        BY DEF AdmittedScript
    <2> HIDE DEF ready, receipt, row, resumed, edge, first, script, compute
    <2>7. k = 4 /\ \A q \in Processes : Lossless(q)'
        <3> DEFINE l == <<resumed, edge>>
                   m == <<row>>
                   n == <<first>>
        <3>1. /\ IsSeq(l) /\ IsSeq(m) /\ IsSeq(n) /\ Len(l) = 2 /\ Len(m) = 1 /\ Len(n) = 1
              /\ DOMAIN m = {1} /\ m[1] = row
            BY Tuples
        <3>2. Perform("engine", Script(l, m, n), k) /\ k \in Outcomes("engine", Script(l, m, n))
            BY <2>1, <2>6
        <3> HIDE DEF l, m, n
        <3>3. PICK x, y, z : x = l /\ y = m /\ z = n
            OBVIOUS
        <3>4. Perform("engine", Script(x, y, z), k) /\ k \in Outcomes("engine", Script(x, y, z))
            BY <3>2, <3>3
        <3>5. k \in 0..Steps(Script(x, y, z)) /\ "engine" \in Processes
            BY <3>4 DEF Outcomes, Processes
        <3>6. IsSeq(x) /\ IsSeq(y) /\ IsSeq(z)
            BY <3>1, <3>3
        <3>7. \A i \in DOMAIN y : y[i].type # "loss" /\ ValidRow(y[i], "engine")
            BY <2>4, <3>1, <3>3
        <3>8. Perform("engine", Script(x, y, z), k)
            BY <3>4
        <3>9. k = Len(x) + Len(y) + Len(z) /\ \A q \in Processes : Lossless(q)'
            BY <3>5, <3>6, <3>7, <3>8, ReadyScript
        <3>10. Len(x) = 2 /\ Len(y) = 1 /\ Len(z) = 1
            BY <3>1, <3>3
        <3> QED
            BY <3>9, <3>10
    <2>8. PICK v, w : v = NthBase("engine", 1) /\ w = NthBase("engine", 3)
        OBVIOUS
    <2>9. /\ \A x \in Requests \X Epochs : x # key =>
                episodes'[x] = episodes[x] /\ issued'[x] = issued[x]
          /\ episodes'[key] = NoEpisode
          /\ issued'[key] = [issued[key] EXCEPT !.resumed = v, !.firstCompute = w]
          /\ DOMAIN issued' = Requests \X Epochs
          /\ computes' = computes \cup {compute}
        BY <2>1, <2>2, <2>7, <2>8
    <2>10. IsIssued(issued'[key])
        BY <2>2, <2>9, WithIssuedBoth
    <2>11. IssuedOK'
        <3>1. \A x \in Requests \X Epochs : IsIssued(issued'[x])
            BY <2>9, <2>10 DEF Ready, IssuedOK
        <3> QED
            BY <2>9, <3>1 DEF IssuedOK, IsIssued
    <2>12. EntriesReady'
        BY <1>1, <2>2, <2>9, OneEntryReady
    <2>13. \A c : Awaited(c) => Awaited(c)'
        BY <2>2, <2>3, <2>9, OneEntryAwaited DEF receipt
    <2>14. OnePlace'
        BY <1>1, <2>13, WireSame
    <2>15. HostReady'
        <3>1. key[1] = r
            BY <1>0
        <3>2. \A q \in Requests : host[q] = "preempted" =>
                <<q, epoch[q]>> \in Episodes'
                    /\ episodes'[<<q, epoch[q]>>].context = episodes[<<q, epoch[q]>>].context
            BY <1>1, <2>2, <2>9, <3>1, OthersStay
        <3> QED
            BY <1>1, <3>2, HostStays
    <2>16. ComputesReady'
        BY <2>5, <2>9 DEF Ready, ComputesReady
    <2> QED
        BY <1>3, <2>7, <2>11, <2>12, <2>14, <2>15, <2>16, ReadyParts
<1> QED
    BY <1>2, <1>4, <1>5

\* A step of the worker leaves what the scheduler adapter holds.
LEMMA EngineSame ==
    ASSUME Ready, made \subseteq made', UNCHANGED <<host, epoch, known, issued, episodes>>
    PROVE  /\ IssuedOK' /\ EntriesReady' /\ HostReady'
           /\ \A context : Awaited(context) => Awaited(context)'
<1>1. IssuedOK'
    BY DEF Ready, IssuedOK, IsIssued
<1>2. EntriesReady'
    BY EntriesStep DEF Ready
<1>3. HostReady'
    <2>1. HostReady /\ Episodes' = Episodes
        BY DEF Ready, Episodes
    <2>2. \A q \in Requests : host[q] = "preempted" => <<q, epoch[q]>> \in Episodes
        BY <2>1 DEF HostReady
    <2> QED
        BY <2>1, <2>2, HostSame
<1>4. \A context : Awaited(context) => Awaited(context)'
    BY DEF Awaited, Episodes, KeyOf
<1> QED
    BY <1>1, <1>2, <1>3, <1>4

\* Contexts and receipts leave the wire.
LEMMA OnePlaceLess ==
    ASSUME OnePlace, envelope' \subseteq envelope, inflight' \subseteq inflight,
           receipts' \subseteq receipts, \A context : Awaited(context) => Awaited(context)'
    PROVE  OnePlace'
<1>1. /\ \A context \in envelope' : context.epoch # 0 =>
                Awaited(context)' /\ context \in envelope
      /\ \A x \in inflight' : x[2].epoch # 0 => Awaited(x[2])'
      /\ \A receipt \in receipts' : Awaited(receipt.context)'
    BY DEF OnePlace
<1> QED
    BY <1>1, OnePlaceStep

LEMMA TransferNotSubmittedReady ==
    ASSUME RecoveryInv, Clean, Ready, Clean', NEW context, TransferNotSubmitted(context)
    PROVE  Ready'
<1>1. /\ UNCHANGED <<host, epoch, known, issued, episodes, inflight, pending, attempts, receipts,
                     computes, made, profile>>
      /\ envelope' \subseteq envelope
    BY DEF TransferNotSubmitted, hostVars, engineVars, workerVars, planVars, sinkVars
<1>2. /\ IssuedOK' /\ EntriesReady' /\ HostReady'
      /\ \A c : Awaited(c) => Awaited(c)'
    BY <1>1, EngineSame
<1>3. OnePlace'
    BY <1>1, <1>2, OnePlaceLess DEF Ready
<1>4. AttemptsPending' /\ ComputesReady'
    BY <1>1 DEF Ready, AttemptsPending, ComputesReady
<1>5. \A p \in Processes : Lossless(p)'
    BY <1>1 DEF Ready, Lossless
<1> QED
    BY <1>2, <1>3, <1>4, <1>5, ReadyParts

LEMMA TransferInvalidatedReady ==
    ASSUME RecoveryInv, Clean, Ready, Clean', NEW t, NEW context, TransferInvalidated(t, context)
    PROVE  Ready'
<1> DEFINE row == Transfer(context, t, "done", "cancelled")
<1>1. /\ UNCHANGED <<host, epoch, known, issued, episodes, envelope, attempts, receipts,
                     computes, made>>
      /\ <<t, context>> \in inflight /\ inflight' = inflight \ {<<t, context>>}
      /\ pending' = {p \in pending : p.transfer # t}
    BY DEF TransferInvalidated, hostVars, engineVars, wireVars, planVars
<1>2. PICK k \in {0, 1} : Perform("worker", Script(<<>>, <<row>>, <<>>), k)
    BY DEF TransferInvalidated
<1>3. t[1] = "worker"
    <2> DEFINE x == <<t, context>>
    <2>1. x[1] = t /\ x \in inflight
        BY <1>1
    <2> HIDE DEF x
    <2>2. IsTransfer(x[1])
        BY <2>1 DEF RecoveryInv, EvidenceInv, WorkerInv
    <2> QED
        BY <2>1, <2>2 DEF IsTransfer
<1>4. row.type # "loss" /\ ValidRow(row, "worker")
    <2>1. <<"done", "cancelled">> \in {<<"submit", "none">>, <<"done", "ok">>, <<"done", "cancelled">>}
        OBVIOUS
    <2> QED
        BY <1>3, <2>1, TransferValid
<1> HIDE DEF row
<1>5. \A q \in Processes : Lossless(q)'
    <2>1. PICK b : b = row
        OBVIOUS
    <2>2. Perform("worker", Script(<<>>, <<b>>, <<>>), k) /\ b.type # "loss" /\ ValidRow(b, "worker")
        BY <1>2, <1>4, <2>1
    <2>3. Steps(Script(<<>>, <<b>>, <<>>)) = 1
        <3> DEFINE m == <<b>>
                   n == <<>>
        <3>1. IsSeq(m) /\ IsSeq(n) /\ Len(m) = 1 /\ Len(n) = 0
            BY Tuples
        <3> HIDE DEF m, n
        <3>2. IsSeq(m) /\ IsSeq(n)
            BY <3>1
        <3>3. Steps(Script(n, m, n)) = Len(n) + Len(m) + Len(n)
            BY <3>2, ScriptFacts
        <3>4. Steps(Script(n, m, n)) = 1
            BY <3>1, <3>3
        <3> QED
            BY <3>4 DEF m, n
    <2>4. k \in 0..Steps(Script(<<>>, <<b>>, <<>>)) /\ "worker" \in Processes
        BY <2>3 DEF Processes
    <2> QED
        BY <2>2, <2>4, ReadyRow
<1>6. /\ IssuedOK' /\ EntriesReady' /\ HostReady'
      /\ \A c : Awaited(c) => Awaited(c)'
    BY <1>1, EngineSame
<1>7. OnePlace'
    BY <1>1, <1>6, OnePlaceLess DEF Ready
<1>8. AttemptsPending'
    <2> DEFINE gone == <<t, context>>
    <2>1. gone[1] = t /\ gone \in inflight /\ inflight' = inflight \ {gone}
        BY <1>1
    <2> HIDE DEF gone
    <2>2. \A x \in inflight' : x \in inflight /\ x[1] # t
        BY <2>1 DEF Ready, AttemptsPending
    <2>3. \A x \in inflight' : \E entry \in pending' : entry.transfer = x[1]
        BY <1>1, <2>2 DEF Ready, AttemptsPending
    <2> QED
        BY <1>1, <2>2, <2>3 DEF Ready, AttemptsPending
<1>9. ComputesReady'
    BY <1>1 DEF Ready, ComputesReady
<1> QED
    BY <1>5, <1>6, <1>7, <1>8, <1>9, ReadyParts

LEMMA FirstComputeReady ==
    ASSUME RecoveryInv, Clean, Ready, Clean', NEW compute \in computes, FirstCompute(compute)
    PROVE  Ready'
<1> DEFINE row == [Recovery(compute.context, "first_prefill_or_decode", compute.admission,
                            compute.started, compute.transfer) EXCEPT !.kind = compute.kind]
<1>1. /\ UNCHANGED <<host, epoch, known, issued, episodes, envelope, inflight, pending, attempts,
                     receipts, made>>
      /\ computes' = computes \ {compute}
    BY DEF FirstCompute, hostVars, engineVars, workerVars, planVars
<1>2. closed["worker"] = "open"
    BY CleanFacts DEF WorkerOpen
<1>3. PICK k \in Outcomes("worker", Script(<<>>, <<row>>, <<>>)) :
            Perform("worker", Script(<<>>, <<row>>, <<>>), k)
    BY <1>2 DEF FirstCompute
<1>4. row.type # "loss" /\ ValidRow(row, "worker")
    <2>1. /\ compute.admission # None /\ compute.started # None
          /\ compute.transfer # None /\ compute.kind \in Kinds
        BY DEF Ready, ComputesReady
    <2> QED
        BY <2>1, FirstComputeValid
<1> HIDE DEF row
<1>5. \A q \in Processes : Lossless(q)'
    <2>1. PICK b : b = row
        OBVIOUS
    <2>2. Perform("worker", Script(<<>>, <<b>>, <<>>), k) /\ b.type # "loss" /\ ValidRow(b, "worker")
        BY <1>3, <1>4, <2>1
    <2>3. k \in Outcomes("worker", Script(<<>>, <<b>>, <<>>))
        BY <1>3, <2>1
    <2>4. k \in 0..Steps(Script(<<>>, <<b>>, <<>>)) /\ "worker" \in Processes
        BY <2>3 DEF Processes, Outcomes
    <2> QED
        BY <2>2, <2>4, ReadyRow
<1>6. /\ IssuedOK' /\ EntriesReady' /\ HostReady'
      /\ \A c : Awaited(c) => Awaited(c)'
    BY <1>1, EngineSame
<1>7. OnePlace'
    BY <1>1, <1>6, OnePlaceLess DEF Ready
<1>8. AttemptsPending' /\ ComputesReady'
    BY <1>1 DEF Ready, AttemptsPending, ComputesReady
<1> QED
    BY <1>5, <1>6, <1>7, <1>8, ReadyParts

LEMMA WaitCompletedReady ==
    ASSUME RecoveryInv, Clean, Ready, Clean', WaitCompleted
    PROVE  Ready'
<1>0. PICK n : n = Cardinality(inflight)
    OBVIOUS
<1> DEFINE m == [i \in 1..ChunkCount(n) |-> Chunk("wait_set_chunk", None, n, i - 1)]
           l == <<>>
<1>1. /\ UNCHANGED <<host, epoch, known, issued, episodes, envelope, inflight, pending, attempts,
                     receipts, computes>>
      /\ made \subseteq made' /\ n > 0
    BY <1>0 DEF WaitCompleted, Occurs, hostVars, engineVars, workerVars, wireVars
<1>2. PICK k \in Outcomes("worker", Script(l, m, l)) : Perform("worker", Script(l, m, l), k)
    BY <1>0 DEF WaitCompleted
<1>3. n \in Nat \ {0}
    BY <1>0, <1>1, FS_CardinalityType DEF RecoveryInv, EvidenceInv, WorkerInv
<1>4. ChunkCount(n) \in Nat
    BY <1>3, ChunkCountNat
<1>5. /\ DOMAIN m = 1..ChunkCount(n) /\ m = [i \in 1..ChunkCount(n) |-> m[i]]
      /\ \A i \in DOMAIN m : m[i] = Chunk("wait_set_chunk", None, n, i - 1)
    OBVIOUS
<1> HIDE DEF m
<1>6. \A i \in DOMAIN m : m[i].type # "loss" /\ ValidRow(m[i], "worker")
    BY <1>3, <1>5, ChunkValid
<1>7. IsSeq(m) /\ IsSeq(l)
    BY <1>4, <1>5, FunctionIsSeq, Tuples
<1> HIDE DEF l
<1>8. k \in 0..Steps(Script(l, m, l)) /\ "worker" \in Processes
    BY <1>2 DEF Outcomes, Processes
<1>9. \A q \in Processes : Lossless(q)'
    BY <1>2, <1>6, <1>7, <1>8, ReadyScript
<1>10. /\ IssuedOK' /\ EntriesReady' /\ HostReady'
       /\ \A c : Awaited(c) => Awaited(c)'
    BY <1>1, EngineSame
<1>11. OnePlace'
    BY <1>1, <1>10, OnePlaceLess DEF Ready
<1>12. AttemptsPending' /\ ComputesReady'
    BY <1>1 DEF Ready, AttemptsPending, ComputesReady
<1> QED
    BY <1>9, <1>10, <1>11, <1>12, ReadyParts

\* The rows of a submitted transfer are accepted when a restore of an episode
\* has its "preempt" row.
LEMMA SubmitRows ==
    ASSUME NEW t, t[1] = "worker", t # None, NEW context, ContextOK(context),
           context.epoch # 0 => context.preempt # None
    PROVE  \E l, m : /\ IsSeq(l) /\ IsSeq(m) /\ SubmitScript(t, context) = Script(l, m, <<>>)
                     /\ \A i \in DOMAIN m : m[i].type # "loss" /\ ValidRow(m[i], "worker")
<1> DEFINE started == NthBase("worker", 1)
           transfer == Transfer(context, t, "submit", "none")
           row == Recovery(context, "restore_start", context.preempt, started, t)
           start == Event("communication_started", context.request, context.epoch, context,
                          t, t[2], 0)
           edge == Edge(context.request, context.preempted, started, "h2d")
<1>1. transfer.type # "loss" /\ ValidRow(transfer, "worker")
    <2>1. <<"submit", "none">> \in {<<"submit", "none">>, <<"done", "ok">>, <<"done", "cancelled">>}
        OBVIOUS
    <2> QED
        BY <2>1, TransferValid
<1>2. ASSUME context.epoch # 0 PROVE row.type # "loss" /\ ValidRow(row, "worker")
    <2>1. /\ "restore_start" \in UniqueStages \ {"preempt", "admission", "first_prefill_or_decode"}
          /\ (started # None) = ("restore_start" \in BaseStages)
        BY NthIsSome DEF UniqueStages, BaseStages
    <2> HIDE DEF started
    <2> QED
        BY <1>2, <2>1, RecoveryValid
<1>3. SubmitScript(t, context) =
            CASE context.op = "preserve" -> Script(<<>>, <<transfer>>, <<>>)
              [] context.op # "preserve" /\ context.epoch = 0 ->
                    Script(<<start>>, <<transfer>>, <<>>)
              [] OTHER -> Script(<<start, edge>>, <<transfer, row>>, <<>>)
    BY DEF SubmitScript
<1> HIDE DEF transfer, row, start, edge, started
<1>4. /\ IsSeq(<<>>) /\ IsSeq(<<transfer>>) /\ IsSeq(<<start>>)
      /\ IsSeq(<<start, edge>>) /\ IsSeq(<<transfer, row>>)
      /\ DOMAIN <<transfer>> = {1} /\ <<transfer>>[1] = transfer
      /\ DOMAIN <<transfer, row>> = {1, 2}
      /\ <<transfer, row>>[1] = transfer /\ <<transfer, row>>[2] = row
    BY Tuples
<1>5. CASE context.op = "preserve"
    <2>1. SubmitScript(t, context) = Script(<<>>, <<transfer>>, <<>>)
        BY <1>3, <1>5
    <2> QED
        BY <1>1, <1>4, <2>1
<1>6. CASE context.op # "preserve" /\ context.epoch = 0
    <2>1. SubmitScript(t, context) = Script(<<start>>, <<transfer>>, <<>>)
        BY <1>3, <1>6
    <2> QED
        BY <1>1, <1>4, <2>1
<1>7. CASE context.op # "preserve" /\ context.epoch # 0
    <2>1. SubmitScript(t, context) = Script(<<start, edge>>, <<transfer, row>>, <<>>)
        BY <1>3, <1>7
    <2> QED
        BY <1>1, <1>2, <1>4, <1>7, <2>1
<1> QED
    BY <1>5, <1>6, <1>7

\* A context leaves for a transfer with a new number.
LEMMA SubmittedWire ==
    ASSUME OnePlace, AttemptsPending, attempts \in Nat,
           \A x \in inflight : x[1][2] \in 1..attempts,
           NEW t, t[2] = attempts + 1, NEW context \in envelope,
           NEW entry, entry.transfer = t, entry.row = None <=> context.epoch = 0,
           NEW sent, sent[1] = t, sent[2] = context,
           inflight' = inflight \cup {sent}, envelope' = envelope \ {context},
           pending' = pending \cup {entry}, receipts' = receipts, attempts' = attempts + 1,
           \A c : Awaited(c) => Awaited(c)'
    PROVE  OnePlace' /\ AttemptsPending'
<1>1. \A x \in inflight : x[1] # t
    OBVIOUS
<1>2. \A other \in pending : other.transfer # t
    BY DEF AttemptsPending
<1>3. context.epoch # 0 => /\ Awaited(context)
                           /\ \A x \in inflight : x[2] # context
                           /\ \A receipt \in receipts : receipt.context # context
    BY DEF OnePlace
<1>4. ASSUME NEW c \in envelope', c.epoch # 0
      PROVE  /\ Awaited(c)' /\ \A x \in inflight' : x[2] # c
             /\ \A receipt \in receipts' : receipt.context # c
    <2>1. /\ Awaited(c) /\ \A x \in inflight : x[2] # c
          /\ \A receipt \in receipts : receipt.context # c
        BY <1>4 DEF OnePlace
    <2> QED
        BY <1>4, <2>1
<1>5. ASSUME NEW x \in inflight', x[2].epoch # 0
      PROVE  /\ Awaited(x[2])' /\ \A y \in inflight' : y[2] = x[2] => y = x
             /\ \A receipt \in receipts' : receipt.context # x[2]
    <2>1. CASE x \in inflight
        <3>1. /\ Awaited(x[2]) /\ \A y \in inflight : y[2] = x[2] => y = x
              /\ \A receipt \in receipts : receipt.context # x[2]
            BY <1>5, <2>1 DEF OnePlace
        <3>2. x[2] # context
            BY <1>3, <1>5, <2>1
        <3>3. \A y \in inflight' : y[2] = x[2] => y = x
            BY <3>1, <3>2
        <3> QED
            BY <3>1, <3>3
    <2>2. CASE x = sent
        <3>1. \A y \in inflight' : y[2] = x[2] => y = x
            BY <1>3, <1>5, <2>2
        <3> QED
            BY <1>3, <1>5, <2>2, <3>1
    <2> QED
        BY <2>1, <2>2
<1>6. ASSUME NEW receipt \in receipts'
      PROVE  /\ ReceiptOK(receipt)' /\ Awaited(receipt.context)'
             /\ \A other \in receipts' : other.context = receipt.context => other = receipt
    BY <1>6 DEF OnePlace, ReceiptOK
<1>7. OnePlace'
    BY <1>4, <1>5, <1>6 DEF OnePlace
<1>8. \A x, y \in inflight' : x[1] = y[1] => x = y
    BY <1>1 DEF AttemptsPending
<1>9. \A x \in inflight' : \E other \in pending' : other.transfer = x[1]
    BY DEF AttemptsPending
<1>10. ASSUME NEW x \in inflight', NEW other \in pending', other.transfer = x[1]
       PROVE  other.row = None <=> x[2].epoch = 0
    <2>1. CASE x = sent
        BY <1>2, <1>10, <2>1
    <2>2. CASE x \in inflight
        <3>1. other \in pending
            BY <1>1, <1>10, <2>2
        <3> QED
            BY <1>10, <2>2, <3>1 DEF AttemptsPending
    <2> QED
        BY <2>1, <2>2
<1>11. \A other \in pending' : other.transfer[2] \in 1..attempts'
    BY DEF AttemptsPending
<1>12. AttemptsPending'
    BY <1>8, <1>9, <1>10, <1>11 DEF AttemptsPending
<1> QED
    BY <1>7, <1>12

LEMMA TransferSubmittedReady ==
    ASSUME RecoveryInv, Clean, Ready, Clean', NEW context \in envelope,
           TransferSubmitted(context)
    PROVE  Ready'
<1>0. PICK t : t = NextTransfer
    OBVIOUS
<1> DEFINE script == SubmitScript(t, context)
           link == IF context.epoch = 0 THEN None ELSE NthRow("worker", 2)
           attempt == [transfer |-> t, started |-> NthBase("worker", 1), row |-> link]
           sent == <<t, context>>
<1>1. /\ UNCHANGED <<host, epoch, known, issued, episodes, receipts, computes, made>>
      /\ envelope' = envelope \ {context} /\ inflight' = inflight \cup {sent}
      /\ attempts' = attempts + 1
    BY <1>0 DEF TransferSubmitted, hostVars, engineVars, planVars
<1>2. PICK k \in Outcomes("worker", script) :
            /\ Perform("worker", script, k)
            /\ pending' = IF k < Steps(script) THEN pending ELSE pending \cup {attempt}
    BY <1>0 DEF TransferSubmitted
<1>3. attempts \in Nat /\ ContextOK(context) /\ \A x \in inflight : x[1][2] \in 1..attempts
    BY RecoveryAssumption DEF RecoveryInv, EvidenceInv, PlainTypeOK, WorkerInv, IsTransfer
<1>4. t = <<"worker", attempts + 1>>
    BY <1>0 DEF NextTransfer
<1>5. t[1] = "worker" /\ t[2] = attempts + 1 /\ t # None
    BY <1>4, PairIsSome
<1>6. attempt.transfer = t /\ (attempt.row = None <=> context.epoch = 0)
    <2>1. attempt.transfer = t /\ attempt.row = link
        OBVIOUS
    <2>2. link = None <=> context.epoch = 0
        BY NthIsSome
    <2> QED
        BY <2>1, <2>2
<1>7. sent[1] = t /\ sent[2] = context
    OBVIOUS
<1> HIDE DEF script, attempt, sent, link
<1>8. OnePlace /\ AttemptsPending
    BY DEF Ready
<1>9. context.epoch # 0 => context.preempt # None
    <2> SUFFICES ASSUME context.epoch # 0 PROVE context.preempt # None
        OBVIOUS
    <2>1. Awaited(context)
        BY <1>8 DEF OnePlace
    <2>2. PICK key : key = KeyOf(context)
        OBVIOUS
    <2>3. key \in Episodes /\ episodes[key].context = context /\ context # None
        BY <2>1, <2>2 DEF Awaited
    <2>4. EntryReady(key)
        BY <2>3, EntryFacts
    <2> QED
        BY <2>3, <2>4 DEF EntryReady, RestoreOf
<1>10. PICK l, m :
            /\ IsSeq(l) /\ IsSeq(m) /\ script = Script(l, m, <<>>)
            /\ \A i \in DOMAIN m : m[i].type # "loss" /\ ValidRow(m[i], "worker")
    BY <1>3, <1>5, <1>9, SubmitRows DEF script
<1>11. k = Steps(script) /\ k \in Nat /\ \A q \in Processes : Lossless(q)'
    <2> DEFINE n == <<>>
    <2>1. IsSeq(n) /\ Len(n) = 0
        BY Tuples
    <2>2. Perform("worker", Script(l, m, n), k)
        BY <1>2, <1>10
    <2>3. k \in Outcomes("worker", Script(l, m, n)) /\ script = Script(l, m, n)
        BY <1>2, <1>10
    <2> HIDE DEF n
    <2>4. IsSeq(l) /\ IsSeq(m) /\ IsSeq(n)
        BY <1>10, <2>1
    <2>5. \A i \in DOMAIN m : m[i].type # "loss" /\ ValidRow(m[i], "worker")
        BY <1>10
    <2>6. k \in 0..Steps(Script(l, m, n)) /\ "worker" \in Processes
        BY <2>3 DEF Outcomes, Processes
    <2>7. k = Steps(Script(l, m, n)) /\ \A q \in Processes : Lossless(q)'
        BY <2>2, <2>4, <2>5, <2>6, ReadyScript
    <2> QED
        BY <2>3, <2>6, <2>7
<1>12. pending' = pending \cup {attempt}
    BY <1>2, <1>11
<1>13. /\ IssuedOK' /\ EntriesReady' /\ HostReady'
       /\ \A c : Awaited(c) => Awaited(c)'
    BY <1>1, EngineSame
<1>14. OnePlace' /\ AttemptsPending'
    <2>1. PICK entry, pair : entry = attempt /\ pair = sent
        OBVIOUS
    <2>2. /\ entry.transfer = t /\ (entry.row = None <=> context.epoch = 0)
          /\ pair[1] = t /\ pair[2] = context
          /\ pending' = pending \cup {entry} /\ inflight' = inflight \cup {pair}
        BY <1>1, <1>6, <1>7, <1>12, <2>1
    <2> QED
        BY <1>1, <1>3, <1>5, <1>8, <1>13, <2>2, SubmittedWire
<1>15. ComputesReady'
    BY <1>1 DEF Ready, ComputesReady
<1> QED
    BY <1>11, <1>13, <1>14, <1>15, ReadyParts

\* The rows of a successful transfer are accepted.
LEMMA DoneRows ==
    ASSUME NEW entry, NEW context, entry.transfer[1] = "worker", entry.transfer # None
    PROVE  \E l, m : /\ IsSeq(l) /\ IsSeq(m) /\ DoneScript(entry, context) = Script(l, m, <<>>)
                     /\ \A i \in DOMAIN m : m[i].type # "loss" /\ ValidRow(m[i], "worker")
<1> DEFINE t == entry.transfer
           link == NthBase("worker", 1)
           transfer == Transfer(context, t, "done", "ok")
           done == Event("communication_done", context.request, context.epoch, context,
                         t, 0, t[2])
           edge == Edge(context.request, entry.started, link, "program_order")
           row == Recovery(context, "restore_done", entry.row, link, t)
<1>1. transfer.type # "loss" /\ ValidRow(transfer, "worker")
    <2>1. <<"done", "ok">> \in {<<"submit", "none">>, <<"done", "ok">>, <<"done", "cancelled">>}
        OBVIOUS
    <2> QED
        BY <2>1, TransferValid
<1>2. ASSUME entry.row # None PROVE row.type # "loss" /\ ValidRow(row, "worker")
    <2>1. /\ "restore_done" \in UniqueStages \ {"preempt", "admission", "first_prefill_or_decode"}
          /\ (link # None) = ("restore_done" \in BaseStages)
        BY NthIsSome DEF UniqueStages, BaseStages
    <2> HIDE DEF link
    <2> QED
        BY <1>2, <2>1, RecoveryValid
<1>3. DoneScript(entry, context) =
            CASE context.op = "preserve" -> Script(<<>>, <<transfer>>, <<>>)
              [] context.op # "preserve" /\ entry.row = None ->
                    Script(<<done, edge>>, <<transfer>>, <<>>)
              [] OTHER -> Script(<<done, edge>>, <<transfer, row>>, <<>>)
    BY DEF DoneScript
<1> HIDE DEF transfer, done, edge, row, link
<1>4. /\ IsSeq(<<>>) /\ IsSeq(<<transfer>>) /\ IsSeq(<<done, edge>>) /\ IsSeq(<<transfer, row>>)
      /\ DOMAIN <<transfer>> = {1} /\ <<transfer>>[1] = transfer
      /\ DOMAIN <<transfer, row>> = {1, 2}
      /\ <<transfer, row>>[1] = transfer /\ <<transfer, row>>[2] = row
    BY Tuples
<1>5. CASE context.op = "preserve"
    <2>1. DoneScript(entry, context) = Script(<<>>, <<transfer>>, <<>>)
        BY <1>3, <1>5
    <2> QED
        BY <1>1, <1>4, <2>1
<1>6. CASE context.op # "preserve" /\ entry.row = None
    <2>1. DoneScript(entry, context) = Script(<<done, edge>>, <<transfer>>, <<>>)
        BY <1>3, <1>6
    <2> QED
        BY <1>1, <1>4, <2>1
<1>7. CASE context.op # "preserve" /\ entry.row # None
    <2>1. DoneScript(entry, context) = Script(<<done, edge>>, <<transfer, row>>, <<>>)
        BY <1>3, <1>7
    <2> QED
        BY <1>1, <1>2, <1>4, <1>7, <2>1
<1> QED
    BY <1>5, <1>6, <1>7

\* A transfer ends, and the receipt of an episode takes its context on.
LEMMA CompletedWire ==
    ASSUME OnePlace, AttemptsPending, NEW t, NEW context,
           NEW sent \in inflight, sent[1] = t, sent[2] = context,
           NEW receipt, receipt.context = context, receipt.transfer # None, receipt.row # None,
           inflight' = inflight \ {sent}, pending' = {p \in pending : p.transfer # t},
           envelope' = envelope, attempts' = attempts,
           receipts' = receipts
              \/ (context.epoch # 0 /\ receipts' = receipts \cup {receipt}),
           \A c : Awaited(c) => Awaited(c)'
    PROVE  OnePlace' /\ AttemptsPending'
<1>1. \A x \in inflight' : x[1] # t
    BY DEF AttemptsPending
<1>2. AttemptsPending'
    <2>1. \A x, y \in inflight' : x[1] = y[1] => x = y
        BY DEF AttemptsPending
    <2>2. \A x \in inflight' : \E other \in pending' : other.transfer = x[1]
        BY <1>1 DEF AttemptsPending
    <2>3. \A x \in inflight', other \in pending' :
                other.transfer = x[1] => (other.row = None <=> x[2].epoch = 0)
        BY DEF AttemptsPending
    <2>4. \A other \in pending' : other.transfer[2] \in 1..attempts'
        BY DEF AttemptsPending
    <2> QED
        BY <2>1, <2>2, <2>3, <2>4 DEF AttemptsPending
<1>3. CASE receipts' = receipts
    <2>1. envelope' \subseteq envelope /\ inflight' \subseteq inflight /\ receipts' \subseteq receipts
        BY <1>3
    <2>2. OnePlace'
        BY <2>1, OnePlaceLess
    <2> QED
        BY <1>2, <2>2
<1>4. CASE context.epoch # 0 /\ receipts' = receipts \cup {receipt}
    <2>1. /\ Awaited(context) /\ context # None
          /\ \A y \in inflight : y[2] = context => y = sent
          /\ \A other \in receipts : other.context # context
        BY <1>4 DEF OnePlace, Awaited
    <2>2. ASSUME NEW c \in envelope', c.epoch # 0
          PROVE  /\ Awaited(c)' /\ \A x \in inflight' : x[2] # c
                 /\ \A other \in receipts' : other.context # c
        <3>1. /\ Awaited(c) /\ \A x \in inflight : x[2] # c
              /\ \A other \in receipts : other.context # c
            BY <2>2 DEF OnePlace
        <3> QED
            BY <1>4, <3>1
    <2>3. ASSUME NEW x \in inflight', x[2].epoch # 0
          PROVE  /\ Awaited(x[2])' /\ \A y \in inflight' : y[2] = x[2] => y = x
                 /\ \A other \in receipts' : other.context # x[2]
        <3>1. /\ Awaited(x[2]) /\ \A y \in inflight : y[2] = x[2] => y = x
              /\ \A other \in receipts : other.context # x[2]
            BY <2>3 DEF OnePlace
        <3>2. x[2] # context
            BY <2>1, <2>3
        <3> QED
            BY <1>4, <3>1, <3>2
    <2>4. ASSUME NEW one \in receipts'
          PROVE  /\ ReceiptOK(one)' /\ Awaited(one.context)'
                 /\ \A other \in receipts' : other.context = one.context => other = one
        <3>1. CASE one \in receipts
            <4>1. /\ ReceiptOK(one) /\ Awaited(one.context)
                  /\ \A other \in receipts : other.context = one.context => other = one
                BY <3>1 DEF OnePlace
            <4>2. one.context # context
                BY <2>1, <3>1
            <4> QED
                BY <1>4, <4>1, <4>2 DEF ReceiptOK
        <3>2. CASE one = receipt
            <4>1. ReceiptOK(one)
                BY <2>1, <3>2 DEF ReceiptOK
            <4>2. \A other \in receipts' : other.context = one.context => other = one
                BY <1>4, <2>1, <3>2
            <4>3. Awaited(context)'
                BY <2>1
            <4> QED
                BY <3>2, <4>1, <4>2, <4>3 DEF ReceiptOK
        <3> QED
            BY <1>4, <3>1, <3>2
    <2>5. OnePlace'
        BY <2>2, <2>3, <2>4 DEF OnePlace
    <2> QED
        BY <1>2, <2>5
<1> QED
    BY <1>2, <1>3, <1>4

LEMMA TransferCompletedReady ==
    ASSUME RecoveryInv, Clean, Ready, Clean', NEW t, NEW context, TransferCompleted(t, context)
    PROVE  Ready'
<1> DEFINE entries == {p \in pending : p.transfer = t}
           chosen == CHOOSE p \in entries : TRUE
           sent == <<t, context>>
<1>1. /\ UNCHANGED <<host, epoch, known, issued, episodes, envelope, attempts, computes, made>>
      /\ sent \in inflight /\ inflight' = inflight \ {sent} /\ pending' = pending \ entries
    BY DEF TransferCompleted, hostVars, engineVars, planVars
<1>2. sent[1] = t /\ sent[2] = context
    OBVIOUS
<1> HIDE DEF sent
<1>3. OnePlace /\ AttemptsPending
    BY DEF Ready
<1>4. entries # {}
    BY <1>1, <1>2, <1>3 DEF AttemptsPending
<1>5. refusals = 0 /\ refusals' = 0
    BY DEF Clean
<1>6. PICK entry : entry = chosen
    OBVIOUS
<1>7. entry \in pending /\ entry.transfer = t
    BY <1>4, <1>6
<1>8. PICK k \in Outcomes("worker", DoneScript(entry, context)) :
            /\ Perform("worker", DoneScript(entry, context), k)
            /\ receipts' = IF k = Steps(DoneScript(entry, context)) /\ entry.row # None
                           THEN receipts \cup {Receipt(t, context)} ELSE receipts
    <2>1. ~Failing("worker", 1)
        BY <1>5 DEF Failing
    <2> QED
        BY <1>4, <1>6, <2>1 DEF TransferCompleted
<1>9. t[1] = "worker" /\ t # None
    <2>1. IsTransfer(t)
        BY <1>1, <1>2 DEF RecoveryInv, EvidenceInv, WorkerInv
    <2> QED
        BY <2>1, PairIsSome DEF IsTransfer
<1>10. PICK l, m :
            /\ IsSeq(l) /\ IsSeq(m) /\ DoneScript(entry, context) = Script(l, m, <<>>)
            /\ \A i \in DOMAIN m : m[i].type # "loss" /\ ValidRow(m[i], "worker")
    BY <1>7, <1>9, DoneRows
<1>11. \A q \in Processes : Lossless(q)'
    <2> DEFINE n == <<>>
    <2>1. IsSeq(n)
        BY Tuples
    <2>2. Perform("worker", Script(l, m, n), k)
        BY <1>8, <1>10
    <2>3. k \in Outcomes("worker", Script(l, m, n))
        BY <1>8, <1>10
    <2> HIDE DEF n
    <2>4. IsSeq(l) /\ IsSeq(m) /\ IsSeq(n)
        BY <1>10, <2>1
    <2>5. \A i \in DOMAIN m : m[i].type # "loss" /\ ValidRow(m[i], "worker")
        BY <1>10
    <2>6. k \in 0..Steps(Script(l, m, n)) /\ "worker" \in Processes
        BY <2>3 DEF Outcomes, Processes
    <2>7. \A q \in Processes : Lossless(q)'
        BY <2>2, <2>4, <2>5, <2>6, ReadyScript
    <2> QED
        BY <2>7
<1>12. /\ IssuedOK' /\ EntriesReady' /\ HostReady'
       /\ \A c : Awaited(c) => Awaited(c)'
    BY <1>1, EngineSame
<1>13. OnePlace' /\ AttemptsPending'
    <2>1. PICK receipt, pair : receipt = Receipt(t, context) /\ pair = sent
        OBVIOUS
    <2>2. receipt.context = context /\ receipt.transfer = t /\ receipt.row = NthRow("worker", 2)
        BY <2>1 DEF Receipt
    <2>3. receipt.transfer # None /\ receipt.row # None
        BY <1>9, <2>2, NthIsSome
    <2>4. entry.row # None => context.epoch # 0
        BY <1>1, <1>2, <1>3, <1>7 DEF AttemptsPending
    <2>5. receipts' = receipts \/ (context.epoch # 0 /\ receipts' = receipts \cup {receipt})
        BY <1>8, <2>1, <2>4
    <2>6. pending' = {p \in pending : p.transfer # t}
        BY <1>1
    <2>7. pair \in inflight /\ pair[1] = t /\ pair[2] = context /\ inflight' = inflight \ {pair}
        BY <1>1, <1>2, <2>1
    <2> HIDE DEF entries
    <2> QED
        BY <1>1, <1>3, <1>12, <2>2, <2>3, <2>5, <2>6, <2>7, CompletedWire
<1>14. ComputesReady'
    BY <1>1 DEF Ready, ComputesReady
<1> QED
    BY <1>11, <1>12, <1>13, <1>14, ReadyParts

\* A failing step, an optional step, a close and the end of a request stay.
Onward ==
    /\ RefusalStep /\ made \subseteq made'
    /\ \A p \in Processes : closed'[p] = "open" => closed[p] = "open"
    /\ \A r \in Requests : host[r] = "finished" => host'[r] = "finished"

LEMMA EngineOnward ==
    ASSUME PlainTypeOK, EngineNext
    PROVE  Onward
<1> USE DEF hostVars, engineVars, workerVars, wireVars, planVars
<1>1. ASSUME NEW r \in Requests, RequestStarted(r) PROVE Onward
    <2>1. RefusalStep
        BY <1>1, PerformRefusal, SameRefusal DEF RequestStarted
    <2> QED
        BY <1>1, <2>1 DEF Onward, RequestStarted, Occurs, PlainTypeOK
<1>2. ASSUME NEW r \in Requests, RequestScheduled(r) PROVE Onward
    <2>1. RefusalStep
        BY <1>2, DropRefusal, SameRefusal DEF RequestScheduled
    <2> QED
        BY <1>2, <2>1 DEF Onward, RequestScheduled, Occurs, PlainTypeOK
<1>3. ASSUME NEW r \in Requests, RequestPreempted(r) PROVE Onward
    <2>1. RefusalStep
        BY <1>3, PerformRefusal, DropRefusal, SameRefusal DEF RequestPreempted
    <2> QED
        BY <1>3, <2>1 DEF Onward, RequestPreempted, Occurs, PlainTypeOK
<1>4. ASSUME NEW r \in Requests, PreemptedAgain(r) PROVE Onward
    <2>1. RefusalStep
        BY <1>4, DropRefusal, SameRefusal DEF PreemptedAgain
    <2> QED
        BY <1>4, <2>1 DEF Onward, PreemptedAgain, Occurs, PlainTypeOK
<1>5. ASSUME NEW r \in Requests, AdmissionStarted(r) PROVE Onward
    <2>1. RefusalStep
        BY <1>5, PerformRefusal, SameRefusal DEF AdmissionStarted
    <2> QED
        BY <1>5, <2>1 DEF Onward, AdmissionStarted, Occurs, PlainTypeOK
<1>6. ASSUME NEW r \in Requests, RequestRequeued(r) PROVE Onward
    <2>1. RefusalStep
        BY <1>6, PerformRefusal DEF RequestRequeued
    <2> QED
        BY <1>6, <2>1 DEF Onward, RequestRequeued, Occurs, PlainTypeOK
<1>7. ASSUME NEW r \in Requests, NEW kind, RequestAdmitted(r, kind) PROVE Onward
    <2>1. RefusalStep
        BY <1>7, PerformRefusal, SameRefusal DEF RequestAdmitted
    <2> QED
        BY <1>7, <2>1 DEF Onward, RequestAdmitted, Occurs, PlainTypeOK
<1>8. ASSUME NEW r \in Requests, RequestTerminal(r) PROVE Onward
    <2>1. RefusalStep
        BY <1>8, DropRefusal DEF RequestTerminal, Abandoned
    <2> QED
        BY <1>8, <2>1 DEF Onward, RequestTerminal, Occurs, PlainTypeOK
<1>9. ASSUME NEW r \in Requests, NEW op, PrepareContext(r, op) PROVE Onward
    <2>1. RefusalStep
        BY <1>9, PerformRefusal, DropRefusal, SameRefusal DEF PrepareContext, PrepareUnassociated, PrepareRestore
    <2> QED
        BY <1>9, <2>1 DEF Onward, PrepareContext, Occurs, PlainTypeOK
<1>10. ASSUME NEW receipt, ConsumeReceipt(receipt) PROVE Onward
    <2>1. RefusalStep
        BY <1>10, DropRefusal, SameRefusal DEF ConsumeReceipt
    <2> QED
        BY <1>10, <2>1 DEF Onward, ConsumeReceipt, Occurs, PlainTypeOK
<1>11. CASE EngineReset
    <2>1. RefusalStep
        BY <1>11, DropRefusal DEF EngineReset, Abandoned
    <2> QED
        BY <1>11, <2>1 DEF Onward, EngineReset, Occurs, PlainTypeOK
<1>12. CASE EngineClose
    <2>1. RefusalStep
        BY <1>12, DropRefusal DEF EngineClose, Abandoned
    <2> QED
        BY <1>12, <2>1 DEF Onward, EngineClose, Occurs, PlainTypeOK
<1> QED
    BY <1>1, <1>2, <1>3, <1>4, <1>5, <1>6, <1>7, <1>8, <1>9, <1>10, <1>11, <1>12
    DEF EngineNext

LEMMA WorkerOnward ==
    ASSUME PlainTypeOK, WorkerNext
    PROVE  Onward
<1> USE DEF hostVars, engineVars, workerVars, wireVars, planVars
<1>1. ASSUME NEW context, TransferSubmitted(context) PROVE Onward
    <2>1. RefusalStep
        BY <1>1, PerformRefusal DEF TransferSubmitted
    <2> QED
        BY <1>1, <2>1 DEF Onward, TransferSubmitted, Occurs, PlainTypeOK
<1>2. ASSUME NEW context, TransferNotSubmitted(context) PROVE Onward
    <2>1. RefusalStep
        BY <1>2, SameRefusal DEF TransferNotSubmitted
    <2> QED
        BY <1>2, <2>1 DEF Onward, TransferNotSubmitted, Occurs, PlainTypeOK
<1>3. ASSUME NEW context, TransferUnobserved(context) PROVE Onward
    <2>1. RefusalStep
        BY <1>3, DropRefusal DEF TransferUnobserved
    <2> QED
        BY <1>3, <2>1 DEF Onward, TransferUnobserved, Occurs, PlainTypeOK
<1>4. ASSUME NEW t, NEW context, TransferCompleted(t, context) PROVE Onward
    <2>1. RefusalStep
        BY <1>4, PerformRefusal, DropRefusal DEF TransferCompleted
    <2> QED
        BY <1>4, <2>1 DEF Onward, TransferCompleted, Occurs, PlainTypeOK
<1>5. ASSUME NEW t, NEW context, TransferInvalidated(t, context) PROVE Onward
    <2>1. RefusalStep
        BY <1>5, PerformRefusal DEF TransferInvalidated
    <2> QED
        BY <1>5, <2>1 DEF Onward, TransferInvalidated, Occurs, PlainTypeOK
<1>6. ASSUME NEW receipt, ReceiptExhausted(receipt) PROVE Onward
    <2>1. RefusalStep
        BY <1>6 DEF ReceiptExhausted, RefusalStep
    <2> QED
        BY <1>6, <2>1 DEF Onward, ReceiptExhausted, Occurs, PlainTypeOK
<1>7. ASSUME NEW compute, FirstCompute(compute) PROVE Onward
    <2>1. RefusalStep
        BY <1>7, PerformRefusal, SameRefusal DEF FirstCompute
    <2> QED
        BY <1>7, <2>1 DEF Onward, FirstCompute, Occurs, PlainTypeOK
<1>8. CASE WaitCompleted
    <2>1. RefusalStep
        BY <1>8, PerformRefusal DEF WaitCompleted
    <2> QED
        BY <1>8, <2>1 DEF Onward, WaitCompleted, Occurs, PlainTypeOK
<1>9. ASSUME NEW disabled \in BOOLEAN, WorkerClose(disabled) PROVE Onward
    <2>1. RefusalStep
        BY <1>9, DropRefusal DEF WorkerClose
    <2> QED
        BY <1>9, <2>1 DEF Onward, WorkerClose, Occurs, PlainTypeOK
<1>10. ASSUME NEW disabled \in BOOLEAN, WorkerFailure(disabled) PROVE Onward
    <2>1. RefusalStep
        BY <1>10, DropRefusal DEF WorkerFailure
    <2> QED
        BY <1>10, <2>1 DEF Onward, WorkerFailure, Occurs, PlainTypeOK
<1>11. ASSUME NEW t, CompletedAgain(t) PROVE Onward
    <2>1. RefusalStep
        BY <1>11, DropRefusal DEF CompletedAgain
    <2> QED
        BY <1>11, <2>1 DEF Onward, CompletedAgain, Occurs, PlainTypeOK
<1> QED
    BY <1>1, <1>2, <1>3, <1>4, <1>5, <1>6, <1>7, <1>8, <1>9, <1>10, <1>11
    DEF WorkerNext

\* The actions that a clean step cannot be.
LEMMA NotClean ==
    ASSUME Clean, Clean'
    PROVE  /\ ~EngineReset /\ (DOMAIN closed = Processes => ~EngineClose)
           /\ \A r \in Requests : ~PreemptedAgain(r)
           /\ (\A r \in Requests : DOMAIN host = Requests => ~RequestTerminal(r))
           /\ \A context : ~TransferUnobserved(context)
           /\ \A t : ~CompletedAgain(t)
           /\ \A receipt : ~ReceiptExhausted(receipt)
           /\ \A disabled : DOMAIN closed = Processes => ~WorkerClose(disabled) /\ ~WorkerFailure(disabled)
<1>1. /\ refusals = 0 /\ refusals' = 0 /\ "repeat" \notin made' /\ "reset" \notin made'
      /\ \A p \in Processes : closed'[p] = "open"
      /\ \A r \in Requests : host'[r] # "finished"
    BY DEF Clean
<1>2. ~EngineReset
    BY <1>1 DEF EngineReset, Occurs
<1>3. \A r \in Requests : ~PreemptedAgain(r)
    BY <1>1 DEF PreemptedAgain, Occurs
<1>4. \A r \in Requests : DOMAIN host = Requests => ~RequestTerminal(r)
    BY <1>1 DEF RequestTerminal
<1>5. \A context : ~TransferUnobserved(context)
    BY <1>1 DEF TransferUnobserved, Failing
<1>6. \A receipt : ~ReceiptExhausted(receipt)
    BY <1>1 DEF ReceiptExhausted
<1>7. \A disabled : DOMAIN closed = Processes => ~WorkerClose(disabled) /\ ~WorkerFailure(disabled)
    BY <1>1 DEF WorkerClose, WorkerFailure, Processes
<1>8. DOMAIN closed = Processes => ~EngineClose
    BY <1>1 DEF EngineClose, Processes
<1>9. \A t : ~CompletedAgain(t)
    BY <1>1 DEF CompletedAgain, Occurs
<1> QED
    BY <1>2, <1>3, <1>4, <1>5, <1>6, <1>7, <1>8, <1>9

\* A step between clean states keeps what the adapters hold ready.
LEMMA ReadyStep ==
    ASSUME RecoveryInv, Clean, Ready, Clean', [Next]_vars
    PROVE  Ready'
<1>1. DOMAIN host = Requests /\ DOMAIN closed = Processes
    BY DEF RecoveryInv, PlainTypeOK
<1>2. CASE EngineNext
    BY <1>1, <1>2, NotClean, ConsumeReceiptReady, RequestStartedReady, RequestScheduledReady,
       RequestPreemptedReady, AdmissionStartedReady, RequestRequeuedReady, PrepareContextReady,
       RequestAdmittedReady
    DEF EngineNext
<1>3. CASE WorkerNext
    BY <1>1, <1>3, NotClean, WaitCompletedReady, TransferSubmittedReady,
       TransferNotSubmittedReady, TransferCompletedReady, TransferInvalidatedReady,
       FirstComputeReady
    DEF WorkerNext
<1>4. CASE UNCHANGED vars
    <2>1. UNCHANGED <<host, epoch, known, issued, episodes, envelope, inflight, pending, attempts,
                      receipts, computes, made, profile>>
        BY <1>4 DEF vars
    <2>2. /\ IssuedOK' /\ EntriesReady' /\ HostReady'
          /\ \A c : Awaited(c) => Awaited(c)'
        BY <2>1, EngineSame
    <2>3. OnePlace'
        BY <2>1, <2>2, WireSame DEF Ready
    <2>4. AttemptsPending' /\ ComputesReady'
        BY <2>1 DEF Ready, AttemptsPending, ComputesReady
    <2>5. \A p \in Processes : Lossless(p)'
        BY <2>1 DEF Ready, Lossless
    <2> QED
        BY <2>2, <2>3, <2>4, <2>5, ReadyParts
<1> QED
    BY <1>2, <1>3, <1>4 DEF Next, Rest

LEMMA CleanKept ==
    ASSUME RecoveryInv, CleanInv, [Next]_vars
    PROVE  CleanInv'
<1> SUFFICES ASSUME Clean' PROVE Ready'
    BY DEF CleanInv
<1>1. PlainTypeOK
    BY DEF RecoveryInv
<1>2. EngineNext => Onward
    BY <1>1, EngineOnward
<1>3. WorkerNext => Onward
    BY <1>1, WorkerOnward
<1>4. UNCHANGED vars => Onward
    BY DEF Onward, RefusalStep, vars
<1>5. Onward
    BY <1>2, <1>3, <1>4 DEF Next, Rest
<1>6. Clean
    BY <1>1, <1>5, CleanBefore DEF Onward
<1>7. Ready
    BY <1>6 DEF CleanInv
<1> QED
    BY <1>6, <1>7, ReadyStep

LEMMA CleanInit ==
    ASSUME Init
    PROVE  CleanInv
<1> USE DEF Init
<1>1. Episodes = {}
    BY DEF Episodes
<1>2. IssuedOK
    BY DEF IssuedOK, IsIssued, NoIssued
<1>3. \A p \in Processes : Lossless(p)
    <2>1. DOMAIN <<>> = {}
        BY Tuples
    <2> QED
        BY <2>1 DEF Lossless
<1>4. HostReady
    BY DEF HostReady
<1>5. EntriesReady /\ OnePlace /\ AttemptsPending /\ ComputesReady
    BY <1>1 DEF EntriesReady, OnePlace, AttemptsPending, ComputesReady
<1> QED
    BY <1>2, <1>3, <1>4, <1>5 DEF CleanInv, Ready

\* As long as nothing is refused, fails, is repeated, migrated or given up, no
\* shard has a loss: what an episode holds when a callback runs is enough for
\* every row that the callback puts together, the context of a restore being in
\* one place at a time: on its way to the worker, in flight, or on its way back.
THEOREM CleanRunIsLossless == Spec => []FaultFreeIsLossless
<1>1. Init => RecoveryInv /\ CleanInv
    BY InitEstablishes, CleanInit
<1>2. RecoveryInv /\ CleanInv /\ [Next]_vars => RecoveryInv' /\ CleanInv'
    BY NextKeeps, CleanKept
<1>3. CleanInv => FaultFreeIsLossless
    BY DEF CleanInv, Clean, Ready, FaultFreeIsLossless
<1> QED
    BY <1>1, <1>2, <1>3, PTL DEF Spec

-----------------------------------------------------------------------------
(* ProfileLedger: the in-memory ledger                                     *)

\* The shape of an element of _records and of _losses.
Entry == [type : Types, seq : Nat]
Interval == [reason : Reasons, first : Nat, last : Nat, counts : [Types -> Nat]]

\* Records and intervals lie below the next sequence number.
Below ==
    /\ \A i \in DOMAIN records : records[i].seq < next
    /\ \A i \in DOMAIN losses : losses[i].first <= losses[i].last /\ losses[i].last < next

\* Records and intervals are in the order of their sequence numbers.
Ordered ==
    /\ \A i, j \in DOMAIN records : i < j => records[i].seq < records[j].seq
    /\ \A i, j \in DOMAIN losses : i < j => losses[i].last < losses[j].first

\* No record has a sequence number of an interval.
Apart ==
    \A i \in DOMAIN records : \A j \in DOMAIN losses :
        records[i].seq < losses[j].first \/ losses[j].last < records[i].seq

\* n is the sequence number of a record or of an interval.
Accounted(n) ==
    \/ \E i \in DOMAIN records : records[i].seq = n
    \/ \E j \in DOMAIN losses : losses[j].first <= n /\ n <= losses[j].last

\* The inductive invariant: EverySequenceOnce number by number, and maximality.
LedgerInv ==
    /\ LedgerTypeOK /\ Below /\ Ordered /\ Apart /\ LossesMaximal
    /\ \A n \in Nat : n < next => Accounted(n)

-----------------------------------------------------------------------------

\* What write and drop leave of the invariant when they lose a record: the last
\* interval grows, or a new one begins at the sequence number just allocated.
LEMMA DropStep ==
    ASSUME LedgerInv, NEW type \in Types, NEW reason \in Reasons,
           Allocate, DropLocked(type, reason), UNCHANGED records
    PROVE  LedgerInv'
<1>0. /\ next \in Nat /\ next' = next + 1 /\ records' = records
      /\ next' \in 0..MaxSeq
  BY LedgerAssumption DEF LedgerInv, LedgerTypeOK, Allocate
<1>1. /\ records \in Seq(Entry)
      /\ losses \in Seq(Interval)
  BY DEF LedgerInv, LedgerTypeOK, Entry, Interval
<1>2. \A i \in DOMAIN records : records[i].seq \in Nat
  <2>1. \A i \in DOMAIN records : records[i] \in Entry
    BY <1>1
  <2> QED BY <2>1 DEF Entry
<1> DEFINE k == Len(losses)
<1>3. /\ k \in Nat /\ DOMAIN losses = 1..k
      /\ \A i \in 1..k : losses[i] \in Interval
  BY <1>1
<1>4. \A i \in 1..k : losses[i].first \in Nat /\ losses[i].last \in Nat
  BY <1>3 DEF Interval
<1> HIDE DEF k
<1>5. CASE Extends(reason)
  <2>1. k \in 1..k /\ losses[k].reason = reason /\ losses[k].last + 1 = next
    BY <1>1, <1>3, <1>5, EmptySeq DEF Extends, k
  <2> DEFINE grown == [losses[k] EXCEPT !.last = next,
                           !.counts = [losses[k].counts EXCEPT ![type] = @ + 1]]
  <2>2. losses' = [losses EXCEPT ![k] = grown]
    BY <1>3, <1>5, <2>1 DEF DropLocked, Extended, k
  <2>3. /\ grown \in Interval /\ grown.reason = reason /\ grown.last = next
        /\ grown.first = losses[k].first
    <3> DEFINE counts == [losses[k].counts EXCEPT ![type] = @ + 1]
    <3>1. losses[k] \in Interval /\ losses[k].counts \in [Types -> Nat]
      BY <1>3, <2>1 DEF Interval
    <3>2. counts \in [Types -> Nat]
      BY <3>1
    <3> HIDE DEF counts
    <3>3. grown = [losses[k] EXCEPT !.last = next, !.counts = counts]
      BY DEF counts
    <3> HIDE DEF grown
    <3> QED BY <1>0, <2>1, <3>1, <3>2, <3>3 DEF Interval
  <2> HIDE DEF grown
  <2>4. /\ losses' \in Seq(Interval) /\ DOMAIN losses' = 1..k
        /\ losses'[k] = grown
        /\ \A i \in 1..k : i # k => losses'[i] = losses[i]
    BY <1>1, <1>3, <2>1, <2>2, <2>3, ExceptSeq DEF k
  <2>5. LedgerTypeOK'
    BY <1>0, <1>1, <2>4 DEF LedgerTypeOK, Entry, Interval
  <2>6. Below'
    BY <1>0, <1>2, <1>3, <1>4, <2>1, <2>3, <2>4 DEF LedgerInv, Below
  <2>7. Ordered'
    BY <1>0, <1>2, <1>3, <1>4, <2>1, <2>3, <2>4 DEF LedgerInv, Ordered
  <2>8. Apart'
    <3> SUFFICES ASSUME NEW i \in DOMAIN records, NEW j \in 1..k
                 PROVE  \/ records[i].seq < losses'[j].first
                        \/ losses'[j].last < records[i].seq
      BY <1>0, <2>4 DEF Apart
    <3>1. /\ records[i].seq < losses[j].first \/ losses[j].last < records[i].seq
          /\ records[i].seq < next
      BY <1>3 DEF LedgerInv, Apart, Below
    <3>2. CASE j = k
      <4>1. records[i].seq < losses[k].first
        BY <1>0, <1>2, <1>4, <2>1, <3>1, <3>2
      <4> QED BY <2>3, <2>4, <3>2, <4>1
    <3>3. CASE j # k
      BY <2>4, <3>1, <3>3
    <3> QED BY <3>2, <3>3
  <2>9. LossesMaximal'
    <3> SUFFICES ASSUME NEW i \in 1..k, i > 1, losses'[i - 1].last + 1 = losses'[i].first
                 PROVE  losses'[i - 1].reason # losses'[i].reason
      BY <2>4 DEF LossesMaximal
    <3>1. /\ i - 1 \in 1..k /\ i - 1 # k
          /\ losses'[i - 1] = losses[i - 1]
      BY <1>3, <2>4
    <3>2. losses'[i].first = losses[i].first /\ losses'[i].reason = losses[i].reason
      BY <2>1, <2>3, <2>4
    <3>3. losses[i - 1].last + 1 = losses[i].first
      BY <3>1, <3>2
    <3> QED BY <1>3, <3>1, <3>2, <3>3 DEF LedgerInv, LossesMaximal
  <2>10. ASSUME NEW n \in Nat, n < next' PROVE Accounted(n)'
    <3>1. CASE n = next
      BY <1>0, <1>3, <1>4, <2>1, <2>3, <2>4, <3>1 DEF Accounted, LedgerInv, Below
    <3>2. CASE n < next
      <4>1. Accounted(n)
        BY <3>2 DEF LedgerInv
      <4>2. CASE \E i \in DOMAIN records : records[i].seq = n
        BY <1>0, <4>2 DEF Accounted
      <4>3. ASSUME NEW j \in 1..k, losses[j].first <= n, n <= losses[j].last
            PROVE  Accounted(n)'
        <5>1. losses'[j].first <= n /\ n <= losses'[j].last
          BY <1>0, <1>4, <2>1, <2>3, <2>4, <3>2, <4>3
        <5> QED BY <2>4, <5>1 DEF Accounted
      <4> QED BY <1>3, <4>1, <4>2, <4>3 DEF Accounted
    <3> QED BY <1>0, <2>10, <3>1, <3>2
  <2> QED BY <2>5, <2>6, <2>7, <2>8, <2>9, <2>10 DEF LedgerInv
<1>6. CASE ~Extends(reason)
  <2> DEFINE lost == [reason |-> reason, first |-> next, last |-> next,
                      counts |-> [t \in Types |-> IF t = type THEN 1 ELSE 0]]
  <2>1. losses' = Append(losses, lost)
    BY <1>6 DEF DropLocked
  <2>2. /\ lost \in Interval /\ lost.reason = reason
        /\ lost.first = next /\ lost.last = next
    BY <1>0 DEF Interval
  <2> HIDE DEF lost
  <2>3. /\ losses' \in Seq(Interval) /\ DOMAIN losses' = 1..(k + 1)
        /\ losses'[k + 1] = lost /\ k + 1 \in 1..(k + 1)
        /\ \A i \in 1..k : losses'[i] = losses[i] /\ i \in 1..(k + 1)
        /\ \A i \in 1..(k + 1) : i \in 1..k \/ i = k + 1
    BY <1>1, <1>3, <2>1, <2>2 DEF k
  <2>4. k > 0 => losses[k].reason # reason \/ losses[k].last + 1 # next
    BY <1>1, <1>6, EmptySeq DEF Extends, k
  <2>5. LedgerTypeOK'
    BY <1>0, <1>1, <2>3 DEF LedgerTypeOK, Entry, Interval
  <2>6. Below'
    BY <1>0, <1>2, <1>3, <1>4, <2>2, <2>3 DEF LedgerInv, Below
  <2>7. Ordered'
    BY <1>0, <1>2, <1>3, <1>4, <2>2, <2>3 DEF LedgerInv, Ordered, Below
  <2>8. Apart'
    BY <1>0, <1>2, <1>3, <1>4, <2>2, <2>3 DEF LedgerInv, Apart, Below
  <2>9. LossesMaximal'
    BY <1>0, <1>3, <1>4, <2>2, <2>3, <2>4 DEF LedgerInv, LossesMaximal
  <2>10. ASSUME NEW n \in Nat, n < next' PROVE Accounted(n)'
    <3>1. CASE n = next
      BY <1>0, <2>2, <2>3, <3>1 DEF Accounted
    <3>2. CASE n < next
      <4>1. Accounted(n)
        BY <3>2 DEF LedgerInv
      <4> QED BY <1>0, <1>3, <2>3, <4>1 DEF Accounted
    <3> QED BY <1>0, <2>10, <3>1, <3>2
  <2> QED BY <2>5, <2>6, <2>7, <2>8, <2>9, <2>10 DEF LedgerInv
<1> QED BY <1>5, <1>6

\* What write leaves of it when it takes the record.
LEMMA KeepStep ==
    ASSUME LedgerInv, NEW type \in Types, Allocate,
           records' = Append(records, [type |-> type, seq |-> next]), UNCHANGED losses
    PROVE  LedgerInv'
<1> DEFINE kept == [type |-> type, seq |-> next]
           k == Len(records)
<1>0. /\ next \in Nat /\ next' = next + 1 /\ losses' = losses
      /\ next' \in 0..MaxSeq
  BY LedgerAssumption DEF LedgerInv, LedgerTypeOK, Allocate
<1>1. /\ records \in Seq(Entry)
      /\ losses \in Seq(Interval)
  BY DEF LedgerInv, LedgerTypeOK, Entry, Interval
<1>2. kept \in Entry /\ kept.seq = next
  BY <1>0 DEF Entry
<1>3. records' = Append(records, kept)
  OBVIOUS
<1> HIDE DEF kept
<1>4. /\ k \in Nat /\ DOMAIN records = 1..k /\ DOMAIN records' = 1..(k + 1)
      /\ records' \in Seq(Entry)
      /\ records'[k + 1] = kept /\ k + 1 \in 1..(k + 1)
      /\ \A i \in 1..k : records'[i] = records[i] /\ i \in 1..(k + 1)
      /\ \A i \in 1..(k + 1) : i \in 1..k \/ i = k + 1
  BY <1>1, <1>2, <1>3
<1>5. \A i \in 1..k : records[i].seq \in Nat
  <2>1. \A i \in 1..k : records[i] \in Entry
    BY <1>1, <1>4
  <2> QED BY <2>1 DEF Entry
<1> HIDE DEF k
<1>6. \A j \in DOMAIN losses : losses[j].first \in Nat /\ losses[j].last \in Nat
  <2>1. \A j \in DOMAIN losses : losses[j] \in Interval
    BY <1>1
  <2> QED BY <2>1 DEF Interval
<1>7. LedgerTypeOK'
  BY <1>0, <1>1, <1>4 DEF LedgerTypeOK, Entry, Interval
<1>8. Below'
  BY <1>0, <1>2, <1>4, <1>5, <1>6 DEF LedgerInv, Below
<1>9. Ordered'
  BY <1>0, <1>2, <1>4, <1>5, <1>6 DEF LedgerInv, Ordered, Below
<1>10. Apart'
  BY <1>0, <1>2, <1>4, <1>5, <1>6 DEF LedgerInv, Apart, Below
<1>11. LossesMaximal'
  BY <1>0 DEF LedgerInv, LossesMaximal
<1>12. ASSUME NEW n \in Nat, n < next' PROVE Accounted(n)'
  <2>1. CASE n = next
    BY <1>0, <1>2, <1>4, <2>1 DEF Accounted
  <2>2. CASE n < next
    <3>1. Accounted(n)
      BY <2>2 DEF LedgerInv
    <3> QED BY <1>0, <1>4, <3>1 DEF Accounted
  <2> QED BY <1>0, <1>12, <2>1, <2>2
<1> QED BY <1>7, <1>8, <1>9, <1>10, <1>11, <1>12 DEF LedgerInv

\* The invariant is inductive for every step of the ledger.
THEOREM LedgerInvariance == LedgerSpec => []LedgerInv
<1>1. LedgerInit => LedgerInv
  BY LedgerAssumption DEF LedgerInit, LedgerInv, LedgerTypeOK, Below, Ordered, Apart,
                          LossesMaximal
<1>2. LedgerInv /\ [LedgerNext]_ledgerVars => LedgerInv'
  <2> SUFFICES ASSUME LedgerInv, [LedgerNext]_ledgerVars PROVE LedgerInv'
    OBVIOUS
  <2>0. {"queue_overflow", "serialization_failure"} \subseteq Reasons
    BY LedgerAssumption
  <2>1. ASSUME NEW type \in Types, NEW stamped \in BOOLEAN, Write(type, stamped)
        PROVE  LedgerInv'
    <3>1. CASE /\ records' = Append(records, [type |-> type, seq |-> next])
               /\ UNCHANGED losses
      BY <2>1, <3>1, KeepStep DEF Write
    <3>2. ASSUME NEW reason \in Reasons, DropLocked(type, reason), UNCHANGED records
          PROVE  LedgerInv'
      BY <2>1, <3>2, DropStep DEF Write
    <3> QED BY <2>0, <2>1, <3>1, <3>2 DEF Write
  <2>2. ASSUME NEW type \in Types, NEW reason \in Reasons, DropRecord(type, reason)
        PROVE  LedgerInv'
    BY <2>2, DropStep DEF DropRecord
  <2>3. CASE UNCHANGED ledgerVars
    BY <2>3 DEF ledgerVars, LedgerInv, LedgerTypeOK, Below, Ordered, Apart, LossesMaximal,
                Accounted
  <2> QED BY <2>1, <2>2, <2>3 DEF LedgerNext, LedgerRest
<1> QED BY <1>1, <1>2, PTL DEF LedgerSpec

\* Number by number, the invariant is EverySequenceOnce.
LEMMA InvImpliesOnce == LedgerInv => EverySequenceOnce
<1> SUFFICES ASSUME LedgerInv PROVE EverySequenceOnce
  OBVIOUS
<1>0. /\ next \in Nat
      /\ \A i \in DOMAIN records : records[i].seq \in Nat
      /\ \A j \in DOMAIN losses : losses[j].first \in Nat /\ losses[j].last \in Nat
  <2>1. /\ next \in Nat /\ records \in Seq(Entry) /\ losses \in Seq(Interval)
    BY LedgerAssumption DEF LedgerInv, LedgerTypeOK, Entry, Interval
  <2>2. /\ \A i \in DOMAIN records : records[i] \in Entry
        /\ \A j \in DOMAIN losses : losses[j] \in Interval
    BY <2>1
  <2> QED BY <2>1, <2>2 DEF Entry, Interval
<1>1. Written \cap LostSeqs = {}
  BY <1>0 DEF LedgerInv, Apart, Written, LostSeqs, Seqs
<1>2. Written \cup LostSeqs = 0..(next - 1)
  <2>1. ASSUME NEW n \in Written \cup LostSeqs PROVE n \in 0..(next - 1)
    BY <1>0, <2>1 DEF LedgerInv, Below, Written, LostSeqs, Seqs
  <2>2. ASSUME NEW n \in 0..(next - 1) PROVE n \in Written \cup LostSeqs
    <3>1. n \in Nat /\ n < next
      BY <1>0, <2>2
    <3>2. Accounted(n)
      BY <3>1 DEF LedgerInv
    <3> QED BY <1>0, <3>1, <3>2 DEF Accounted, Written, LostSeqs, Seqs
  <2> QED BY <2>1, <2>2
<1> QED BY <1>1, <1>2 DEF LedgerInv, Ordered, EverySequenceOnce

\* Every sequence number the ledger gave out is that of one record or lies in
\* one loss interval, whatever was written, refused or dropped.
THEOREM SequencesOnce == LedgerSpec => []EverySequenceOnce
<1> QED BY InvImpliesOnce, LedgerInvariance, PTL

-----------------------------------------------------------------------------
(* The counts of an interval add up                                        *)

\* One more loss of a type is one more loss counted.
LEMMA OneMoreCounted ==
    ASSUME NEW counts \in [Types -> Nat], NEW more \in [Types -> Nat], NEW type \in Types,
           more[type] = counts[type] + 1,
           \A t \in Types : t # type => more[t] = counts[t],
           IsFiniteSet(Counted(counts))
    PROVE  IsFiniteSet(Counted(more)) /\ CountOf(more) = CountOf(counts) + 1
<1> DEFINE new == <<type, counts[type] + 1>>
<1>1. \A p : p \in Counted(counts) <=> \E t \in Types : \E n \in 1..counts[t] : p = <<t, n>>
  BY DEF Counted
<1>2. \A p : p \in Counted(more) <=> \E t \in Types : \E n \in 1..more[t] : p = <<t, n>>
  BY DEF Counted
<1>3. 1..more[type] = (1..counts[type]) \cup {counts[type] + 1}
  OBVIOUS
<1>4. \A p : p \in Counted(more) <=> p \in Counted(counts) \/ p = new
  <2> TAKE p
  <2>1. ASSUME p \in Counted(more) PROVE p \in Counted(counts) \/ p = new
    <3>1. PICK t \in Types : \E n \in 1..more[t] : p = <<t, n>>
      BY <1>2, <2>1
    <3>2. PICK n \in 1..more[t] : p = <<t, n>>
      BY <3>1
    <3> QED BY <1>1, <1>3, <3>2
  <2>2. ASSUME p \in Counted(counts) PROVE p \in Counted(more)
    <3>1. PICK t \in Types : \E n \in 1..counts[t] : p = <<t, n>>
      BY <1>1, <2>2
    <3>2. PICK n \in 1..counts[t] : p = <<t, n>>
      BY <3>1
    <3>3. n \in 1..more[t]
      BY <1>3, <3>2
    <3> QED BY <1>2, <3>2, <3>3
  <2>3. new \in Counted(more)
    <3>1. counts[type] + 1 \in 1..more[type]
      OBVIOUS
    <3> QED BY <1>2, <3>1
  <2> QED BY <2>1, <2>2, <2>3
<1>5. new \notin Counted(counts)
  BY <1>1
<1> HIDE DEF new
<1>6. Counted(more) = Counted(counts) \cup {new}
  BY <1>4
<1> QED BY <1>5, <1>6, FS_AddElement DEF CountOf

LEMMA OneCounted ==
    ASSUME NEW counts \in [Types -> Nat], NEW type \in Types, counts[type] = 1,
           \A t \in Types : t # type => counts[t] = 0
    PROVE  IsFiniteSet(Counted(counts)) /\ CountOf(counts) = 1
<1>1. \A p : p \in Counted(counts) <=> \E t \in Types : \E n \in 1..counts[t] : p = <<t, n>>
  BY DEF Counted
<1>2. 1..counts[type] = {1} /\ \A t \in Types : t # type => 1..counts[t] = {}
  OBVIOUS
<1>3. \A p : p \in Counted(counts) <=> p = <<type, 1>>
  BY <1>1, <1>2
<1>4. Counted(counts) = {<<type, 1>>}
  BY <1>3
<1> QED BY <1>4, FS_Singleton DEF CountOf

\* The counts of every interval are those of its losses.
CountsAdd ==
    \A i \in DOMAIN losses :
        /\ IsFiniteSet(Counted(losses[i].counts))
        /\ CountOf(losses[i].counts) = losses[i].last - losses[i].first + 1

LEMMA DropCounts ==
    ASSUME LedgerInv, CountsAdd, NEW type \in Types, NEW reason \in Reasons,
           DropLocked(type, reason)
    PROVE  CountsAdd'
<1>0. next \in Nat
  BY LedgerAssumption DEF LedgerInv, LedgerTypeOK
<1>1. losses \in Seq(Interval)
  BY DEF LedgerInv, LedgerTypeOK, Interval
<1> DEFINE k == Len(losses)
<1>2. /\ k \in Nat /\ DOMAIN losses = 1..k
      /\ \A i \in 1..k : losses[i] \in Interval
  BY <1>1
<1> HIDE DEF k
<1>3. CASE Extends(reason)
  <2>1. k \in 1..k /\ losses[k].reason = reason /\ losses[k].last + 1 = next
    BY <1>1, <1>2, <1>3, EmptySeq DEF Extends, k
  <2> DEFINE counts == losses[k].counts
             more == [counts EXCEPT ![type] = @ + 1]
             grown == [losses[k] EXCEPT !.last = next, !.counts = more]
  <2>2. losses' = [losses EXCEPT ![k] = grown]
    BY <1>2, <1>3, <2>1 DEF DropLocked, Extended, k
  <2>3. /\ losses[k] \in Interval /\ counts \in [Types -> Nat]
        /\ losses[k].first \in Nat /\ losses[k].last \in Nat
    BY <1>2, <2>1 DEF Interval
  <2>4. /\ more \in [Types -> Nat] /\ more[type] = counts[type] + 1
        /\ \A t \in Types : t # type => more[t] = counts[t]
    BY <2>3
  <2>5. /\ IsFiniteSet(Counted(counts))
        /\ CountOf(counts) = losses[k].last - losses[k].first + 1
    BY <1>2, <2>1 DEF CountsAdd
  <2> HIDE DEF counts, more
  <2>6. IsFiniteSet(Counted(more)) /\ CountOf(more) = CountOf(counts) + 1
    BY <2>3, <2>4, <2>5, OneMoreCounted
  <2>7. grown.first = losses[k].first /\ grown.last = next /\ grown.counts = more
    BY <2>3 DEF Interval
  <2> HIDE DEF grown
  <2>8. CountOf(grown.counts) = grown.last - grown.first + 1
    BY <2>1, <2>3, <2>5, <2>6, <2>7
  <2>9. /\ DOMAIN losses' = 1..k /\ losses'[k] = grown
        /\ \A i \in 1..k : i # k => losses'[i] = losses[i]
    BY <1>2, <2>1, <2>2
  <2> QED BY <1>2, <2>6, <2>7, <2>8, <2>9 DEF CountsAdd
<1>4. CASE ~Extends(reason)
  <2> DEFINE counts == [t \in Types |-> IF t = type THEN 1 ELSE 0]
             lost == [reason |-> reason, first |-> next, last |-> next, counts |-> counts]
  <2>1. losses' = Append(losses, lost)
    BY <1>4 DEF DropLocked
  <2>2. IsFiniteSet(Counted(counts)) /\ CountOf(counts) = 1
    <3>1. /\ counts \in [Types -> Nat] /\ counts[type] = 1
          /\ \A t \in Types : t # type => counts[t] = 0
      OBVIOUS
    <3> HIDE DEF counts
    <3> QED BY <3>1, OneCounted
  <2>3. lost.first = next /\ lost.last = next /\ lost.counts = counts
    OBVIOUS
  <2>4. lost \in Interval
    BY <1>0 DEF Interval
  <2> HIDE DEF counts, lost
  <2>5. CountOf(lost.counts) = lost.last - lost.first + 1
    BY <1>0, <2>2, <2>3
  <2>6. /\ DOMAIN losses' = 1..(k + 1) /\ losses'[k + 1] = lost
        /\ \A i \in 1..k : losses'[i] = losses[i]
        /\ \A i \in 1..(k + 1) : i \in 1..k \/ i = k + 1
    BY <1>1, <1>2, <2>1, <2>4 DEF k
  <2> QED BY <1>2, <2>2, <2>3, <2>5, <2>6 DEF CountsAdd
<1> QED BY <1>3, <1>4

\* Every interval of the ledger is one that build_profile_loss_interval_record
\* accepts, and no two of them could have been one: _drop_locked keeps the counts
\* of the record types in step with the range it extends.
THEOREM IntervalsSound == LedgerSpec => []IntervalsWellFormed
<1>1. LedgerInit => CountsAdd
  BY DEF LedgerInit, CountsAdd
<1>2. LedgerInv /\ CountsAdd /\ [LedgerNext]_ledgerVars => CountsAdd'
  <2> SUFFICES ASSUME LedgerInv, CountsAdd, [LedgerNext]_ledgerVars PROVE CountsAdd'
    OBVIOUS
  <2>1. CASE UNCHANGED losses
    BY <2>1 DEF CountsAdd
  <2>2. CASE \E type \in Types, reason \in Reasons : DropLocked(type, reason)
    BY <2>2, DropCounts
  <2> QED BY <2>1, <2>2, LedgerAssumption DEF LedgerNext, LedgerRest, ledgerVars, Write, DropRecord
<1>3. LedgerInv /\ CountsAdd => IntervalsWellFormed
  BY DEF LedgerInv, CountsAdd, IntervalsWellFormed, LossRecordsBuild, Below
<1> QED BY <1>1, <1>2, <1>3, LedgerInvariance, PTL DEF LedgerSpec
=============================================================================
