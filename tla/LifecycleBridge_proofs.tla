----------------------- MODULE LifecycleBridge_proofs -----------------------
(***************************************************************************)
(* Theorems about LifecycleBridge, for any number of requests, preemptions *)
(* and refused records, and any interleaving of the core thread with the   *)
(* observer's threads.                                                     *)
(***************************************************************************)
EXTENDS LifecycleBridge, SequenceTheorems, FiniteSetTheorems, TLAPS

-----------------------------------------------------------------------------
(* The log of one request                                                  *)

\* A span is named after the event that starts it, and ended later.
WellFormed(l) ==
    \A i \in DOMAIN l : l[i].start \in {0, i} /\ l[i].ends \subseteq 1..(i - 1)

\* The event that ends a span has an edge from the one that started it.
Linked(l, E) == \A j \in DOMAIN l : \A s \in l[j].ends : <<s, j>> \in E

\* The pair of event and span that the bridge keeps is one of the log.
Pair(l, started, span) ==
    started \in 1..Len(l) /\ span = started /\ l[started].start = started

Grown(l, m) == Len(l) <= Len(m) /\ \A i \in 1..Len(l) : m[i] = l[i]

Epochal(l) ==
    \A i \in DOMAIN l : l[i].epoch = Cardinality({j \in Named(l, "requeued") : j <= i})

EndsOnce(l) ==
    \A j, k \in DOMAIN l : \A s : s \in l[j].ends /\ s \in l[k].ends => j = k

\* A log without a terminal, with the open spans o, in its n-th epoch.
Trace(l, o, n) ==
    /\ Epochal(l) /\ EndsOnce(l)
    /\ Named(l, "terminal") = {}
    /\ Open(l) = o
    /\ Cardinality(Named(l, "requeued")) = n

\* A log whose lifecycle is over, as EpochsFollowRequeues and SpansBalanced ask.
Finished(l) ==
    /\ Epochal(l)
    /\ \A t \in Named(l, "terminal") :
          /\ t = Len(l)
          /\ l[t - 1].name \notin {"admission_started", "resumed"} =>
                \A s \in Started(l) : Cardinality(EndsOf(l, s)) = 1

LEMMA AppendFacts ==
    ASSUME NEW l \in Seq(EventRecord), NEW v \in EventRecord
    PROVE  /\ Append(l, v) \in Seq(EventRecord)
           /\ Len(l) \in Nat
           /\ Len(Append(l, v)) = Len(l) + 1
           /\ DOMAIN l = 1..Len(l)
           /\ DOMAIN Append(l, v) = 1..(Len(l) + 1)
           /\ \A i \in 1..Len(l) : Append(l, v)[i] = l[i]
           /\ Append(l, v)[Len(l) + 1] = v
           /\ Grown(l, Append(l, v))
<1>1. /\ Append(l, v) \in Seq(EventRecord)
      /\ Len(Append(l, v)) = Len(l) + 1
      /\ \A i \in 1..Len(l) : Append(l, v)[i] = l[i]
      /\ Append(l, v)[Len(l) + 1] = v
  BY AppendProperties
<1>2. /\ Len(l) \in Nat
      /\ DOMAIN l = 1..Len(l)
      /\ DOMAIN Append(l, v) = 1..Len(Append(l, v))
  BY <1>1, LenProperties
<1>. QED BY <1>1, <1>2 DEF Grown

LEMMA GrownPair ==
    ASSUME NEW l, NEW m, Len(l) \in Nat, Len(m) \in Nat, Grown(l, m),
           NEW started, NEW span, Pair(l, started, span)
    PROVE  Pair(m, started, span)
BY DEF Grown, Pair

LEMMA NamedFinite ==
    ASSUME NEW l \in Seq(EventRecord), NEW name
    PROVE  /\ IsFiniteSet(Named(l, name))
           /\ Cardinality(Named(l, name)) \in Nat
<1>1. Len(l) \in Nat /\ DOMAIN l = 1..Len(l)
  BY LenProperties
<1>2. IsFiniteSet(1..Len(l))
  BY <1>1, FS_Interval
<1>3. Named(l, name) \in SUBSET (1..Len(l))
  BY <1>1 DEF Named
<1>4. IsFiniteSet(Named(l, name))
  BY <1>2, <1>3, FS_Subset
<1>. QED BY <1>4, FS_CardinalityType

\* What one more event adds to the events with a name.
LEMMA NamedAppend ==
    ASSUME NEW l \in Seq(EventRecord), NEW v \in EventRecord, NEW name
    PROVE  /\ v.name = name =>
                 /\ Named(Append(l, v), name) = Named(l, name) \cup {Len(l) + 1}
                 /\ Cardinality(Named(Append(l, v), name)) = Cardinality(Named(l, name)) + 1
           /\ v.name # name => Named(Append(l, v), name) = Named(l, name)
           /\ \A i \in 1..Len(l) : {j \in Named(Append(l, v), name) : j <= i} =
                                   {j \in Named(l, name) : j <= i}
<1>1. /\ Len(l) \in Nat
      /\ DOMAIN l = 1..Len(l)
      /\ DOMAIN Append(l, v) = 1..(Len(l) + 1)
      /\ \A i \in 1..Len(l) : Append(l, v)[i] = l[i]
      /\ Append(l, v)[Len(l) + 1] = v
  BY AppendFacts
<1>2. v.name = name => Named(Append(l, v), name) = Named(l, name) \cup {Len(l) + 1}
  BY <1>1 DEF Named
<1>3. v.name # name => Named(Append(l, v), name) = Named(l, name)
  BY <1>1 DEF Named
<1>4. \A i \in 1..Len(l) : {j \in Named(Append(l, v), name) : j <= i} =
                           {j \in Named(l, name) : j <= i}
  BY <1>1, <1>2, <1>3 DEF Named
<1>5. Len(l) + 1 \notin Named(l, name)
  BY <1>1 DEF Named
<1>6. Cardinality(Named(l, name) \cup {Len(l) + 1}) = Cardinality(Named(l, name)) + 1
  BY <1>5, NamedFinite, FS_AddElement
<1>. QED BY <1>2, <1>3, <1>4, <1>6

LEMMA EpochalAppend ==
    ASSUME NEW l \in Seq(EventRecord), NEW v \in EventRecord, Epochal(l),
           v.epoch = Cardinality(Named(Append(l, v), "requeued"))
    PROVE  Epochal(Append(l, v))
<1>1. /\ Len(l) \in Nat
      /\ DOMAIN l = 1..Len(l)
      /\ DOMAIN Append(l, v) = 1..(Len(l) + 1)
      /\ \A i \in 1..Len(l) : Append(l, v)[i] = l[i]
      /\ Append(l, v)[Len(l) + 1] = v
  BY AppendFacts
<1>2. {j \in Named(Append(l, v), "requeued") : j <= Len(l) + 1} = Named(Append(l, v), "requeued")
  BY <1>1 DEF Named
<1>3. ASSUME NEW i \in 1..Len(l)
      PROVE  Append(l, v)[i].epoch =
                 Cardinality({j \in Named(Append(l, v), "requeued") : j <= i})
  <2>1. Append(l, v)[i].epoch = l[i].epoch
    BY <1>1
  <2>2. l[i].epoch = Cardinality({j \in Named(l, "requeued") : j <= i})
    BY <1>1 DEF Epochal
  <2>3. {j \in Named(Append(l, v), "requeued") : j <= i} = {j \in Named(l, "requeued") : j <= i}
    BY NamedAppend
  <2>. QED BY <2>1, <2>2, <2>3
<1>4. Append(l, v)[Len(l) + 1].epoch =
          Cardinality({j \in Named(Append(l, v), "requeued") : j <= Len(l) + 1})
  BY <1>1, <1>2
<1>5. ASSUME NEW i \in DOMAIN Append(l, v)
      PROVE  Append(l, v)[i].epoch =
                 Cardinality({j \in Named(Append(l, v), "requeued") : j <= i})
  <2>1. i \in 1..Len(l) \/ i = Len(l) + 1
    BY <1>1
  <2>. QED BY <2>1, <1>3, <1>4
<1>. QED BY <1>5 DEF Epochal

LEMMA OpenAppend ==
    ASSUME NEW l \in Seq(EventRecord), NEW v \in EventRecord, WellFormed(l),
           v.start \in {0, Len(l) + 1}, v.ends \subseteq 1..Len(l)
    PROVE  Open(Append(l, v)) = (Open(l) \ v.ends) \cup ({v.start} \ {0})
<1>. DEFINE m == Append(l, v)
<1>1. /\ Len(l) \in Nat
      /\ DOMAIN l = 1..Len(l)
      /\ DOMAIN m = 1..(Len(l) + 1)
      /\ \A i \in 1..Len(l) : m[i] = l[i]
      /\ m[Len(l) + 1] = v
  BY AppendFacts
<1>. HIDE DEF m
<1>2. Started(m) = Started(l) \cup ({v.start} \ {0})
  BY <1>1 DEF Started
<1>3. \A s : EndsOf(m, s) = EndsOf(l, s) \cup (IF s \in v.ends THEN {Len(l) + 1} ELSE {})
  BY <1>1 DEF EndsOf
<1>4. EndsOf(l, Len(l) + 1) = {} /\ Len(l) + 1 \notin v.ends
  BY <1>1 DEF EndsOf, WellFormed
<1>5. Len(l) + 1 \notin Started(l)
  BY <1>1 DEF Started, WellFormed
<1>6. \A s : s \in Open(m) <=> s \in (Open(l) \ v.ends) \cup ({v.start} \ {0})
  BY <1>1, <1>2, <1>3, <1>4, <1>5 DEF Open
<1>. QED BY <1>6 DEF m

\* An event that ends open spans and is in the right epoch keeps the log in order.
LEMMA TraceAppend ==
    ASSUME NEW l \in Seq(EventRecord), NEW v \in EventRecord, WellFormed(l),
           NEW o, NEW n \in Nat, Trace(l, o, n),
           v.start \in {0, Len(l) + 1}, v.ends \subseteq o,
           v.name # "terminal",
           v.epoch = IF v.name = "requeued" THEN n + 1 ELSE n
    PROVE  Trace(Append(l, v), (o \ v.ends) \cup ({v.start} \ {0}), v.epoch)
<1>. DEFINE m == Append(l, v)
<1>1. /\ Len(l) \in Nat
      /\ DOMAIN l = 1..Len(l)
      /\ DOMAIN m = 1..(Len(l) + 1)
      /\ \A i \in 1..Len(l) : m[i] = l[i]
      /\ m[Len(l) + 1] = v
  BY AppendFacts
<1>2. v.epoch = Cardinality(Named(m, "requeued"))
  BY NamedAppend DEF Trace
<1>3. Epochal(m)
  BY <1>2, EpochalAppend DEF Trace
<1>4. Named(m, "terminal") = {}
  BY NamedAppend DEF Trace
<1>5. v.ends \subseteq 1..Len(l)
  BY <1>1 DEF Trace, Open, Started, WellFormed
<1>6. Open(m) = (o \ v.ends) \cup ({v.start} \ {0})
  BY <1>5, OpenAppend DEF Trace
<1>7. EndsOnce(m)
  <2>1. \A s \in v.ends : \A j \in DOMAIN l : s \notin l[j].ends
    BY DEF Trace, Open, EndsOf
  <2>. HIDE DEF m
  <2>. QED BY <1>1, <2>1 DEF EndsOnce, Trace
<1>. QED BY <1>2, <1>3, <1>4, <1>6, <1>7 DEF Trace

LEMMA SoundAppend ==
    ASSUME NEW l \in Seq(EventRecord), NEW v \in EventRecord, NEW E, NEW F,
           WellFormed(l), Linked(l, E), E \subseteq F,
           v.start \in {0, Len(l) + 1}, v.ends \subseteq 1..Len(l),
           \A s \in v.ends : <<s, Len(l) + 1>> \in F
    PROVE  WellFormed(Append(l, v)) /\ Linked(Append(l, v), F)
<1>. DEFINE m == Append(l, v)
<1>1. /\ Len(l) \in Nat
      /\ DOMAIN l = 1..Len(l)
      /\ DOMAIN m = 1..(Len(l) + 1)
      /\ \A i \in 1..Len(l) : m[i] = l[i]
      /\ m[Len(l) + 1] = v
  BY AppendFacts
<1>. HIDE DEF m
<1>2. WellFormed(m)
  BY <1>1 DEF WellFormed
<1>3. Linked(m, F)
  <2>1. SUFFICES ASSUME NEW j \in DOMAIN m, NEW s \in m[j].ends
                 PROVE  <<s, j>> \in F
    BY DEF Linked
  <2>2. CASE j \in 1..Len(l)
    BY <1>1, <2>2 DEF Linked
  <2>3. CASE j = Len(l) + 1
    BY <1>1, <2>3
  <2>. QED BY <1>1, <2>2, <2>3
<1>. QED BY <1>2, <1>3 DEF m

\* A terminal that ends exactly what is open.
LEMMA FinishedAppend ==
    ASSUME NEW l \in Seq(EventRecord), NEW v \in EventRecord, WellFormed(l),
           NEW o, NEW n \in Nat, Trace(l, o, n),
           v.name = "terminal", v.start = 0, v.epoch = n,
           v.ends = o \/ l[Len(l)].name \in {"admission_started", "resumed"}
    PROVE  Finished(Append(l, v))
<1>. DEFINE m == Append(l, v)
<1>1. /\ Len(l) \in Nat
      /\ DOMAIN l = 1..Len(l)
      /\ DOMAIN m = 1..(Len(l) + 1)
      /\ Len(m) = Len(l) + 1
      /\ \A i \in 1..Len(l) : m[i] = l[i]
      /\ m[Len(l) + 1] = v
  BY AppendFacts
<1>2. v.epoch = Cardinality(Named(m, "requeued"))
  BY NamedAppend DEF Trace
<1>3. Epochal(m)
  BY <1>2, EpochalAppend DEF Trace
<1>4. Named(m, "terminal") = {Len(l) + 1}
  BY NamedAppend DEF Trace
<1>5. ASSUME v.ends = o, NEW s \in Started(m)
      PROVE  Cardinality(EndsOf(m, s)) = 1
  <2>. HIDE DEF m
  <2>1. s \in Started(l)
    BY <1>1 DEF Started
  <2>2. EndsOf(m, s) = EndsOf(l, s) \cup (IF s \in v.ends THEN {Len(l) + 1} ELSE {})
    BY <1>1 DEF EndsOf
  <2>3. s \in v.ends <=> EndsOf(l, s) = {}
    BY <1>5, <2>1 DEF Trace, Open
  <2>4. \A j, k \in EndsOf(l, s) : j = k
    BY DEF EndsOf, EndsOnce, Trace
  <2>5. \E j : EndsOf(m, s) = {j}
    <3>1. CASE s \in v.ends
      BY <2>2, <2>3, <3>1
    <3>2. CASE s \notin v.ends
      <4>1. PICK j : j \in EndsOf(l, s)
        BY <2>3, <3>2
      <4>2. EndsOf(m, s) = EndsOf(l, s)
        BY <2>2, <3>2
      <4>3. EndsOf(l, s) = {j}
        BY <2>4, <4>1
      <4>. QED BY <4>2, <4>3
    <3>. QED BY <3>1, <3>2
  <2>. QED BY <2>5, FS_Singleton
<1>6. ASSUME l[Len(l)].name \in {"admission_started", "resumed"}, Len(l) # 0
      PROVE  m[(Len(l) + 1) - 1].name \in {"admission_started", "resumed"}
  <2>1. (Len(l) + 1) - 1 = Len(l) /\ Len(l) \in 1..Len(l)
    BY <1>1, <1>6
  <2>. QED BY <1>1, <1>6, <2>1
<1>7. ASSUME Len(l) = 0
      PROVE  \A s : s \notin Started(m)
  BY <1>1, <1>7 DEF Started
<1>. HIDE DEF m
<1>8. ASSUME NEW t \in Named(m, "terminal")
      PROVE  /\ t = Len(m)
             /\ m[t - 1].name \notin {"admission_started", "resumed"} =>
                \A s \in Started(m) : Cardinality(EndsOf(m, s)) = 1
  BY <1>1, <1>4, <1>5, <1>6, <1>7
<1>. QED BY <1>3, <1>8 DEF Finished, m

-----------------------------------------------------------------------------
(* What the sink does with a script                                        *)

\* An emission for r touches only the log and the edges of r, and only grows
\* them; losses are not forgotten, and a closed sink is not opened.
SinkStep(r) ==
    /\ log' \in [Requests -> Seq(EventRecord)]
    /\ DOMAIN edges' = Requests
    /\ sinkOpen' \in BOOLEAN
    /\ refusals' \in 0..MaxRefusals
    /\ lossy' \subseteq Requests
    /\ sinkOpen' => sinkOpen
    /\ lossy \subseteq lossy'
    /\ Len(log[r]) <= Len(log'[r])
    /\ \A q \in Requests \ {r} : log'[q] = log[q] /\ edges'[q] = edges[q]

LEMMA EventType ==
    ASSUME NEW name \in EventNames, NEW e \in Nat, NEW start \in Nat, NEW ends \in SUBSET Nat
    PROVE  Event(name, e, start, ends) \in EventRecord
BY DEF Event, EventRecord

LEMMA QuietSink ==
    ASSUME TypeOK, NEW r \in Requests, UNCHANGED sinkVars
    PROVE  SinkStep(r)
<1>1. Len(log[r]) \in Nat
  BY LenProperties DEF TypeOK
<1>. QED BY <1>1 DEF TypeOK, SinkStep, sinkVars

LEMMA EmittedSink ==
    ASSUME TypeOK, NEW r \in Requests, NEW script, script.events \in Seq(EventRecord),
           Emitted(r, script)
    PROVE  SinkStep(r)
<1>1. log[r] \in Seq(EventRecord)
  BY DEF TypeOK
<1>2. /\ log[r] \o script.events \in Seq(EventRecord)
      /\ Len(log[r] \o script.events) = Len(log[r]) + Len(script.events)
      /\ Len(log[r]) \in Nat /\ Len(script.events) \in Nat
  BY <1>1, ConcatProperties, LenProperties
<1>3. /\ log' = [log EXCEPT ![r] = log[r] \o script.events]
      /\ \E new : edges' = [edges EXCEPT ![r] = edges[r] \cup new]
      /\ UNCHANGED <<sinkOpen, refusals, lossy>>
  BY DEF Emitted
<1>4. /\ log' \in [Requests -> Seq(EventRecord)]
      /\ log'[r] = log[r] \o script.events
      /\ \A q \in Requests \ {r} : log'[q] = log[q]
  BY <1>2, <1>3 DEF TypeOK
<1>5. /\ DOMAIN edges' = Requests
      /\ \A q \in Requests \ {r} : edges'[q] = edges[q]
  BY <1>3 DEF TypeOK
<1>. QED BY <1>2, <1>3, <1>4, <1>5 DEF SinkStep, TypeOK

LEMMA PartlySink ==
    ASSUME TypeOK, NEW r \in Requests, NEW script, script.events \in Seq(EventRecord),
           NEW parts, \A part \in parts : part[1] \in 0..Len(script.events),
           PartlyEmitted(r, script, parts)
    PROVE  SinkStep(r) /\ ~Clean(r)'
<1>. USE BridgeAssumption
<1>1. CASE ~sinkOpen /\ UNCHANGED sinkVars
  BY <1>1, QuietSink DEF Clean, sinkVars
<1>2. CASE sinkOpen /\ ~(~sinkOpen /\ UNCHANGED sinkVars)
  <2>1. PICK part \in parts : Accept(r, script, part[1], part[2])
    BY <1>2 DEF PartlyEmitted
  <2>. DEFINE new == SubSeq(script.events, 1, part[1])
  <2>2. part[1] \in Nat /\ part[1] <= Len(script.events) /\ Len(script.events) \in Nat
    BY LenProperties
  <2>3. new \in Seq(EventRecord)
    <3>1. \A i \in 1..part[1] : script.events[i] \in EventRecord
      BY <2>2, ElementOfSeq
    <3>. QED BY <2>2, <3>1, SubSeqProperties
  <2>. HIDE DEF new
  <2>4. log[r] \in Seq(EventRecord)
    BY DEF TypeOK
  <2>5. /\ log[r] \o new \in Seq(EventRecord)
        /\ Len(log[r] \o new) = Len(log[r]) + Len(new)
        /\ Len(log[r]) \in Nat /\ Len(new) \in Nat
    BY <2>3, <2>4, ConcatProperties, LenProperties
  <2>6. /\ log' = [log EXCEPT ![r] = log[r] \o new]
        /\ \E links : edges' = [edges EXCEPT ![r] = edges[r] \cup links]
    BY <2>1 DEF Accept, new
  <2>7. /\ log' \in [Requests -> Seq(EventRecord)]
        /\ log'[r] = log[r] \o new
        /\ \A q \in Requests \ {r} : log'[q] = log[q]
    BY <2>5, <2>6 DEF TypeOK
  <2>8. /\ DOMAIN edges' = Requests
        /\ \A q \in Requests \ {r} : edges'[q] = edges[q]
    BY <2>6 DEF TypeOK
  <2>9. \/ /\ refusals' = refusals + 1 /\ refusals < MaxRefusals
           /\ lossy' = lossy \cup {r} /\ sinkOpen' = sinkOpen
        \/ sinkOpen' = FALSE /\ refusals' = refusals /\ lossy' = lossy
    BY <1>2 DEF PartlyEmitted
  <2>10. /\ sinkOpen' \in BOOLEAN /\ refusals' \in 0..MaxRefusals /\ lossy' \subseteq Requests
         /\ sinkOpen' => sinkOpen
         /\ lossy \subseteq lossy'
    <3>1. refusals' \in 0..MaxRefusals /\ lossy' \subseteq Requests /\ lossy \subseteq lossy'
      BY <2>9 DEF TypeOK
    <3>2. sinkOpen' \in BOOLEAN /\ (sinkOpen' => sinkOpen)
      BY <2>9, <1>2, Zenon DEF TypeOK
    <3>. QED BY <3>1, <3>2
  <2>11. ~Clean(r)'
    BY <2>9 DEF Clean
  <2>. QED BY <2>5, <2>7, <2>8, <2>10, <2>11 DEF SinkStep
<1>. QED BY <1>1, <1>2 DEF PartlyEmitted

LEMMA RefusedSink ==
    ASSUME TypeOK, NEW r \in Requests, NEW script, script.events \in Seq(EventRecord),
           Len(script.edges) \in Nat, Refused(r, script)
    PROVE  SinkStep(r) /\ ~Clean(r)'
<1>1. Len(script.events) \in Nat
  BY LenProperties
<1>2. \A part \in StopPoints(script) : part[1] \in 0..Len(script.events)
  BY <1>1 DEF StopPoints
<1>. QED BY <1>2, PartlySink DEF Refused

\* The scripts of the code have one or two events.
LEMMA ScriptOne ==
    ASSUME NEW v \in EventRecord, NEW x
    PROVE  /\ Script(<<v>>, <<x>>).events = <<v>>
           /\ Script(<<v>>, <<x>>).events \in Seq(EventRecord)
           /\ Len(Script(<<v>>, <<x>>).events) = 1
           /\ Len(Script(<<v>>, <<x>>).edges) = 1
           /\ {Script(<<v>>, <<x>>).edges[i] : i \in DOMAIN Script(<<v>>, <<x>>).edges} = {x}
<1>1. /\ Script(<<v>>, <<x>>).events = <<v>>
      /\ Script(<<v>>, <<x>>).edges = <<x>>
  BY DEF Script
<1>2. <<v>> \in Seq(EventRecord) /\ Len(<<v>>) = 1 /\ Len(<<x>>) = 1
  OBVIOUS
<1>3. {<<x>>[i] : i \in DOMAIN <<x>>} = {x}
  OBVIOUS
<1>. QED BY <1>1, <1>2, <1>3

LEMMA EmitOne ==
    ASSUME TypeOK, NEW r \in Requests, NEW v \in EventRecord, NEW x,
           Emitted(r, Script(<<v>>, <<x>>))
    PROVE  /\ log'[r] = Append(log[r], v)
           /\ edges'[r] = edges[r] \cup {x}
<1>1. log[r] \in Seq(EventRecord)
  BY DEF TypeOK
<1>2. log'[r] = log[r] \o <<v>> /\ edges'[r] = edges[r] \cup {x}
  BY ScriptOne DEF Emitted, TypeOK
<1>. QED BY <1>1, <1>2, AppendIsConcat

LEMMA EmitTwo ==
    ASSUME TypeOK, NEW r \in Requests, NEW v \in EventRecord, NEW w \in EventRecord,
           NEW x, NEW y, Emitted(r, Script(<<v, w>>, <<x, y>>))
    PROVE  /\ log'[r] = Append(Append(log[r], v), w)
           /\ edges'[r] = edges[r] \cup {x, y}
<1>. DEFINE l == log[r]
<1>1. l \in Seq(EventRecord)
  BY DEF TypeOK
<1>2. log'[r] = l \o <<v, w>> /\ edges'[r] = edges[r] \cup {x, y}
  <2>1. PICK script : script = Script(<<v, w>>, <<x, y>>)
    OBVIOUS
  <2>2. script.events = <<v, w>> /\ {script.edges[i] : i \in DOMAIN script.edges} = {x, y}
    <3>1. script.events = <<v, w>> /\ script.edges = <<x, y>>
      BY <2>1 DEF Script
    <3>2. {<<x, y>>[i] : i \in DOMAIN <<x, y>>} = {x, y}
      OBVIOUS
    <3>. QED BY <3>1, <3>2
  <2>3. Emitted(r, script)
    BY <2>1
  <2>. QED BY <2>2, <2>3 DEF Emitted, TypeOK
<1>3. /\ <<v, w>> \in Seq(EventRecord) /\ Len(<<v, w>>) = 2
      /\ <<v, w>>[1] = v /\ <<v, w>>[2] = w
  OBVIOUS
<1>. DEFINE m == Append(l, v)
            n == Append(m, w)
<1>4. /\ m \in Seq(EventRecord) /\ Len(l) \in Nat /\ Len(m) = Len(l) + 1
      /\ \A i \in 1..Len(l) : m[i] = l[i]
      /\ m[Len(l) + 1] = v
  BY <1>1, AppendFacts
<1>. HIDE DEF m
<1>5. /\ n \in Seq(EventRecord) /\ Len(n) = Len(m) + 1
      /\ \A i \in 1..Len(m) : n[i] = m[i]
      /\ n[Len(m) + 1] = w
  BY <1>4, AppendFacts
<1>. HIDE DEF n, l
<1>6. /\ l \o <<v, w>> \in Seq(EventRecord)
      /\ Len(l \o <<v, w>>) = Len(l) + 2
      /\ \A i \in 1..(Len(l) + 2) :
            (l \o <<v, w>>)[i] = IF i <= Len(l) THEN l[i] ELSE <<v, w>>[i - Len(l)]
  BY <1>1, <1>3, ConcatProperties
<1>7. Len(n) = Len(l) + 2 /\ \A i \in 1..Len(n) : n[i] = (l \o <<v, w>>)[i]
  <2>1. Len(n) = Len(l) + 2
    BY <1>4, <1>5
  <2>2. ASSUME NEW i \in 1..Len(n) PROVE n[i] = (l \o <<v, w>>)[i]
    <3>1. CASE i \in 1..Len(l)
      BY <1>4, <1>5, <1>6, <2>1, <3>1
    <3>2. CASE i = Len(l) + 1
      <4>1. i - Len(l) = 1
        BY <1>4, <3>2
      <4>. QED BY <1>3, <1>4, <1>5, <1>6, <2>1, <3>2, <4>1
    <3>3. CASE i = Len(l) + 2
      <4>1. i - Len(l) = 2
        BY <1>4, <3>3
      <4>. QED BY <1>3, <1>4, <1>5, <1>6, <2>1, <3>3, <4>1
    <3>. QED BY <2>1, <1>4, <3>1, <3>2, <3>3
  <2>. QED BY <2>1, <2>2
<1>8. n = l \o <<v, w>>
  BY <1>5, <1>6, <1>7, SeqEqual
<1>. QED BY <1>2, <1>8 DEF n, m, l

-----------------------------------------------------------------------------
(* What an operation of the bridge does to its two tables                  *)

BridgeStep(r) ==
    /\ state' \in [Requests -> StateRecord \cup {NoState}]
    /\ episode' \in [Requests \X Epochs -> EpisodeRecord \cup {NoEpisode}]
    /\ \A q \in Requests \ {r} :
          state'[q] = state[q] /\ \A x \in Epochs : episode'[<<q, x>>] = episode[<<q, x>>]
    /\ state'[r] # NoState =>
          /\ state'[r].queueStarted <= Len(log'[r])
          /\ state'[r].activeStarted <= Len(log'[r])
          /\ state'[r].epoch <= epoch[r]
    /\ state'[r] = NoState => \A x \in Epochs : episode'[<<r, x>>] = NoEpisode
    /\ \A x \in Epochs :
          episode'[<<r, x>>] # NoEpisode => episode'[<<r, x>>].requeued <= Len(log'[r])

\* No episode begins.
NoneOpened(r) ==
    \A x \in Epochs : episode'[<<r, x>>] # NoEpisode => episode[<<r, x>>] # NoEpisode

EpisodesKept(r) == \A x \in Epochs : episode'[<<r, x>>] = episode[<<r, x>>]

Quiet(r) ==
    /\ log'[r] = log[r] /\ edges'[r] = edges[r]
    /\ state'[r] = state[r] /\ EpisodesKept(r)

LEMMA LiveFacts ==
    ASSUME TypeOK, NEW r \in Live
    PROVE  /\ r \in Requests
           /\ state[r] \in StateRecord
           /\ state[r].queueStarted \in Nat \ {0} /\ state[r].queueSpan \in Nat
           /\ state[r].activeStarted \in Nat /\ state[r].activeSpan \in Nat
           /\ state[r].epoch \in Nat
           /\ state[r].queueStarted <= Len(log[r])
           /\ state[r].activeStarted <= Len(log[r])
           /\ state[r].epoch <= epoch[r]
<1>1. r \in Requests /\ state[r] \in StateRecord
  BY DEF Live, TypeOK
<1>2. /\ state[r].queueStarted \in Nat \ {0} /\ state[r].queueSpan \in Nat
      /\ state[r].activeStarted \in Nat /\ state[r].activeSpan \in Nat
      /\ state[r].epoch \in Nat
  BY <1>1 DEF StateRecord
<1>3. /\ state[r].queueStarted \in 0..Len(log[r])
      /\ state[r].activeStarted \in 0..Len(log[r])
      /\ state[r].epoch \in 0..epoch[r]
  BY DEF TypeOK
<1>. QED BY <1>1, <1>2, <1>3

LEMMA StateIsSome ==
    ASSUME NEW st \in StateRecord
    PROVE  st # NoState
BY DEF StateRecord, NoState

LEMMA EpisodeIsSome ==
    ASSUME NEW ep \in EpisodeRecord
    PROVE  ep # NoEpisode
BY DEF EpisodeRecord, NoEpisode

LEMMA EpisodeFacts ==
    ASSUME TypeOK, NEW r \in Requests, NEW e, <<r, e>> \in Episodes
    PROVE  /\ e \in Epochs /\ e \in Nat
           /\ episode[<<r, e>>] \in EpisodeRecord
           /\ episode[<<r, e>>].requeued \in Nat \ {0} /\ episode[<<r, e>>].queueSpan \in Nat
           /\ episode[<<r, e>>].requeued <= Len(log[r])
           /\ episode[<<r, e>>].admission \in Nat /\ episode[<<r, e>>].admissionSpan \in Nat
           /\ episode[<<r, e>>].resumed \in Nat
<1>. USE BridgeAssumption
<1>1. e \in Epochs /\ e \in Nat
  BY DEF Episodes, Epochs
<1>2. episode[<<r, e>>] \in EpisodeRecord
  BY <1>1 DEF Episodes, TypeOK
<1>3. episode[<<r, e>>].requeued \in 1..Len(log[r])
  BY DEF TypeOK
<1>. QED BY <1>1, <1>2, <1>3 DEF EpisodeRecord

LEMMA LogFacts ==
    ASSUME TypeOK, NEW r \in Requests
    PROVE  /\ log[r] \in Seq(EventRecord)
           /\ Len(log[r]) \in Nat
           /\ Nth(r, 1) = Len(log[r]) + 1 /\ Nth(r, 2) = Len(log[r]) + 2
           /\ NewSpan(r, 1) = Len(log[r]) + 1 /\ NewSpan(r, 2) = Len(log[r]) + 2
           /\ NewSpan(r, 1) \in Nat /\ NewSpan(r, 2) \in Nat
<1>1. log[r] \in Seq(EventRecord)
  BY DEF TypeOK
<1>2. Len(log[r]) \in Nat
  BY <1>1, LenProperties
<1>. QED BY <1>1, <1>2 DEF Nth, NewSpan

\* The episodes that r has stay within its log.
LEMMA EpisodesWithin ==
    ASSUME TypeOK, NEW r \in Requests, SinkStep(r), NEW x \in Epochs,
           episode[<<r, x>>] # NoEpisode
    PROVE  episode[<<r, x>>].requeued <= Len(log'[r])
<1>1. <<r, x>> \in Episodes
  BY DEF Episodes
<1>2. episode[<<r, x>>].requeued \in Nat /\ episode[<<r, x>>].requeued <= Len(log[r])
  BY <1>1, EpisodeFacts
<1>3. Len(log[r]) \in Nat /\ Len(log'[r]) \in Nat /\ Len(log[r]) <= Len(log'[r])
  BY LenProperties DEF SinkStep, TypeOK
<1>. QED BY <1>2, <1>3

\* An operation that leaves both tables alone.
LEMMA TablesKept ==
    ASSUME TypeOK, RetiredLeavesNothing, NEW r \in Requests, UNCHANGED bridgeVars,
           SinkStep(r)
    PROVE  BridgeStep(r) /\ NoneOpened(r) /\ EpisodesKept(r) /\ state'[r] = state[r]
<1>1. state' = state /\ episode' = episode
  BY DEF bridgeVars
<1>2. state[r] = NoState => \A x \in Epochs : episode[<<r, x>>] = NoEpisode
  BY DEF RetiredLeavesNothing, Episodes, Live
<1>3. ASSUME state[r] # NoState
      PROVE  /\ state[r].queueStarted <= Len(log'[r])
             /\ state[r].activeStarted <= Len(log'[r])
             /\ state[r].epoch <= epoch[r]
  <2>1. r \in Live
    BY <1>3 DEF Live
  <2>2. /\ state[r].queueStarted \in Nat /\ state[r].activeStarted \in Nat
        /\ state[r].queueStarted <= Len(log[r])
        /\ state[r].activeStarted <= Len(log[r])
        /\ state[r].epoch <= epoch[r]
    BY <2>1, LiveFacts
  <2>3. Len(log[r]) \in Nat /\ Len(log'[r]) \in Nat /\ Len(log[r]) <= Len(log'[r])
    BY LenProperties DEF SinkStep, TypeOK
  <2>. QED BY <2>2, <2>3
<1>4. \A x \in Epochs : episode[<<r, x>>] # NoEpisode => episode[<<r, x>>].requeued <= Len(log'[r])
  BY EpisodesWithin
<1>. QED BY <1>1, <1>2, <1>3, <1>4 DEF BridgeStep, NoneOpened, EpisodesKept, TypeOK

\* Where an operation emits nothing.
LEMMA NothingDone ==
    ASSUME TypeOK, RetiredLeavesNothing, NEW r \in Requests,
           UNCHANGED <<bridgeVars, sinkVars>>
    PROVE  SinkStep(r) /\ BridgeStep(r) /\ NoneOpened(r) /\ Quiet(r)
<1>1. SinkStep(r)
  BY QuietSink
<1>. QED BY <1>1, TablesKept DEF Quiet, sinkVars

\* Where it is refused a record, the lifecycle is no longer clean.
LEMMA RefusedKept ==
    ASSUME TypeOK, RetiredLeavesNothing, NEW r \in Requests, UNCHANGED bridgeVars,
           NEW script, script.events \in Seq(EventRecord),
           Len(script.edges) \in Nat, Refused(r, script)
    PROVE  SinkStep(r) /\ BridgeStep(r) /\ NoneOpened(r) /\ ~Clean(r)'
BY RefusedSink, TablesKept

Fresh(r) ==
    [queueStarted |-> Len(log[r]) + 1, queueSpan |-> Len(log[r]) + 1,
     activeStarted |-> 0, activeSpan |-> 0, kind |-> "none", epoch |-> 0]

Registered(r) ==
    /\ r \notin Live
    /\ log'[r] = Append(log[r], Event("queued", 0, Len(log[r]) + 1, {}))
    /\ edges'[r] = edges[r]
    /\ state'[r] = Fresh(r) /\ EpisodesKept(r)

LEMMA RegisterActs ==
    ASSUME TypeOK, RetiredLeavesNothing, NEW r \in Requests, RegisterRuntime(r)
    PROVE  /\ SinkStep(r) /\ BridgeStep(r) /\ NoneOpened(r)
           /\ Clean(r)' => Quiet(r) \/ Registered(r)
<1>. DEFINE v == Event("queued", 0, NewSpan(r, 1), {})
            script == Script(<<v>>, <<>>)
<1>1. v \in EventRecord
  <2>1. NewSpan(r, 1) \in Nat
    BY LogFacts
  <2>. QED BY <2>1 DEF Event, EventRecord, EventNames
<1>. HIDE DEF v
<1>2. /\ script.events = <<v>> /\ script.events \in Seq(EventRecord)
      /\ script.edges = <<>> /\ Len(script.edges) \in Nat
      /\ {script.edges[i] : i \in DOMAIN script.edges} = {}
  BY <1>1 DEF Script
<1>. HIDE DEF script
<1>3. CASE UNCHANGED <<bridgeVars, sinkVars>>
  BY <1>3, NothingDone
<1>4. CASE UNCHANGED bridgeVars /\ Refused(r, script)
  BY <1>2, <1>4, RefusedKept
<1>5. CASE /\ r \notin Live
           /\ Emitted(r, script)
           /\ state' = [state EXCEPT ![r] = Fresh(r)]
           /\ UNCHANGED episode
  <2>1. SinkStep(r)
    BY <1>2, <1>5, EmittedSink
  <2>2. log'[r] = log[r] \o <<v>> /\ edges'[r] = edges[r] \cup {}
    BY <1>2, <1>5 DEF Emitted, TypeOK
  <2>3. log'[r] = Append(log[r], v) /\ Len(log'[r]) = Len(log[r]) + 1
    <3>1. log[r] \in Seq(EventRecord)
      BY LogFacts
    <3>. QED BY <1>1, <2>2, <3>1, AppendIsConcat, AppendFacts
  <2>4. Fresh(r) \in StateRecord
    BY LogFacts DEF Fresh, StateRecord
  <2>5. /\ state' \in [Requests -> StateRecord \cup {NoState}]
        /\ state'[r] = Fresh(r)
        /\ \A q \in Requests \ {r} : state'[q] = state[q]
    BY <1>5, <2>4 DEF TypeOK
  <2>6. /\ state'[r] # NoState
        /\ state'[r].queueStarted = Len(log[r]) + 1
        /\ state'[r].activeStarted = 0
        /\ state'[r].epoch = 0
    BY <2>4, <2>5, StateIsSome DEF Fresh
  <2>7. epoch[r] \in Nat
    BY BridgeAssumption DEF TypeOK
  <2>8. BridgeStep(r)
    <3>1. Len(log[r]) \in Nat
      BY LogFacts
    <3>2. /\ state'[r].queueStarted <= Len(log'[r])
          /\ state'[r].activeStarted <= Len(log'[r])
          /\ state'[r].epoch <= epoch[r]
      BY <2>3, <2>6, <2>7, <3>1
    <3>3. episode' = episode /\ episode \in [Requests \X Epochs -> EpisodeRecord \cup {NoEpisode}]
      BY <1>5 DEF TypeOK
    <3>4. \A x \in Epochs :
              episode[<<r, x>>] # NoEpisode => episode[<<r, x>>].requeued <= Len(log'[r])
      BY <2>1, EpisodesWithin
    <3>. QED BY <2>5, <2>6, <3>2, <3>3, <3>4 DEF BridgeStep
  <2>9. Registered(r)
    <3>1. v = Event("queued", 0, Len(log[r]) + 1, {})
      BY LogFacts DEF v
    <3>. QED BY <1>5, <2>2, <2>3, <2>5, <3>1 DEF Registered, EpisodesKept
  <2>. QED BY <1>5, <2>1, <2>8, <2>9 DEF NoneOpened
<1>6. Fresh(r) = [queueStarted |-> Nth(r, 1), queueSpan |-> NewSpan(r, 1),
                  activeStarted |-> 0, activeSpan |-> 0, kind |-> "none", epoch |-> 0]
  BY LogFacts DEF Fresh
<1>. QED BY <1>3, <1>4, <1>5, <1>6 DEF RegisterRuntime, script, v

\* The sink's answers to a script of one event and one edge ...
LEMMA OneActs ==
    ASSUME TypeOK, NEW r \in Requests, NEW v \in EventRecord, NEW x
    PROVE  /\ Refused(r, Script(<<v>>, <<x>>)) => SinkStep(r) /\ ~Clean(r)'
           /\ Emitted(r, Script(<<v>>, <<x>>)) =>
                 /\ SinkStep(r)
                 /\ log'[r] = Append(log[r], v) /\ edges'[r] = edges[r] \cup {x}
                 /\ Len(log'[r]) = Len(log[r]) + 1
<1>1. PICK script : script = Script(<<v>>, <<x>>)
  OBVIOUS
<1>2. script.events \in Seq(EventRecord) /\ Len(script.edges) \in Nat
  <2>1. script.events = <<v>> /\ script.edges = <<x>>
    BY <1>1 DEF Script
  <2>. QED BY <2>1
<1>3. Refused(r, script) => SinkStep(r) /\ ~Clean(r)'
  BY <1>2, RefusedSink
<1>4. Emitted(r, script) => SinkStep(r)
  BY <1>2, EmittedSink
<1>5. ASSUME Emitted(r, Script(<<v>>, <<x>>))
      PROVE  /\ log'[r] = Append(log[r], v) /\ edges'[r] = edges[r] \cup {x}
             /\ Len(log'[r]) = Len(log[r]) + 1
  <2>1. log'[r] = Append(log[r], v) /\ edges'[r] = edges[r] \cup {x}
    BY <1>5, EmitOne
  <2>2. log[r] \in Seq(EventRecord)
    BY LogFacts
  <2>. QED BY <2>1, <2>2, AppendFacts
<1>. QED BY <1>1, <1>3, <1>4, <1>5

\* ... and to one of two events and two edges.
LEMMA TwoActs ==
    ASSUME TypeOK, NEW r \in Requests, NEW v \in EventRecord, NEW w \in EventRecord,
           NEW x, NEW y
    PROVE  /\ Refused(r, Script(<<v, w>>, <<x, y>>)) => SinkStep(r) /\ ~Clean(r)'
           /\ PartlyEmitted(r, Script(<<v, w>>, <<x, y>>), PreemptParts) =>
                 SinkStep(r) /\ ~Clean(r)'
           /\ PartlyEmitted(r, Script(<<v, w>>, <<x, y>>), CompletionParts) =>
                 SinkStep(r) /\ ~Clean(r)'
           /\ Emitted(r, Script(<<v, w>>, <<x, y>>)) =>
                 /\ SinkStep(r)
                 /\ log'[r] = Append(Append(log[r], v), w)
                 /\ edges'[r] = edges[r] \cup {x, y}
                 /\ Len(log'[r]) = Len(log[r]) + 2
<1>1. PICK script : script = Script(<<v, w>>, <<x, y>>)
  OBVIOUS
<1>2. /\ script.events \in Seq(EventRecord) /\ Len(script.edges) \in Nat
      /\ Len(script.events) = 2
  <2>1. script.events = <<v, w>> /\ script.edges = <<x, y>>
    BY <1>1 DEF Script
  <2>. QED BY <2>1
<1>3. Refused(r, script) => SinkStep(r) /\ ~Clean(r)'
  BY <1>2, RefusedSink
<1>4. Emitted(r, script) => SinkStep(r)
  BY <1>2, EmittedSink
<1>5. \A part \in PreemptParts : part[1] \in 0..Len(script.events)
  BY <1>2 DEF PreemptParts
<1>6. \A part \in CompletionParts : part[1] \in 0..Len(script.events)
  BY <1>2 DEF CompletionParts
<1>7. PartlyEmitted(r, script, PreemptParts) => SinkStep(r) /\ ~Clean(r)'
  BY <1>2, <1>5, PartlySink
<1>8. PartlyEmitted(r, script, CompletionParts) => SinkStep(r) /\ ~Clean(r)'
  BY <1>2, <1>6, PartlySink
<1>9. ASSUME Emitted(r, Script(<<v, w>>, <<x, y>>))
      PROVE  /\ log'[r] = Append(Append(log[r], v), w)
             /\ edges'[r] = edges[r] \cup {x, y}
             /\ Len(log'[r]) = Len(log[r]) + 2
  <2>1. log'[r] = Append(Append(log[r], v), w) /\ edges'[r] = edges[r] \cup {x, y}
    BY <1>9, EmitTwo
  <2>2. log[r] \in Seq(EventRecord) /\ Len(log[r]) \in Nat
    BY LogFacts
  <2>3. Append(log[r], v) \in Seq(EventRecord) /\ Len(Append(log[r], v)) = Len(log[r]) + 1
    BY <2>2, AppendFacts
  <2>4. Len(Append(Append(log[r], v), w)) = Len(Append(log[r], v)) + 1
    BY <2>3, AppendFacts
  <2>. QED BY <2>1, <2>2, <2>3, <2>4
<1>. QED BY <1>1, <1>3, <1>4, <1>7, <1>8, <1>9

\* An operation that changes the state of r only, to one within the log.
LEMMA StateReplaced ==
    ASSUME TypeOK, RetiredLeavesNothing, NEW r \in Requests, SinkStep(r),
           NEW st \in StateRecord, state' = [state EXCEPT ![r] = st], UNCHANGED episode,
           st.queueStarted <= Len(log'[r]), st.activeStarted <= Len(log'[r]),
           st.epoch <= epoch[r]
    PROVE  BridgeStep(r) /\ NoneOpened(r) /\ EpisodesKept(r) /\ state'[r] = st
<1>1. /\ state' \in [Requests -> StateRecord \cup {NoState}]
      /\ state'[r] = st
      /\ \A q \in Requests \ {r} : state'[q] = state[q]
  BY DEF TypeOK
<1>2. st # NoState
  BY StateIsSome
<1>3. episode' = episode /\ episode \in [Requests \X Epochs -> EpisodeRecord \cup {NoEpisode}]
  BY DEF TypeOK
<1>4. \A x \in Epochs : episode[<<r, x>>] # NoEpisode => episode[<<r, x>>].requeued <= Len(log'[r])
  BY EpisodesWithin
<1>. QED BY <1>1, <1>2, <1>3, <1>4 DEF BridgeStep, NoneOpened, EpisodesKept

\* Likewise for an episode that r already has.
LEMMA EpisodeReplaced ==
    ASSUME TypeOK, RetiredLeavesNothing, NEW r \in Live, NEW e \in Epochs, SinkStep(r),
           NEW ep \in EpisodeRecord, episode' = [episode EXCEPT ![<<r, e>>] = ep],
           ep.requeued <= Len(log'[r]),
           NEW st \in StateRecord, state' = [state EXCEPT ![r] = st],
           st.queueStarted <= Len(log'[r]), st.activeStarted <= Len(log'[r]),
           st.epoch <= epoch[r]
    PROVE  /\ BridgeStep(r)
           /\ episode'[<<r, e>>] = ep /\ state'[r] = st
           /\ \A x \in Epochs \ {e} : episode'[<<r, x>>] = episode[<<r, x>>]
<1>. r \in Requests
  BY DEF Live
<1>1. /\ state' \in [Requests -> StateRecord \cup {NoState}]
      /\ state'[r] = st
      /\ \A q \in Requests \ {r} : state'[q] = state[q]
  BY DEF TypeOK
<1>2. st # NoState
  BY StateIsSome
<1>3. /\ episode \in [Requests \X Epochs -> EpisodeRecord \cup {NoEpisode}]
      /\ <<r, e>> \in Requests \X Epochs
  BY DEF TypeOK
<1>4. /\ episode' \in [Requests \X Epochs -> EpisodeRecord \cup {NoEpisode}]
      /\ episode'[<<r, e>>] = ep
      /\ \A k \in Requests \X Epochs : k # <<r, e>> => episode'[k] = episode[k]
  BY <1>3
<1>5. /\ \A x \in Epochs \ {e} : episode'[<<r, x>>] = episode[<<r, x>>]
      /\ \A q \in Requests \ {r} : \A x \in Epochs : episode'[<<q, x>>] = episode[<<q, x>>]
  BY <1>4
<1>6. \A x \in Epochs : episode'[<<r, x>>] # NoEpisode => episode'[<<r, x>>].requeued <= Len(log'[r])
  BY <1>4, <1>5, EpisodesWithin
<1>. QED BY <1>1, <1>2, <1>4, <1>5, <1>6 DEF BridgeStep

\* Likewise when the state stays as it is.
LEMMA EpisodeSet ==
    ASSUME TypeOK, RetiredLeavesNothing, NEW r \in Live, NEW e \in Epochs, SinkStep(r),
           episode' \in [Requests \X Epochs -> EpisodeRecord \cup {NoEpisode}],
           \A k \in Requests \X Epochs : k # <<r, e>> => episode'[k] = episode[k],
           episode'[<<r, e>>].requeued <= Len(log'[r]), state' = state
    PROVE  /\ BridgeStep(r)
           /\ \A x \in Epochs \ {e} : episode'[<<r, x>>] = episode[<<r, x>>]
<1>. r \in Requests
  BY DEF Live
<1>1. /\ \A x \in Epochs \ {e} : episode'[<<r, x>>] = episode[<<r, x>>]
      /\ \A q \in Requests \ {r} : \A x \in Epochs : episode'[<<q, x>>] = episode[<<q, x>>]
  OBVIOUS
<1>2. /\ state[r] # NoState
      /\ state[r].queueStarted \in Nat /\ state[r].activeStarted \in Nat
      /\ state[r].queueStarted <= Len(log[r]) /\ state[r].activeStarted <= Len(log[r])
      /\ state[r].epoch <= epoch[r]
  BY LiveFacts DEF Live
<1>3. Len(log[r]) \in Nat /\ Len(log'[r]) \in Nat /\ Len(log[r]) <= Len(log'[r])
  BY LenProperties DEF SinkStep, TypeOK
<1>4. /\ state'[r] # NoState
      /\ state'[r].queueStarted <= Len(log'[r])
      /\ state'[r].activeStarted <= Len(log'[r])
      /\ state'[r].epoch <= epoch[r]
  BY <1>2, <1>3
<1>5. \A x \in Epochs : episode'[<<r, x>>] # NoEpisode => episode'[<<r, x>>].requeued <= Len(log'[r])
  BY <1>1, EpisodesWithin
<1>6. /\ state' \in [Requests -> StateRecord \cup {NoState}]
      /\ \A q \in Requests \ {r} : state'[q] = state[q]
  BY DEF TypeOK
<1>. QED BY <1>1, <1>4, <1>5, <1>6 DEF BridgeStep

\* The span that an operation of emit_runtime_scheduled ends.
Held(r) == IF r \in Computing
           THEN <<state[r].activeStarted, state[r].activeSpan>>
           ELSE <<state[r].queueStarted, state[r].queueSpan>>

Phases == {"scheduled", "prefill", "decode", "prefill_done", "decode_started"}

Stepped(r) ==
    \E name \in Phases, next \in Phases, kind \in Kinds :
        /\ log'[r] = Append(Append(log[r], Event(name, state[r].epoch, 0, {Held(r)[2]})),
                            Event(next, state[r].epoch, Len(log[r]) + 2, {}))
        /\ edges'[r] = edges[r] \cup {<<Held(r)[1], Len(log[r]) + 1>>,
                                      <<Len(log[r]) + 1, Len(log[r]) + 2>>}
        /\ state'[r] = [state[r] EXCEPT !.activeStarted = Len(log[r]) + 2,
                                        !.activeSpan = Len(log[r]) + 2,
                                        !.kind = kind]
        /\ EpisodesKept(r)

LEMMA ScheduledActs ==
    ASSUME TypeOK, RetiredLeavesNothing, NEW r \in Requests, NEW kind \in Kinds,
           EmitScheduled(r, kind)
    PROVE  /\ SinkStep(r) /\ BridgeStep(r) /\ NoneOpened(r)
           /\ Clean(r)' => \/ Quiet(r) /\ (r \in Live => r \in Computing)
                           \/ r \in Live /\ Stepped(r)
<1>1. CASE UNCHANGED <<state, sinkVars>> /\ (r \notin Live \/ r \in Computing)
  <2>1. UNCHANGED <<bridgeVars, sinkVars>>
    BY <1>1 DEF EmitScheduled, bridgeVars
  <2>. QED BY <1>1, <2>1, NothingDone
<1>2. ASSUME r \in Live, NEW name \in Phases, NEW next \in Phases,
             NEW script, script = Script(<<Event(name, state[r].epoch, 0, {Held(r)[2]}),
                                           Event(next, state[r].epoch, NewSpan(r, 2), {})>>,
                                         <<Edge(Held(r)[1], Nth(r, 1)),
                                           Edge(Nth(r, 1), Nth(r, 2))>>),
             \/ Refused(r, script) /\ UNCHANGED state
             \/ Emitted(r, script) /\ Activated(r, kind)
      PROVE  /\ SinkStep(r) /\ BridgeStep(r) /\ NoneOpened(r)
             /\ Clean(r)' => Stepped(r)
  <2>1. /\ state[r] \in StateRecord
        /\ state[r].queueStarted \in Nat \ {0} /\ state[r].queueSpan \in Nat
        /\ state[r].activeStarted \in Nat /\ state[r].activeSpan \in Nat
        /\ state[r].epoch \in Nat
        /\ state[r].queueStarted <= Len(log[r])
        /\ state[r].epoch <= epoch[r]
    BY <1>2, LiveFacts
  <2>2. Held(r)[1] \in Nat /\ Held(r)[2] \in Nat
    BY <2>1 DEF Held
  <2>3. /\ Len(log[r]) \in Nat
        /\ Nth(r, 1) = Len(log[r]) + 1 /\ Nth(r, 2) = Len(log[r]) + 2
        /\ NewSpan(r, 2) = Len(log[r]) + 2
    BY LogFacts
  <2>. DEFINE v == Event(name, state[r].epoch, 0, {Held(r)[2]})
              w == Event(next, state[r].epoch, Len(log[r]) + 2, {})
              x == <<Held(r)[1], Len(log[r]) + 1>>
              y == <<Len(log[r]) + 1, Len(log[r]) + 2>>
  <2>4. v \in EventRecord /\ w \in EventRecord
    BY <2>1, <2>2, <2>3 DEF Event, EventRecord, EventNames, Phases
  <2>5. script = Script(<<v, w>>, <<x, y>>)
    BY <1>2, <2>3 DEF Edge
  <2>. HIDE DEF v, w, x, y
  <2>6. episode' = episode
    BY DEF EmitScheduled
  <2>7. CASE Refused(r, script) /\ UNCHANGED state
    <3>1. SinkStep(r) /\ ~Clean(r)'
      BY <2>4, <2>5, <2>7, TwoActs
    <3>. QED BY <2>6, <2>7, <3>1, TablesKept DEF bridgeVars
  <2>8. CASE Emitted(r, script) /\ Activated(r, kind)
    <3>1. /\ SinkStep(r)
          /\ log'[r] = Append(Append(log[r], v), w)
          /\ edges'[r] = edges[r] \cup {x, y}
          /\ Len(log'[r]) = Len(log[r]) + 2
      BY <2>4, <2>5, <2>8, TwoActs
    <3>a. PICK st : st = [state[r] EXCEPT !.activeStarted = Len(log[r]) + 2,
                                          !.activeSpan = Len(log[r]) + 2,
                                          !.kind = kind]
      OBVIOUS
    <3>2. /\ st \in StateRecord
          /\ st.queueStarted = state[r].queueStarted /\ st.epoch = state[r].epoch
          /\ st.activeStarted = Len(log[r]) + 2
      <4>1. Len(log[r]) + 2 \in Nat
        BY <2>3
      <4>2. kind \in Kinds /\ state[r] \in StateRecord
        BY <2>1
      <4>. QED BY <3>a, <4>1, <4>2 DEF StateRecord
    <3>3. state' = [state EXCEPT ![r] = st]
      BY <2>3, <2>8, <3>a DEF Activated, TypeOK
    <3>4. /\ st.queueStarted <= Len(log'[r]) /\ st.activeStarted <= Len(log'[r])
          /\ st.epoch <= epoch[r]
      BY <2>1, <2>3, <3>1, <3>2
    <3>5. BridgeStep(r) /\ NoneOpened(r) /\ EpisodesKept(r) /\ state'[r] = st
      BY <2>6, <3>1, <3>2, <3>3, <3>4, StateReplaced
    <3>6. Stepped(r)
      BY <3>1, <3>a, <3>5 DEF Stepped, v, w, x, y
    <3>. QED BY <3>1, <3>5, <3>6
  <2>. QED BY <1>2, <2>7, <2>8
<1>3. CASE /\ r \in Computing
           /\ \/ Refused(r, PhaseChange(r)) /\ UNCHANGED state
              \/ Emitted(r, PhaseChange(r)) /\ Activated(r, kind)
  <2>1. r \in Live /\ Held(r) = <<state[r].activeStarted, state[r].activeSpan>>
    BY <1>3 DEF Computing, Held
  <2>2. "prefill_done" \in Phases /\ "decode_started" \in Phases
    BY DEF Phases
  <2>3. PhaseChange(r) = Script(<<Event("prefill_done", state[r].epoch, 0, {Held(r)[2]}),
                                  Event("decode_started", state[r].epoch, NewSpan(r, 2), {})>>,
                                <<Edge(Held(r)[1], Nth(r, 1)), Edge(Nth(r, 1), Nth(r, 2))>>)
    BY <2>1 DEF PhaseChange
  <2>. QED BY <1>2, <1>3, <2>1, <2>2, <2>3
<1>4. CASE /\ r \in Live \ Computing
           /\ \/ Refused(r, FirstStep(r, kind)) /\ UNCHANGED state
              \/ Emitted(r, FirstStep(r, kind)) /\ Activated(r, kind)
  <2>1. r \in Live /\ Held(r) = <<state[r].queueStarted, state[r].queueSpan>>
    BY <1>4 DEF Held
  <2>2. "scheduled" \in Phases /\ kind \in Phases
    BY DEF Phases, Kinds
  <2>3. FirstStep(r, kind) = Script(<<Event("scheduled", state[r].epoch, 0, {Held(r)[2]}),
                                      Event(kind, state[r].epoch, NewSpan(r, 2), {})>>,
                                    <<Edge(Held(r)[1], Nth(r, 1)), Edge(Nth(r, 1), Nth(r, 2))>>)
    BY <2>1 DEF FirstStep
  <2>. QED BY <1>2, <1>4, <2>1, <2>2, <2>3
<1>. QED BY <1>1, <1>3, <1>4 DEF EmitScheduled

\* What the operations of an episode leave behind when nothing is refused.
Admitted(r, e) ==
    /\ log'[r] = Append(log[r], Event("admission_started", e, Len(log[r]) + 1,
                                      {episode[<<r, e>>].queueSpan}))
    /\ edges'[r] = edges[r] \cup {<<episode[<<r, e>>].requeued, Len(log[r]) + 1>>}
    /\ state'[r] = state[r]
    /\ episode'[<<r, e>>] = [episode[<<r, e>>] EXCEPT !.admission = Len(log[r]) + 1,
                                                     !.admissionSpan = Len(log[r]) + 1]
    /\ \A x \in Epochs \ {e} : episode'[<<r, x>>] = episode[<<r, x>>]

Resumed(r, e) ==
    /\ log'[r] = Append(log[r], Event("resumed", e, 0, {episode[<<r, e>>].admissionSpan}))
    /\ edges'[r] = edges[r] \cup {<<episode[<<r, e>>].admission, Len(log[r]) + 1>>}
    /\ state'[r] = state[r]
    /\ episode'[<<r, e>>] = [episode[<<r, e>>] EXCEPT !.resumed = Len(log[r]) + 1]
    /\ \A x \in Epochs \ {e} : episode'[<<r, x>>] = episode[<<r, x>>]

Computed(r, e) ==
    \E kind \in Kinds :
        /\ log'[r] = Append(log[r], Event(kind, e, Len(log[r]) + 1, {}))
        /\ edges'[r] = edges[r] \cup {<<episode[<<r, e>>].resumed, Len(log[r]) + 1>>}
        /\ state'[r] = [state[r] EXCEPT !.activeStarted = Len(log[r]) + 1,
                                        !.activeSpan = Len(log[r]) + 1,
                                        !.kind = kind]
        /\ episode'[<<r, e>>] = [episode[<<r, e>>] EXCEPT !.firstCompute = Len(log[r]) + 1]
        /\ \A x \in Epochs \ {e} : episode'[<<r, x>>] = episode[<<r, x>>]

LEMMA AdmissionActs ==
    ASSUME TypeOK, RetiredLeavesNothing, NEW r \in Requests, NEW e,
           EmitAdmissionStarted(r, e)
    PROVE  /\ SinkStep(r) /\ BridgeStep(r) /\ NoneOpened(r)
           /\ Clean(r)' => Admitted(r, e)
<1>1. r \in Live /\ <<r, e>> \in Episodes
  BY DEF EmitAdmissionStarted, CanStartAdmission
<1>a. state' = state
  BY DEF EmitAdmissionStarted
<1>2. /\ e \in Epochs /\ e \in Nat
      /\ episode[<<r, e>>] \in EpisodeRecord
      /\ episode[<<r, e>>].requeued \in Nat /\ episode[<<r, e>>].queueSpan \in Nat
  BY <1>1, EpisodeFacts
<1>3. /\ Len(log[r]) \in Nat
      /\ Nth(r, 1) = Len(log[r]) + 1 /\ NewSpan(r, 1) = Len(log[r]) + 1
  BY LogFacts
<1>4. /\ state[r] \in StateRecord
      /\ state[r].queueStarted \in Nat /\ state[r].activeStarted \in Nat
      /\ state[r].queueStarted <= Len(log[r]) /\ state[r].activeStarted <= Len(log[r])
      /\ state[r].epoch <= epoch[r]
  BY <1>1, LiveFacts
<1>. DEFINE v == Event("admission_started", e, Len(log[r]) + 1, {episode[<<r, e>>].queueSpan})
            x == <<episode[<<r, e>>].requeued, Len(log[r]) + 1>>
<1>5. v \in EventRecord
  BY <1>2, <1>3 DEF Event, EventRecord, EventNames
<1>6. AdmissionScript(r, e) = Script(<<v>>, <<x>>)
  BY <1>3 DEF AdmissionScript, Edge
<1>. HIDE DEF v, x
<1>7. CASE Refused(r, AdmissionScript(r, e)) /\ UNCHANGED episode
  <2>1. SinkStep(r) /\ ~Clean(r)'
    BY <1>5, <1>6, <1>7, OneActs
  <2>. QED BY <1>a, <1>7, <2>1, TablesKept DEF bridgeVars
<1>8. CASE /\ Emitted(r, AdmissionScript(r, e))
           /\ episode' = [episode EXCEPT ![<<r, e>>].admission = Nth(r, 1),
                                         ![<<r, e>>].admissionSpan = NewSpan(r, 1)]
  <2>1. /\ SinkStep(r)
        /\ log'[r] = Append(log[r], v) /\ edges'[r] = edges[r] \cup {x}
        /\ Len(log'[r]) = Len(log[r]) + 1
    BY <1>5, <1>6, <1>8, OneActs
  <2>2. PICK ep : ep = [episode[<<r, e>>] EXCEPT !.admission = Len(log[r]) + 1,
                                                 !.admissionSpan = Len(log[r]) + 1]
    OBVIOUS
  <2>3. ep \in EpisodeRecord /\ ep.requeued <= Len(log'[r])
    <3>1. Len(log[r]) + 1 \in Nat
      BY <1>3
    <3>2. ep \in EpisodeRecord /\ ep.requeued = episode[<<r, e>>].requeued
      BY <1>2, <2>2, <3>1 DEF EpisodeRecord
    <3>3. episode[<<r, e>>].requeued <= Len(log'[r])
      BY <1>1, <1>2, <2>1, EpisodesWithin DEF Episodes
    <3>. QED BY <3>2, <3>3
  <2>4. episode' = [episode EXCEPT ![<<r, e>>] = ep]
    BY <1>1, <1>2, <1>3, <1>8, <2>2 DEF TypeOK
  <2>5. PICK st : st = state[r]
    OBVIOUS
  <2>6. state' = [state EXCEPT ![r] = st]
    BY <1>a, <2>5 DEF TypeOK
  <2>7. /\ st \in StateRecord
        /\ st.queueStarted <= Len(log'[r]) /\ st.activeStarted <= Len(log'[r])
        /\ st.epoch <= epoch[r]
    BY <1>3, <1>4, <2>1, <2>5
  <2>8. /\ BridgeStep(r)
        /\ episode'[<<r, e>>] = ep /\ state'[r] = st
        /\ \A y \in Epochs \ {e} : episode'[<<r, y>>] = episode[<<r, y>>]
    BY <1>1, <1>2, <2>1, <2>3, <2>4, <2>6, <2>7, EpisodeReplaced
  <2>9. NoneOpened(r)
    BY <1>2, <2>8, EpisodeIsSome DEF NoneOpened
  <2>10. Admitted(r, e)
    BY <2>1, <2>2, <2>5, <2>8 DEF Admitted, v, x
  <2>. QED BY <2>1, <2>8, <2>9, <2>10
<1>. QED BY <1>7, <1>8 DEF EmitAdmissionStarted

LEMMA ResumedActs ==
    ASSUME TypeOK, RetiredLeavesNothing, NEW r \in Requests, NEW e, EmitResumed(r, e)
    PROVE  /\ SinkStep(r) /\ BridgeStep(r) /\ NoneOpened(r)
           /\ Clean(r)' => Resumed(r, e)
<1>1. r \in Live /\ <<r, e>> \in Episodes
  BY DEF EmitResumed, CanResume
<1>a. state' = state
  BY DEF EmitResumed
<1>2. /\ e \in Epochs /\ e \in Nat
      /\ episode[<<r, e>>] \in EpisodeRecord
      /\ episode[<<r, e>>].admission \in Nat /\ episode[<<r, e>>].admissionSpan \in Nat
  BY <1>1, EpisodeFacts
<1>3. /\ Len(log[r]) \in Nat
      /\ Nth(r, 1) = Len(log[r]) + 1
  BY LogFacts
<1>4. /\ state[r] \in StateRecord
      /\ state[r].queueStarted \in Nat /\ state[r].activeStarted \in Nat
      /\ state[r].queueStarted <= Len(log[r]) /\ state[r].activeStarted <= Len(log[r])
      /\ state[r].epoch <= epoch[r]
  BY <1>1, LiveFacts
<1>. DEFINE v == Event("resumed", e, 0, {episode[<<r, e>>].admissionSpan})
            x == <<episode[<<r, e>>].admission, Len(log[r]) + 1>>
<1>5. v \in EventRecord
  BY <1>2, <1>3 DEF Event, EventRecord, EventNames
<1>6. ResumeScript(r, e) = Script(<<v>>, <<x>>)
  BY <1>3 DEF ResumeScript, Edge
<1>. HIDE DEF v, x
<1>7. CASE Refused(r, ResumeScript(r, e)) /\ UNCHANGED episode
  <2>1. SinkStep(r) /\ ~Clean(r)'
    BY <1>5, <1>6, <1>7, OneActs
  <2>. QED BY <1>a, <1>7, <2>1, TablesKept DEF bridgeVars
<1>8. CASE /\ Emitted(r, ResumeScript(r, e))
           /\ episode' = [episode EXCEPT ![<<r, e>>].resumed = Nth(r, 1)]
  <2>1. /\ SinkStep(r)
        /\ log'[r] = Append(log[r], v) /\ edges'[r] = edges[r] \cup {x}
        /\ Len(log'[r]) = Len(log[r]) + 1
    BY <1>5, <1>6, <1>8, OneActs
  <2>2. PICK ep : ep = [episode[<<r, e>>] EXCEPT !.resumed = Len(log[r]) + 1]
    OBVIOUS
  <2>3. ep \in EpisodeRecord /\ ep.requeued <= Len(log'[r])
    <3>1. Len(log[r]) + 1 \in Nat
      BY <1>3
    <3>2. ep \in EpisodeRecord /\ ep.requeued = episode[<<r, e>>].requeued
      BY <1>2, <2>2, <3>1 DEF EpisodeRecord
    <3>3. episode[<<r, e>>].requeued <= Len(log'[r])
      BY <1>1, <1>2, <2>1, EpisodesWithin DEF Episodes
    <3>. QED BY <3>2, <3>3
  <2>4. episode' = [episode EXCEPT ![<<r, e>>] = ep]
    BY <1>1, <1>2, <1>3, <1>8, <2>2 DEF TypeOK
  <2>5. PICK st : st = state[r]
    OBVIOUS
  <2>6. state' = [state EXCEPT ![r] = st]
    BY <1>a, <2>5 DEF TypeOK
  <2>7. /\ st \in StateRecord
        /\ st.queueStarted <= Len(log'[r]) /\ st.activeStarted <= Len(log'[r])
        /\ st.epoch <= epoch[r]
    BY <1>3, <1>4, <2>1, <2>5
  <2>8. /\ BridgeStep(r)
        /\ episode'[<<r, e>>] = ep /\ state'[r] = st
        /\ \A y \in Epochs \ {e} : episode'[<<r, y>>] = episode[<<r, y>>]
    BY <1>1, <1>2, <2>1, <2>3, <2>4, <2>6, <2>7, EpisodeReplaced
  <2>9. NoneOpened(r)
    BY <1>2, <2>8, EpisodeIsSome DEF NoneOpened
  <2>10. Resumed(r, e)
    BY <2>1, <2>2, <2>5, <2>8 DEF Resumed, v, x
  <2>. QED BY <2>1, <2>8, <2>9, <2>10
<1>. QED BY <1>7, <1>8 DEF EmitResumed

LEMMA ComputeActs ==
    ASSUME TypeOK, RetiredLeavesNothing, NEW r \in Requests, NEW e, NEW kind \in Kinds,
           EmitFirstCompute(r, e, kind)
    PROVE  /\ SinkStep(r) /\ BridgeStep(r) /\ NoneOpened(r)
           /\ Clean(r)' => Computed(r, e)
<1>1. r \in Live /\ <<r, e>> \in Episodes
  BY DEF EmitFirstCompute, CanCompute
<1>2. /\ e \in Epochs /\ e \in Nat
      /\ episode[<<r, e>>] \in EpisodeRecord
      /\ episode[<<r, e>>].resumed \in Nat
  BY <1>1, EpisodeFacts
<1>3. /\ Len(log[r]) \in Nat
      /\ Nth(r, 1) = Len(log[r]) + 1 /\ NewSpan(r, 1) = Len(log[r]) + 1
  BY LogFacts
<1>4. /\ state[r] \in StateRecord
      /\ state[r].queueStarted \in Nat /\ state[r].activeStarted \in Nat
      /\ state[r].queueStarted <= Len(log[r]) /\ state[r].activeStarted <= Len(log[r])
      /\ state[r].epoch <= epoch[r]
  BY <1>1, LiveFacts
<1>. DEFINE v == Event(kind, e, Len(log[r]) + 1, {})
            x == <<episode[<<r, e>>].resumed, Len(log[r]) + 1>>
<1>5. v \in EventRecord
  BY <1>2, <1>3 DEF Event, EventRecord, EventNames, Kinds
<1>6. FirstComputeScript(r, e, kind) = Script(<<v>>, <<x>>)
  BY <1>3 DEF FirstComputeScript, Edge
<1>. HIDE DEF v, x
<1>7. CASE Refused(r, FirstComputeScript(r, e, kind)) /\ UNCHANGED bridgeVars
  <2>1. SinkStep(r) /\ ~Clean(r)'
    BY <1>5, <1>6, <1>7, OneActs
  <2>. QED BY <1>7, <2>1, TablesKept
<1>8. CASE /\ Emitted(r, FirstComputeScript(r, e, kind))
           /\ episode' = [episode EXCEPT ![<<r, e>>].firstCompute = Nth(r, 1)]
           /\ state' = [state EXCEPT ![r].activeStarted = Nth(r, 1),
                                     ![r].activeSpan = NewSpan(r, 1),
                                     ![r].kind = kind]
  <2>1. /\ SinkStep(r)
        /\ log'[r] = Append(log[r], v) /\ edges'[r] = edges[r] \cup {x}
        /\ Len(log'[r]) = Len(log[r]) + 1
    BY <1>5, <1>6, <1>8, OneActs
  <2>2. PICK ep : ep = [episode[<<r, e>>] EXCEPT !.firstCompute = Len(log[r]) + 1]
    OBVIOUS
  <2>3. ep \in EpisodeRecord /\ ep.requeued <= Len(log'[r])
    <3>1. Len(log[r]) + 1 \in Nat
      BY <1>3
    <3>2. ep \in EpisodeRecord /\ ep.requeued = episode[<<r, e>>].requeued
      BY <1>2, <2>2, <3>1 DEF EpisodeRecord
    <3>3. episode[<<r, e>>].requeued <= Len(log'[r])
      BY <1>1, <1>2, <2>1, EpisodesWithin DEF Episodes
    <3>. QED BY <3>2, <3>3
  <2>4. episode' = [episode EXCEPT ![<<r, e>>] = ep]
    BY <1>1, <1>2, <1>3, <1>8, <2>2 DEF TypeOK
  <2>5. PICK st : st = [state[r] EXCEPT !.activeStarted = Len(log[r]) + 1,
                                        !.activeSpan = Len(log[r]) + 1,
                                        !.kind = kind]
    OBVIOUS
  <2>6. state' = [state EXCEPT ![r] = st]
    BY <1>1, <1>3, <1>8, <2>5 DEF TypeOK
  <2>7. /\ st \in StateRecord
        /\ st.queueStarted = state[r].queueStarted /\ st.epoch = state[r].epoch
        /\ st.activeStarted = Len(log[r]) + 1
    <3>1. Len(log[r]) + 1 \in Nat
      BY <1>3
    <3>2. kind \in Kinds /\ state[r] \in StateRecord
      BY <1>4
    <3>. QED BY <2>5, <3>1, <3>2 DEF StateRecord
  <2>8. /\ st.queueStarted <= Len(log'[r]) /\ st.activeStarted <= Len(log'[r])
        /\ st.epoch <= epoch[r]
    BY <1>3, <1>4, <2>1, <2>7
  <2>9. /\ BridgeStep(r)
        /\ episode'[<<r, e>>] = ep /\ state'[r] = st
        /\ \A y \in Epochs \ {e} : episode'[<<r, y>>] = episode[<<r, y>>]
    BY <1>1, <1>2, <2>1, <2>3, <2>4, <2>6, <2>7, <2>8, EpisodeReplaced
  <2>10. NoneOpened(r)
    BY <1>2, <2>9, EpisodeIsSome DEF NoneOpened
  <2>11. Computed(r, e)
    BY <2>1, <2>2, <2>5, <2>9 DEF Computed, v, x
  <2>. QED BY <2>1, <2>9, <2>10, <2>11
<1>. QED BY <1>7, <1>8 DEF EmitFirstCompute

\* What a terminal emits when nothing is refused: nothing, the end of the span
\* that the state holds, or the end of the phase and then a terminal.
Closed(r) ==
    \E started, span \in Nat :
        /\ started = IF state[r].activeStarted # 0 THEN state[r].activeStarted
                                                   ELSE state[r].queueStarted
        /\ span = IF state[r].activeSpan # 0 THEN state[r].activeSpan
                                             ELSE state[r].queueSpan
        /\ log'[r] = Append(log[r], Event("terminal", state[r].epoch, 0, {span}))
        /\ edges'[r] = edges[r] \cup {<<started, Len(log[r]) + 1>>}

Completed(r) ==
    /\ r \in Computing
    /\ log'[r] = Append(Append(log[r], Event("phase_done", state[r].epoch, 0,
                                             {state[r].activeSpan})),
                        Event("terminal", state[r].epoch, 0, {}))
    /\ edges'[r] = edges[r] \cup {<<state[r].activeStarted, Len(log[r]) + 1>>,
                                  <<Len(log[r]) + 1, Len(log[r]) + 2>>}

Ended(r) ==
    /\ r \in Live
    /\ state'[r] = NoState /\ \A x \in Epochs : episode'[<<r, x>>] = NoEpisode
    /\ \/ log'[r] = log[r] /\ edges'[r] = edges[r]
       \/ Closed(r) \/ Completed(r)

LEMMA RetireActs ==
    ASSUME TypeOK, NEW r \in Requests, Retire(r)
    PROVE  /\ BridgeStep(r) /\ NoneOpened(r)
           /\ state'[r] = NoState /\ \A x \in Epochs : episode'[<<r, x>>] = NoEpisode
<1>1. /\ state' \in [Requests -> StateRecord \cup {NoState}]
      /\ state'[r] = NoState
      /\ \A q \in Requests \ {r} : state'[q] = state[q]
  BY DEF Retire, TypeOK
<1>2. /\ episode \in [Requests \X Epochs -> EpisodeRecord \cup {NoEpisode}]
      /\ episode' = [k \in Requests \X Epochs |-> IF k[1] = r THEN NoEpisode ELSE episode[k]]
  BY DEF Retire, TypeOK
<1>3. episode' \in [Requests \X Epochs -> EpisodeRecord \cup {NoEpisode}]
  BY <1>2
<1>4. \A x \in Epochs : episode'[<<r, x>>] = NoEpisode
  BY <1>2
<1>5. \A q \in Requests \ {r} : \A x \in Epochs : episode'[<<q, x>>] = episode[<<q, x>>]
  BY <1>2
<1>. QED BY <1>1, <1>3, <1>4, <1>5 DEF BridgeStep, NoneOpened

LEMMA TerminalActs ==
    ASSUME TypeOK, RetiredLeavesNothing, NEW r \in Requests, NEW cause, EmitTerminal(r, cause)
    PROVE  /\ SinkStep(r) /\ BridgeStep(r) /\ NoneOpened(r)
           /\ Clean(r)' => (r \notin Live /\ Quiet(r)) \/ Ended(r)
<1>1. CASE r \notin Live
  <2>1. UNCHANGED <<bridgeVars, sinkVars>>
    BY <1>1 DEF EmitTerminal
  <2>. QED BY <1>1, <2>1, NothingDone
<1>2. CASE r \in Live
  <2>1. Retire(r)
    BY <1>2 DEF EmitTerminal
  <2>2. /\ BridgeStep(r) /\ NoneOpened(r)
        /\ state'[r] = NoState /\ \A x \in Epochs : episode'[<<r, x>>] = NoEpisode
    BY <2>1, RetireActs
  <2>3. /\ state[r] \in StateRecord
        /\ state[r].queueStarted \in Nat /\ state[r].queueSpan \in Nat
        /\ state[r].activeStarted \in Nat /\ state[r].activeSpan \in Nat
        /\ state[r].epoch \in Nat
    BY <1>2, LiveFacts
  <2>4. /\ Len(log[r]) \in Nat
        /\ Nth(r, 1) = Len(log[r]) + 1 /\ Nth(r, 2) = Len(log[r]) + 2
    BY LogFacts
  <2>5. CASE UNCHANGED sinkVars
    <3>1. SinkStep(r)
      BY <2>5, QuietSink
    <3>2. log'[r] = log[r] /\ edges'[r] = edges[r]
      BY <2>5 DEF sinkVars
    <3>. QED BY <1>2, <2>2, <3>1, <3>2 DEF Ended
  <2>6. CASE /\ r \in Computing
             /\ \/ Emitted(r, CompletionScript(r))
                \/ PartlyEmitted(r, CompletionScript(r), CompletionParts)
    <3>. DEFINE v == Event("phase_done", state[r].epoch, 0, {state[r].activeSpan})
                w == Event("terminal", state[r].epoch, 0, {})
                x == <<state[r].activeStarted, Len(log[r]) + 1>>
                y == <<Len(log[r]) + 1, Len(log[r]) + 2>>
    <3>1. v \in EventRecord /\ w \in EventRecord
      BY <2>3 DEF Event, EventRecord, EventNames
    <3>2. CompletionScript(r) = Script(<<v, w>>, <<x, y>>)
      BY <2>4 DEF CompletionScript, Edge
    <3>. HIDE DEF v, w, x, y
    <3>3. CASE Emitted(r, CompletionScript(r))
      <4>1. /\ SinkStep(r)
            /\ log'[r] = Append(Append(log[r], v), w)
            /\ edges'[r] = edges[r] \cup {x, y}
        BY <3>1, <3>2, <3>3, TwoActs
      <4>2. Completed(r)
        BY <2>6, <4>1 DEF Completed, v, w, x, y
      <4>. QED BY <1>2, <2>2, <4>1, <4>2 DEF Ended
    <3>4. CASE PartlyEmitted(r, CompletionScript(r), CompletionParts)
      <4>1. SinkStep(r) /\ ~Clean(r)'
        BY <3>1, <3>2, <3>4, TwoActs
      <4>. QED BY <2>2, <4>1
    <3>. QED BY <2>6, <3>3, <3>4
  <2>7. CASE Emitted(r, TerminalScript(r)) \/ Refused(r, TerminalScript(r))
    <3>1. PICK started : started = IF state[r].activeStarted # 0 THEN state[r].activeStarted
                                                                 ELSE state[r].queueStarted
      OBVIOUS
    <3>2. PICK span : span = IF state[r].activeSpan # 0 THEN state[r].activeSpan
                                                        ELSE state[r].queueSpan
      OBVIOUS
    <3>3. started \in Nat /\ span \in Nat
      BY <2>3, <3>1, <3>2
    <3>. DEFINE v == Event("terminal", state[r].epoch, 0, {span})
                x == <<started, Len(log[r]) + 1>>
    <3>4. v \in EventRecord
      BY <2>3, <3>3 DEF Event, EventRecord, EventNames
    <3>5. TerminalScript(r) = Script(<<v>>, <<x>>)
      BY <2>4, <3>1, <3>2 DEF TerminalScript, Edge
    <3>. HIDE DEF v, x
    <3>6. CASE Emitted(r, TerminalScript(r))
      <4>1. SinkStep(r) /\ log'[r] = Append(log[r], v) /\ edges'[r] = edges[r] \cup {x}
        BY <3>4, <3>5, <3>6, OneActs
      <4>2. Closed(r)
        BY <3>1, <3>2, <3>3, <4>1 DEF Closed, v, x
      <4>. QED BY <1>2, <2>2, <4>1, <4>2 DEF Ended
    <3>7. CASE Refused(r, TerminalScript(r))
      <4>1. SinkStep(r) /\ ~Clean(r)'
        BY <3>4, <3>5, <3>7, OneActs
      <4>. QED BY <2>2, <4>1
    <3>. QED BY <2>7, <3>6, <3>7
  <2>. QED BY <1>2, <2>5, <2>6, <2>7 DEF EmitTerminal
<1>. QED BY <1>1, <1>2

\* The second critical section of a preemption.
Preempted(r, e) ==
    /\ r \in Live /\ <<r, e>> \notin Episodes
    /\ log'[r] = Append(Append(log[r], Event("preempted", e - 1, 0, {call.span})),
                        Event("requeued", e, Len(log[r]) + 2, {}))
    /\ edges'[r] = edges[r] \cup {<<call.started, Len(log[r]) + 1>>,
                                  <<Len(log[r]) + 1, Len(log[r]) + 2>>}
    /\ state'[r] = state[r]
    /\ episode'[<<r, e>>] =
          [preempted |-> Len(log[r]) + 1, requeued |-> Len(log[r]) + 2,
           queueSpan |-> Len(log[r]) + 2, admission |-> 0, admissionSpan |-> 0,
           resumed |-> 0, firstCompute |-> 0]
    /\ \A x \in Epochs \ {e} : episode'[<<r, x>>] = episode[<<r, x>>]

LEMMA PreemptActs ==
    ASSUME TypeOK, RetiredLeavesNothing, NEW r \in Requests, NEW e \in Epochs,
           PreemptEmit, call.request = r, epoch[r] = e
    PROVE  /\ SinkStep(r) /\ BridgeStep(r)
           /\ \A x \in Epochs \ {e} : episode'[<<r, x>>] = episode[<<r, x>>]
           /\ \/ ~Clean(r)' /\ NoneOpened(r) /\ call' = NoCall
              \/ Preempted(r, e) /\ call' = [at |-> "commit", request |-> r]
<1>1. state' = state
  BY DEF PreemptEmit
<1>2. /\ Len(log[r]) \in Nat
      /\ Nth(r, 1) = Len(log[r]) + 1 /\ Nth(r, 2) = Len(log[r]) + 2
      /\ NewSpan(r, 2) = Len(log[r]) + 2
  BY LogFacts
<1>3. e \in Nat /\ e - 1 \in Nat
  BY BridgeAssumption DEF Epochs
<1>4. call.started \in Nat /\ call.span \in Nat
  <2>1. call.at = "emit"
    BY DEF PreemptEmit
  <2>. QED BY <2>1 DEF TypeOK, CallRecord, NoCall
<1>. DEFINE v == Event("preempted", e - 1, 0, {call.span})
            w == Event("requeued", e, Len(log[r]) + 2, {})
            x == <<call.started, Len(log[r]) + 1>>
            y == <<Len(log[r]) + 1, Len(log[r]) + 2>>
<1>5. v \in EventRecord /\ w \in EventRecord
  BY <1>2, <1>3, <1>4 DEF Event, EventRecord, EventNames
<1>6. PreemptScript(r, e, call.started, call.span) = Script(<<v, w>>, <<x, y>>)
  BY <1>2 DEF PreemptScript, Edge
<1>. HIDE DEF v, w, x, y
<1>7. CASE /\ call' = NoCall
           /\ skipped' = skipped \cup {r}
           /\ UNCHANGED <<episode, sinkVars>>
  <2>1. UNCHANGED <<bridgeVars, sinkVars>>
    BY <1>1, <1>7 DEF bridgeVars
  <2>2. SinkStep(r) /\ BridgeStep(r) /\ NoneOpened(r) /\ Quiet(r)
    BY <2>1, NothingDone
  <2>3. ~Clean(r)'
    BY <1>7 DEF Clean
  <2>. QED BY <1>7, <2>2, <2>3
<1>8. CASE /\ PartlyEmitted(r, PreemptScript(r, e, call.started, call.span), PreemptParts)
           /\ call' = NoCall
           /\ UNCHANGED <<episode, skipped>>
  <2>1. SinkStep(r) /\ ~Clean(r)'
    BY <1>5, <1>6, <1>8, TwoActs
  <2>2. UNCHANGED bridgeVars
    BY <1>1, <1>8 DEF bridgeVars
  <2>3. BridgeStep(r) /\ NoneOpened(r)
    BY <2>1, <2>2, TablesKept
  <2>. QED BY <1>8, <2>1, <2>3
<1>9. CASE /\ CanPreempt(r, e)
           /\ Emitted(r, PreemptScript(r, e, call.started, call.span))
           /\ EpisodeOpened(r, e)
           /\ call' = [at |-> "commit", request |-> r]
           /\ UNCHANGED skipped
  <2>1. /\ SinkStep(r)
        /\ log'[r] = Append(Append(log[r], v), w) /\ edges'[r] = edges[r] \cup {x, y}
        /\ Len(log'[r]) = Len(log[r]) + 2
    BY <1>5, <1>6, <1>9, TwoActs
  <2>2. PICK ep : ep = [preempted |-> Len(log[r]) + 1, requeued |-> Len(log[r]) + 2,
                        queueSpan |-> Len(log[r]) + 2, admission |-> 0, admissionSpan |-> 0,
                        resumed |-> 0, firstCompute |-> 0]
    OBVIOUS
  <2>3. ep \in EpisodeRecord /\ ep.requeued <= Len(log'[r])
    BY <1>2, <2>1, <2>2 DEF EpisodeRecord
  <2>4. episode' = [episode EXCEPT ![<<r, e>>] = ep]
    BY <1>2, <1>9, <2>2 DEF EpisodeOpened
  <2>5. r \in Live /\ <<r, e>> \notin Episodes
    BY <1>9 DEF CanPreempt
  <2>6. r \in Live
    BY <2>5
  <2>9. /\ BridgeStep(r)
        /\ episode'[<<r, e>>] = ep /\ state'[r] = state[r]
        /\ \A z \in Epochs \ {e} : episode'[<<r, z>>] = episode[<<r, z>>]
    <3>1. /\ episode' \in [Requests \X Epochs -> EpisodeRecord \cup {NoEpisode}]
          /\ episode'[<<r, e>>] = ep
          /\ \A k \in Requests \X Epochs : k # <<r, e>> => episode'[k] = episode[k]
      <4>1. /\ episode \in [Requests \X Epochs -> EpisodeRecord \cup {NoEpisode}]
            /\ <<r, e>> \in Requests \X Epochs
        BY DEF TypeOK
      <4>. QED BY <2>3, <2>4, <4>1
    <3>2. episode'[<<r, e>>].requeued <= Len(log'[r])
      BY <2>3, <3>1
    <3>3. SinkStep(r)
      BY <2>1
    <3>. QED BY <1>1, <2>6, <3>1, <3>2, <3>3, EpisodeSet
  <2>10. Preempted(r, e)
    BY <2>1, <2>2, <2>5, <2>9 DEF Preempted, v, w, x, y
  <2>. QED BY <1>9, <2>1, <2>9, <2>10
<1>. QED BY <1>7, <1>8, <1>9 DEF PreemptEmit

\* The third.
Committed(r, e) ==
    /\ r \in Live /\ <<r, e>> \in Episodes
    /\ log'[r] = log[r] /\ edges'[r] = edges[r]
    /\ state'[r] = Requeued(r, e) /\ EpisodesKept(r)

LEMMA CommitActs ==
    ASSUME TypeOK, RetiredLeavesNothing, NEW r \in Requests, NEW e \in Epochs,
           PreemptCommit, r = call.request, e = epoch[r]
    PROVE  /\ SinkStep(r) /\ BridgeStep(r) /\ NoneOpened(r) /\ call' = NoCall
           /\ \/ Quiet(r) /\ ~(r \in Live /\ <<r, e>> \in Episodes)
              \/ Committed(r, e)
<1>. USE BridgeAssumption
<1>1. SinkStep(r) /\ log'[r] = log[r] /\ edges'[r] = edges[r] /\ episode' = episode /\ call' = NoCall
  BY QuietSink DEF PreemptCommit, sinkVars
<1>2. CASE r \in Live /\ <<r, e>> \in Episodes
  <2>1. /\ episode[<<r, e>>].requeued \in Nat \ {0} /\ episode[<<r, e>>].queueSpan \in Nat
        /\ episode[<<r, e>>].requeued <= Len(log[r])
    BY <1>2, EpisodeFacts
  <2>2. PICK st : st = Requeued(r, e)
    OBVIOUS
  <2>3. /\ st \in StateRecord
        /\ st.queueStarted <= Len(log'[r]) /\ st.activeStarted <= Len(log'[r])
        /\ st.epoch <= epoch[r]
    <3>1. e \in Nat /\ Len(log[r]) \in Nat
      BY LogFacts DEF Epochs
    <3>. QED BY <1>1, <2>1, <2>2, <3>1 DEF Requeued, StateRecord
  <2>4. state' = [state EXCEPT ![r] = st]
    BY <1>2, <2>2 DEF PreemptCommit
  <2>5. BridgeStep(r) /\ NoneOpened(r) /\ EpisodesKept(r) /\ state'[r] = st
    BY <1>1, <2>3, <2>4, StateReplaced
  <2>. QED BY <1>1, <1>2, <2>2, <2>5 DEF Committed
<1>3. CASE ~(r \in Live /\ <<r, e>> \in Episodes)
  <2>1. UNCHANGED <<bridgeVars, sinkVars>>
    BY <1>3 DEF PreemptCommit, bridgeVars
  <2>. QED BY <1>1, <1>3, <2>1, NothingDone
<1>. QED BY <1>2, <1>3

-----------------------------------------------------------------------------
(* Types, and what the bounded tables hold                                 *)

\* A request is preempted as long as the core thread is inside of
\* emit_runtime_preempted for it.
CallsPreempt == call # NoCall => host[call.request] = "preempted"

HostEpochs ==
    \A r \in Requests :
        host[r] \in {"preempted", "admitting", "resuming", "admitted"} => epoch[r] > 0

\* Episodes are of epochs that have begun; the one of a running preemption is
\* not there before it is emitted.
EpisodesBegun ==
    \A k \in Episodes :
        /\ k[2] <= epoch[k[1]]
        /\ call.at = "emit" /\ call.request = k[1] => k[2] < epoch[k[1]]

Base ==
    TypeOK /\ CallsPreempt /\ HostEpochs /\ EpisodesBegun
    /\ RetiredLeavesNothing /\ TerminalAfterStartInactive

HostStates == {"new", "waiting", "running", "preempted", "admitting",
               "resuming", "admitted", "finished"}
FrontStates == {"none", "new", "starting", "started", "finished"}

LEMMA Typed ==
    ASSUME TypeOK, RetiredLeavesNothing, NEW r \in Requests, SinkStep(r), BridgeStep(r),
           capacity' = capacity,
           epoch' \in [Requests -> 0..MaxEpoch],
           \A q \in Requests : epoch[q] <= epoch'[q],
           call' \in CallRecord \cup {NoCall},
           host' \in [Requests -> HostStates], front' \in [Requests -> FrontStates],
           active' \subseteq Requests, overlapped' \subseteq Requests,
           skipped' \subseteq Requests
    PROVE  TypeOK' /\ RetiredLeavesNothing'
<1>. USE BridgeAssumption
<1>1. ASSUME NEW q \in Requests, state'[q] # NoState
      PROVE  /\ {state'[q].queueStarted, state'[q].activeStarted} \subseteq 0..Len(log'[q])
             /\ state'[q].epoch \in 0..epoch'[q]
  <2>1. state'[q] \in StateRecord
    BY <1>1 DEF BridgeStep
  <2>2. /\ state'[q].queueStarted \in Nat /\ state'[q].activeStarted \in Nat
        /\ state'[q].epoch \in Nat
    BY <2>1 DEF StateRecord
  <2>3. /\ Len(log'[q]) \in Nat /\ epoch[q] \in Nat /\ epoch'[q] \in Nat
        /\ epoch[q] <= epoch'[q]
    BY LenProperties DEF SinkStep, TypeOK
  <2>4. CASE q = r
    <3>1. /\ state'[q].queueStarted <= Len(log'[q])
          /\ state'[q].activeStarted <= Len(log'[q])
          /\ state'[q].epoch <= epoch[q]
      BY <1>1, <2>4 DEF BridgeStep
    <3>. QED BY <2>2, <2>3, <3>1
  <2>5. CASE q # r
    <3>1. state'[q] = state[q] /\ log'[q] = log[q] /\ q \in Live
      BY <1>1, <2>5 DEF BridgeStep, SinkStep, Live
    <3>2. /\ state[q].queueStarted <= Len(log[q])
          /\ state[q].activeStarted <= Len(log[q])
          /\ state[q].epoch <= epoch[q]
      BY <3>1, LiveFacts
    <3>. QED BY <2>2, <2>3, <3>1, <3>2
  <2>. QED BY <2>4, <2>5
<1>2. ASSUME NEW q \in Requests, NEW x \in Epochs, episode'[<<q, x>>] # NoEpisode
      PROVE  /\ episode'[<<q, x>>].requeued \in 1..Len(log'[q])
             /\ state'[q] # NoState
  <2>1. episode'[<<q, x>>] \in EpisodeRecord
    BY <1>2 DEF BridgeStep
  <2>2. episode'[<<q, x>>].requeued \in Nat \ {0} /\ Len(log'[q]) \in Nat
    BY <2>1, LenProperties DEF EpisodeRecord, SinkStep
  <2>3. CASE q = r
    <3>1. episode'[<<q, x>>].requeued <= Len(log'[q]) /\ state'[q] # NoState
      BY <1>2, <2>3 DEF BridgeStep
    <3>. QED BY <2>2, <3>1
  <2>4. CASE q # r
    <3>1. /\ episode'[<<q, x>>] = episode[<<q, x>>] /\ state'[q] = state[q]
          /\ log'[q] = log[q]
      BY <2>4 DEF BridgeStep, SinkStep
    <3>2. <<q, x>> \in Episodes
      BY <1>2, <3>1 DEF Episodes
    <3>3. episode[<<q, x>>].requeued <= Len(log[q])
      BY <3>2, EpisodeFacts
    <3>4. q \in Live
      BY <3>2 DEF RetiredLeavesNothing
    <3>. QED BY <2>2, <3>1, <3>3, <3>4 DEF Live
  <2>. QED BY <2>3, <2>4
<1>3. RetiredLeavesNothing'
  <2>1. SUFFICES ASSUME NEW k \in Requests \X Epochs, episode'[k] # NoEpisode
                 PROVE  state'[k[1]] # NoState /\ k[1] \in Requests
    BY DEF RetiredLeavesNothing, Episodes, Live
  <2>2. k = <<k[1], k[2]>> /\ k[1] \in Requests /\ k[2] \in Epochs
    OBVIOUS
  <2>. QED BY <1>2, <2>1, <2>2
<1>4. \A k \in Episodes' : episode'[k].requeued \in 1..Len(log'[k[1]])
  <2>1. SUFFICES ASSUME NEW k \in Requests \X Epochs, episode'[k] # NoEpisode
                 PROVE  episode'[k].requeued \in 1..Len(log'[k[1]])
    BY DEF Episodes
  <2>2. k = <<k[1], k[2]>> /\ k[1] \in Requests /\ k[2] \in Epochs
    OBVIOUS
  <2>. QED BY <1>2, <2>1, <2>2
<1>5. \A q \in Live' :
          /\ {state'[q].queueStarted, state'[q].activeStarted} \subseteq 0..Len(log'[q])
          /\ state'[q].epoch \in 0..epoch'[q]
  BY <1>1 DEF Live
<1>6. TypeOK'
  BY <1>4, <1>5 DEF TypeOK, SinkStep, BridgeStep, HostStates, FrontStates
<1>. QED BY <1>3, <1>6

\* Episodes stay within their epochs when none is opened.
LEMMA BegunKept ==
    ASSUME TypeOK, EpisodesBegun, NEW r \in Requests, BridgeStep(r), NoneOpened(r),
           epoch' = epoch, call' = call \/ call' = NoCall \/ call'.at = "commit"
    PROVE  EpisodesBegun'
<1>1. SUFFICES ASSUME NEW k \in Requests \X Epochs, episode'[k] # NoEpisode
               PROVE  /\ k[2] <= epoch[k[1]]
                      /\ call'.at = "emit" /\ call'.request = k[1] => k[2] < epoch[k[1]]
  BY DEF EpisodesBegun, Episodes
<1>2. k = <<k[1], k[2]>> /\ k[1] \in Requests /\ k[2] \in Epochs
  OBVIOUS
<1>3. episode[k] # NoEpisode
  <2>1. CASE k[1] = r
    BY <1>1, <1>2, <2>1 DEF NoneOpened
  <2>2. CASE k[1] # r
    BY <1>1, <1>2, <2>2 DEF BridgeStep
  <2>. QED BY <2>1, <2>2
<1>4. k \in Episodes
  BY <1>3 DEF Episodes
<1>5. NoCall.at # "emit"
  BY DEF NoCall
<1>. QED BY <1>4, <1>5 DEF EpisodesBegun

-----------------------------------------------------------------------------
(* What a step does to the request that it is about, and to the others     *)

\* The call of the core thread, if it is about r.
CallOf(r) == IF call # NoCall /\ call.request = r THEN call ELSE NoCall

Frame(r) ==
    /\ SinkStep(r) /\ BridgeStep(r)
    /\ \A q \in Requests \ {r} :
          /\ host'[q] = host[q] /\ epoch'[q] = epoch[q]
          /\ CallOf(q)' = CallOf(q)
          /\ OneOwner(q)' => OneOwner(q)
    /\ OneOwner(r)' => OneOwner(r)
    /\ skipped \subseteq skipped'

LEMMA FrameClean ==
    ASSUME NEW r \in Requests, Frame(r)
    PROVE  \A q \in Requests : Clean(q)' => Clean(q)
BY DEF Frame, SinkStep, Clean

\* A callback of the core thread.
LEMMA CoreFrame ==
    ASSUME Base, NEW r \in Requests, SinkStep(r), BridgeStep(r), NoneOpened(r),
           Idle, call' = call, UNCHANGED <<frontVars, epoch, capacity>>,
           host' \in [Requests -> HostStates],
           \A q \in Requests \ {r} : host'[q] = host[q],
           host'[r] \in {"preempted", "admitting", "resuming", "admitted"} => epoch[r] > 0,
           skipped' \subseteq Requests, skipped \subseteq skipped'
    PROVE  Base' /\ Frame(r)
<1>. USE BridgeAssumption
<1>1. call' = NoCall /\ call = NoCall /\ epoch' = epoch /\ front' = front
      /\ active' = active /\ overlapped' = overlapped /\ capacity' = capacity
  BY DEF Idle, frontVars
<1>2. TypeOK' /\ RetiredLeavesNothing'
  <2>1. /\ epoch' \in [Requests -> 0..MaxEpoch]
        /\ \A q \in Requests : epoch[q] <= epoch'[q]
        /\ call' \in CallRecord \cup {NoCall}
        /\ front' \in [Requests -> FrontStates]
        /\ active' \subseteq Requests /\ overlapped' \subseteq Requests
    BY <1>1 DEF Base, TypeOK, FrontStates
  <2>. QED BY <1>1, <2>1, Typed DEF Base
<1>3. EpisodesBegun'
  BY <1>1, BegunKept DEF Base
<1>4. HostEpochs'
  BY <1>1 DEF Base, HostEpochs
<1>5. CallsPreempt'
  BY <1>1 DEF CallsPreempt
<1>6. TerminalAfterStartInactive'
  BY <1>1 DEF Base, TerminalAfterStartInactive
<1>7. Frame(r)
  BY <1>1 DEF Frame, CallOf, OneOwner
<1>. QED BY <1>2, <1>3, <1>4, <1>5, <1>6, <1>7 DEF Base

\* A step of the observer.
LEMMA FrontFrame ==
    ASSUME Base, NEW r \in Requests, SinkStep(r), BridgeStep(r), NoneOpened(r),
           UNCHANGED <<hostVars, skipped, capacity>>,
           front' \in [Requests -> FrontStates],
           \A q \in Requests \ {r} : front'[q] = front[q],
           front[r] = "finished" => front'[r] = "finished",
           overlapped \subseteq overlapped', overlapped' \subseteq overlapped \cup {r},
           active' \subseteq active \cup {r},
           r \in active' /\ front'[r] = "finished" => r \in overlapped'
    PROVE  Base' /\ Frame(r)
<1>. USE BridgeAssumption
<1>1. call' = call /\ epoch' = epoch /\ host' = host /\ skipped' = skipped /\ capacity' = capacity
  BY DEF hostVars
<1>2. TypeOK' /\ RetiredLeavesNothing'
  <2>1. /\ epoch' \in [Requests -> 0..MaxEpoch]
        /\ \A q \in Requests : epoch[q] <= epoch'[q]
        /\ call' \in CallRecord \cup {NoCall}
        /\ host' \in [Requests -> HostStates]
        /\ active' \subseteq Requests /\ overlapped' \subseteq Requests
        /\ skipped' \subseteq Requests
    BY <1>1 DEF Base, TypeOK, HostStates
  <2>. QED BY <1>1, <2>1, Typed DEF Base
<1>3. EpisodesBegun'
  BY <1>1, BegunKept DEF Base
<1>4. HostEpochs'
  BY <1>1 DEF Base, HostEpochs
<1>5. CallsPreempt'
  BY <1>1 DEF Base, CallsPreempt
<1>6. TerminalAfterStartInactive'
  <2>1. SUFFICES ASSUME NEW q \in active', front'[q] = "finished"
                 PROVE  q \in overlapped'
    BY DEF TerminalAfterStartInactive
  <2>2. CASE q = r
    BY <2>1, <2>2
  <2>3. CASE q # r
    <3>1. q \in active /\ q \in Requests
      BY <2>3 DEF Base, TypeOK
    <3>. QED BY <2>1, <2>3, <3>1 DEF Base, TerminalAfterStartInactive
  <2>. QED BY <2>2, <2>3
<1>7. Frame(r)
  BY <1>1 DEF Frame, CallOf, OneOwner
<1>. QED BY <1>2, <1>3, <1>4, <1>5, <1>6, <1>7 DEF Base

\* The steps about r, by what they do when r is clean afterwards.
Kept(r) == epoch'[r] = epoch[r] /\ CallOf(r)' = CallOf(r)

StaysQuiet(r) ==
    /\ Kept(r) /\ Quiet(r)
    /\ \/ host'[r] = host[r]
       \/ CallOf(r) = NoCall /\ host[r] = "new" /\ host'[r] = "waiting"
       \/ /\ CallOf(r) = NoCall
          /\ host'[r] = "running" /\ (r \in Live => r \in Computing)
          /\ host[r] \in {"waiting", "running", "preempted", "admitted"}
       \/ host'[r] = "finished" /\ r \notin Live

Registers(r) ==
    /\ Kept(r) /\ Registered(r)
    /\ host'[r] = host[r] \/ (host[r] = "new" /\ host'[r] = "waiting")

Steps(r) ==
    /\ Kept(r) /\ CallOf(r) = NoCall /\ r \in Live /\ Stepped(r)
    /\ host[r] \in {"waiting", "running", "preempted", "admitted"}
    /\ host'[r] = "running"

Leaves(r) ==
    /\ Quiet(r) /\ r \in Computing /\ CallOf(r) = NoCall
    /\ host[r] = "running" /\ host'[r] = "preempted"
    /\ epoch'[r] = epoch[r] + 1
    /\ CallOf(r)' = [at |-> "emit", request |-> r,
                     started |-> state[r].activeStarted, span |-> state[r].activeSpan]

Opens(r) ==
    /\ call.at = "emit" /\ CallOf(r) = call
    /\ Preempted(r, epoch[r])
    /\ CallOf(r)' = [at |-> "commit", request |-> r]
    /\ epoch'[r] = epoch[r] /\ host'[r] = host[r]

Commits(r) ==
    /\ call.at = "commit" /\ CallOf(r) = call
    /\ CallOf(r)' = NoCall
    /\ epoch'[r] = epoch[r] /\ host'[r] = host[r]
    /\ \/ Quiet(r) /\ ~(r \in Live /\ <<r, epoch[r]>> \in Episodes)
       \/ Committed(r, epoch[r])

Admits(r) ==
    /\ Kept(r) /\ CallOf(r) = NoCall
    /\ CanStartAdmission(r, epoch[r]) /\ Admitted(r, epoch[r])
    /\ host[r] = "preempted" /\ host'[r] = "admitting"

Resumes(r) ==
    /\ Kept(r) /\ CallOf(r) = NoCall
    /\ CanResume(r, epoch[r]) /\ Resumed(r, epoch[r])
    /\ host[r] = "admitting" /\ host'[r] = "resuming"

Computes(r) ==
    /\ Kept(r) /\ CallOf(r) = NoCall
    /\ CanCompute(r, epoch[r]) /\ Computed(r, epoch[r])
    /\ host[r] = "resuming" /\ host'[r] = "admitted"

Ends(r) ==
    /\ Kept(r) /\ Ended(r)
    /\ \/ ~OneOwner(r)'
       \/ CallOf(r) = NoCall /\ host[r] # "resuming"

CleanStep(r) ==
    \/ StaysQuiet(r) \/ Registers(r) \/ Steps(r) \/ Leaves(r) \/ Opens(r)
    \/ Commits(r) \/ Admits(r) \/ Resumes(r) \/ Computes(r) \/ Ends(r)

Described(r) == Base' /\ Frame(r) /\ (Clean(r)' => CleanStep(r))

LEMMA HostMoves ==
    ASSUME TypeOK, NEW r \in Requests, NEW h \in HostStates, host' = [host EXCEPT ![r] = h]
    PROVE  /\ host' \in [Requests -> HostStates] /\ host'[r] = h
           /\ \A q \in Requests \ {r} : host'[q] = host[q]
BY DEF TypeOK, HostStates

LEMMA CoreStartedStep ==
    ASSUME Base, NEW r \in Requests, CoreStarted(r), capacity' = capacity
    PROVE  Described(r)
<1>1. /\ SinkStep(r) /\ BridgeStep(r) /\ NoneOpened(r)
      /\ Clean(r)' => Quiet(r) \/ Registered(r)
  BY RegisterActs DEF CoreStarted, Base
<1>2. /\ host' \in [Requests -> HostStates] /\ host'[r] = "waiting"
      /\ \A q \in Requests \ {r} : host'[q] = host[q]
  BY HostMoves DEF CoreStarted, Base, HostStates
<1>3. /\ Idle /\ host[r] = "new" /\ call' = call /\ skipped' = skipped
      /\ UNCHANGED <<frontVars, epoch, capacity>>
  BY DEF CoreStarted
<1>4. Base' /\ Frame(r)
  <2>1. skipped' \subseteq Requests /\ skipped \subseteq skipped'
    BY <1>3 DEF Base, TypeOK
  <2>2. host'[r] \notin {"preempted", "admitting", "resuming", "admitted"}
    BY <1>2
  <2>. QED BY <1>1, <1>2, <1>3, <2>1, <2>2, CoreFrame
<1>5. Kept(r) /\ CallOf(r) = NoCall
  BY <1>3 DEF Kept, CallOf, Idle
<1>. QED BY <1>1, <1>2, <1>3, <1>4, <1>5 DEF Described, CleanStep, StaysQuiet, Registers

LEMMA CoreScheduledStep ==
    ASSUME Base, NEW r \in Requests, NEW kind \in Kinds, CoreScheduled(r, kind),
           capacity' = capacity
    PROVE  Described(r)
<1>1. /\ SinkStep(r) /\ BridgeStep(r) /\ NoneOpened(r)
      /\ Clean(r)' => \/ Quiet(r) /\ (r \in Live => r \in Computing)
                      \/ r \in Live /\ Stepped(r)
  BY ScheduledActs DEF CoreScheduled, Base
<1>2. /\ host' \in [Requests -> HostStates] /\ host'[r] = "running"
      /\ \A q \in Requests \ {r} : host'[q] = host[q]
  BY HostMoves DEF CoreScheduled, Base, HostStates
<1>3. /\ Idle /\ host[r] \in {"waiting", "running", "preempted", "admitted"}
      /\ call' = call /\ skipped' = skipped
      /\ UNCHANGED <<frontVars, epoch, capacity>>
  BY DEF CoreScheduled
<1>4. Base' /\ Frame(r)
  <2>1. skipped' \subseteq Requests /\ skipped \subseteq skipped'
    BY <1>3 DEF Base, TypeOK
  <2>2. host'[r] \notin {"preempted", "admitting", "resuming", "admitted"}
    BY <1>2
  <2>. QED BY <1>1, <1>2, <1>3, <2>1, <2>2, CoreFrame
<1>5. Kept(r) /\ CallOf(r) = NoCall
  BY <1>3 DEF Kept, CallOf, Idle
<1>. QED BY <1>1, <1>2, <1>3, <1>4, <1>5 DEF Described, CleanStep, StaysQuiet, Steps

LEMMA CoreAdmissionStep ==
    ASSUME Base, NEW r \in Requests, CoreAdmission(r), capacity' = capacity
    PROVE  Described(r)
<1>1. /\ SinkStep(r) /\ BridgeStep(r) /\ NoneOpened(r)
      /\ skipped' \subseteq Requests /\ skipped \subseteq skipped'
      /\ Clean(r)' => CanStartAdmission(r, epoch[r]) /\ Admitted(r, epoch[r])
  <2>1. CASE EmitAdmissionStarted(r, epoch[r]) /\ UNCHANGED skipped
    <3>1. CanStartAdmission(r, epoch[r])
      BY <2>1 DEF EmitAdmissionStarted
    <3>2. skipped' \subseteq Requests /\ skipped \subseteq skipped'
      BY <2>1 DEF Base, TypeOK
    <3>. QED BY <2>1, <3>1, <3>2, AdmissionActs DEF Base
  <2>2. CASE skipped' = skipped \cup {r} /\ UNCHANGED <<bridgeVars, sinkVars>>
    <3>1. SinkStep(r) /\ BridgeStep(r) /\ NoneOpened(r)
      BY <2>2, NothingDone DEF Base
    <3>. QED BY <2>2, <3>1 DEF Base, TypeOK, Clean
  <2>. QED BY <2>1, <2>2 DEF CoreAdmission
<1>2. /\ host' \in [Requests -> HostStates] /\ host'[r] = "admitting"
      /\ \A q \in Requests \ {r} : host'[q] = host[q]
  BY HostMoves DEF CoreAdmission, Base, HostStates
<1>3. /\ Idle /\ host[r] = "preempted" /\ call' = call
      /\ UNCHANGED <<frontVars, epoch, capacity>>
  BY DEF CoreAdmission
<1>4. epoch[r] > 0
  BY <1>3 DEF Base, HostEpochs
<1>5. Base' /\ Frame(r)
  BY <1>1, <1>2, <1>3, <1>4, CoreFrame
<1>6. Kept(r) /\ CallOf(r) = NoCall
  BY <1>3 DEF Kept, CallOf, Idle
<1>. QED BY <1>1, <1>2, <1>3, <1>5, <1>6 DEF Described, CleanStep, Admits

LEMMA CoreResumedStep ==
    ASSUME Base, NEW r \in Requests, CoreResumed(r), capacity' = capacity
    PROVE  Described(r)
<1>1. /\ SinkStep(r) /\ BridgeStep(r) /\ NoneOpened(r)
      /\ skipped' \subseteq Requests /\ skipped \subseteq skipped'
      /\ Clean(r)' => CanResume(r, epoch[r]) /\ Resumed(r, epoch[r])
  <2>1. CASE EmitResumed(r, epoch[r]) /\ UNCHANGED skipped
    <3>1. CanResume(r, epoch[r])
      BY <2>1 DEF EmitResumed
    <3>2. skipped' \subseteq Requests /\ skipped \subseteq skipped'
      BY <2>1 DEF Base, TypeOK
    <3>. QED BY <2>1, <3>1, <3>2, ResumedActs DEF Base
  <2>2. CASE skipped' = skipped \cup {r} /\ UNCHANGED <<bridgeVars, sinkVars>>
    <3>1. SinkStep(r) /\ BridgeStep(r) /\ NoneOpened(r)
      BY <2>2, NothingDone DEF Base
    <3>. QED BY <2>2, <3>1 DEF Base, TypeOK, Clean
  <2>. QED BY <2>1, <2>2 DEF CoreResumed
<1>2. /\ host' \in [Requests -> HostStates] /\ host'[r] = "resuming"
      /\ \A q \in Requests \ {r} : host'[q] = host[q]
  BY HostMoves DEF CoreResumed, Base, HostStates
<1>3. /\ Idle /\ host[r] = "admitting" /\ call' = call
      /\ UNCHANGED <<frontVars, epoch, capacity>>
  BY DEF CoreResumed
<1>4. epoch[r] > 0
  BY <1>3 DEF Base, HostEpochs
<1>5. Base' /\ Frame(r)
  BY <1>1, <1>2, <1>3, <1>4, CoreFrame
<1>6. Kept(r) /\ CallOf(r) = NoCall
  BY <1>3 DEF Kept, CallOf, Idle
<1>. QED BY <1>1, <1>2, <1>3, <1>5, <1>6 DEF Described, CleanStep, Resumes

LEMMA CoreFirstComputeStep ==
    ASSUME Base, NEW r \in Requests, NEW kind \in Kinds, CoreFirstCompute(r, kind),
           capacity' = capacity
    PROVE  Described(r)
<1>1. /\ SinkStep(r) /\ BridgeStep(r) /\ NoneOpened(r)
      /\ skipped' \subseteq Requests /\ skipped \subseteq skipped'
      /\ Clean(r)' => CanCompute(r, epoch[r]) /\ Computed(r, epoch[r])
  <2>1. CASE EmitFirstCompute(r, epoch[r], kind) /\ UNCHANGED skipped
    <3>1. CanCompute(r, epoch[r])
      BY <2>1 DEF EmitFirstCompute
    <3>2. skipped' \subseteq Requests /\ skipped \subseteq skipped'
      BY <2>1 DEF Base, TypeOK
    <3>. QED BY <2>1, <3>1, <3>2, ComputeActs DEF Base
  <2>2. CASE skipped' = skipped \cup {r} /\ UNCHANGED <<bridgeVars, sinkVars>>
    <3>1. SinkStep(r) /\ BridgeStep(r) /\ NoneOpened(r)
      BY <2>2, NothingDone DEF Base
    <3>. QED BY <2>2, <3>1 DEF Base, TypeOK, Clean
  <2>. QED BY <2>1, <2>2 DEF CoreFirstCompute
<1>2. /\ host' \in [Requests -> HostStates] /\ host'[r] = "admitted"
      /\ \A q \in Requests \ {r} : host'[q] = host[q]
  BY HostMoves DEF CoreFirstCompute, Base, HostStates
<1>3. /\ Idle /\ host[r] = "resuming" /\ call' = call
      /\ UNCHANGED <<frontVars, epoch, capacity>>
  BY DEF CoreFirstCompute
<1>4. epoch[r] > 0
  BY <1>3 DEF Base, HostEpochs
<1>5. Base' /\ Frame(r)
  BY <1>1, <1>2, <1>3, <1>4, CoreFrame
<1>6. Kept(r) /\ CallOf(r) = NoCall
  BY <1>3 DEF Kept, CallOf, Idle
<1>. QED BY <1>1, <1>2, <1>3, <1>5, <1>6 DEF Described, CleanStep, Computes

LEMMA CoreGivesUpStep ==
    ASSUME Base, NEW r \in Requests, CoreGivesUp(r), capacity' = capacity
    PROVE  Described(r)
<1>1. /\ SinkStep(r) /\ BridgeStep(r) /\ NoneOpened(r)
      /\ skipped' \subseteq Requests /\ skipped \subseteq skipped'
      /\ ~Clean(r)'
  <2>1. skipped' = skipped \cup {r} /\ UNCHANGED <<bridgeVars, sinkVars>>
    BY DEF CoreGivesUp
  <2>2. SinkStep(r) /\ BridgeStep(r) /\ NoneOpened(r)
    BY <2>1, NothingDone DEF Base
  <2>. QED BY <2>1, <2>2 DEF Base, TypeOK, Clean
<1>2. /\ host' \in [Requests -> HostStates]
      /\ \A q \in Requests \ {r} : host'[q] = host[q]
  BY HostMoves DEF CoreGivesUp, Base, HostStates
<1>3. /\ Idle /\ host[r] = "admitting" /\ call' = call
      /\ UNCHANGED <<frontVars, epoch, capacity>>
  BY DEF CoreGivesUp
<1>4. epoch[r] > 0
  BY <1>3 DEF Base, HostEpochs
<1>5. Base' /\ Frame(r)
  BY <1>1, <1>2, <1>3, <1>4, CoreFrame
<1>. QED BY <1>1, <1>5 DEF Described

LEMMA CoreTerminalStep ==
    ASSUME Base, NEW r \in Requests, NEW cause, CoreTerminal(r, cause), capacity' = capacity
    PROVE  Described(r)
<1>1. /\ SinkStep(r) /\ BridgeStep(r) /\ NoneOpened(r)
      /\ Clean(r)' => (r \notin Live /\ Quiet(r)) \/ Ended(r)
  BY TerminalActs DEF CoreTerminal, Base
<1>2. /\ host' \in [Requests -> HostStates] /\ host'[r] = "finished"
      /\ \A q \in Requests \ {r} : host'[q] = host[q]
  BY HostMoves DEF CoreTerminal, Base, HostStates
<1>3. /\ Idle /\ host[r] # "resuming"
      /\ call' = call /\ skipped' = skipped
      /\ UNCHANGED <<frontVars, epoch, capacity>>
  BY DEF CoreTerminal
<1>4. Base' /\ Frame(r)
  <2>1. skipped' \subseteq Requests /\ skipped \subseteq skipped'
    BY <1>3 DEF Base, TypeOK
  <2>2. host'[r] \notin {"preempted", "admitting", "resuming", "admitted"}
    BY <1>2
  <2>. QED BY <1>1, <1>2, <1>3, <2>1, <2>2, CoreFrame
<1>5. Kept(r) /\ CallOf(r) = NoCall
  BY <1>3 DEF Kept, CallOf, Idle
<1>. QED BY <1>1, <1>2, <1>3, <1>4, <1>5 DEF Described, CleanStep, StaysQuiet, Ends

LEMMA PreemptReadStep ==
    ASSUME Base, NEW r \in Requests, PreemptRead(r), capacity' = capacity
    PROVE  Described(r)
<1>. USE BridgeAssumption
<1>1. /\ Idle /\ host[r] = "running" /\ epoch[r] < MaxEpoch
      /\ host' = [host EXCEPT ![r] = "preempted"]
      /\ epoch' = [epoch EXCEPT ![r] = @ + 1]
      /\ UNCHANGED <<bridgeVars, sinkVars>> /\ UNCHANGED frontVars
  BY DEF PreemptRead
<1>2. SinkStep(r) /\ BridgeStep(r) /\ NoneOpened(r) /\ Quiet(r) /\ episode' = episode
  BY <1>1, NothingDone DEF Base, bridgeVars
<1>3. /\ host' \in [Requests -> HostStates] /\ host'[r] = "preempted"
      /\ \A q \in Requests \ {r} : host'[q] = host[q]
  BY <1>1, HostMoves DEF Base, HostStates
<1>4. /\ epoch' \in [Requests -> 0..MaxEpoch] /\ epoch'[r] = epoch[r] + 1
      /\ \A q \in Requests \ {r} : epoch'[q] = epoch[q]
      /\ \A q \in Requests : epoch[q] \in Nat /\ epoch[q] <= epoch'[q]
  BY <1>1 DEF Base, TypeOK
<1>5. \/ /\ r \in Computing /\ skipped' = skipped
         /\ call' = [at |-> "emit", request |-> r,
                     started |-> state[r].activeStarted, span |-> state[r].activeSpan]
      \/ skipped' = skipped \cup {r} /\ call' = call
  BY DEF PreemptRead
<1>6. /\ call' \in CallRecord \cup {NoCall} /\ (call' # NoCall => call'.request = r)
      /\ call = NoCall
  <2>1. CASE r \in Computing /\ call' = [at |-> "emit", request |-> r,
                      started |-> state[r].activeStarted, span |-> state[r].activeSpan]
    <3>1. state[r].activeStarted \in Nat /\ state[r].activeSpan \in Nat
      BY <2>1, LiveFacts DEF Computing, Base
    <3>. QED BY <1>1, <2>1, <3>1 DEF CallRecord, Idle
  <2>2. CASE call' = call
    BY <1>1, <2>2 DEF Idle
  <2>. QED BY <1>5, <2>1, <2>2
<1>7. /\ skipped' \subseteq Requests /\ skipped \subseteq skipped'
      /\ front' = front /\ active' = active /\ overlapped' = overlapped
  BY <1>1, <1>5 DEF Base, TypeOK, frontVars
<1>8. TypeOK' /\ RetiredLeavesNothing'
  <2>1. /\ front' \in [Requests -> FrontStates]
        /\ active' \subseteq Requests /\ overlapped' \subseteq Requests
    BY <1>7 DEF Base, TypeOK, FrontStates
  <2>. QED BY <1>2, <1>3, <1>4, <1>6, <1>7, <2>1, Typed DEF Base
<1>9. EpisodesBegun'
  <2>1. SUFFICES ASSUME NEW k \in Requests \X Epochs, episode[k] # NoEpisode
                 PROVE  /\ k[2] <= epoch'[k[1]]
                        /\ call'.at = "emit" /\ call'.request = k[1] => k[2] < epoch'[k[1]]
    BY <1>2 DEF EpisodesBegun, Episodes
  <2>2. k[2] <= epoch[k[1]] /\ k[1] \in Requests /\ k[2] \in Nat
    BY <2>1 DEF EpisodesBegun, Episodes, Base, Epochs
  <2>3. NoCall.at # "emit"
    BY DEF NoCall
  <2>4. call'.at = "emit" /\ call'.request = k[1] => k[1] = r
    BY <1>6, <2>3
  <2>. QED BY <1>4, <2>2, <2>4
<1>10. HostEpochs'
  <2>1. SUFFICES ASSUME NEW q \in Requests,
                        host'[q] \in {"preempted", "admitting", "resuming", "admitted"}
                 PROVE  epoch'[q] > 0
    BY DEF HostEpochs
  <2>2. CASE q = r
    BY <1>4, <2>2
  <2>3. CASE q # r
    BY <1>3, <1>4, <2>1, <2>3 DEF Base, HostEpochs
  <2>. QED BY <2>2, <2>3
<1>11. CallsPreempt'
  BY <1>3, <1>6 DEF CallsPreempt
<1>12. TerminalAfterStartInactive'
  BY <1>7 DEF Base, TerminalAfterStartInactive
<1>13. \A q \in Requests \ {r} : CallOf(q)' = CallOf(q)
  BY <1>6 DEF CallOf
<1>14. Frame(r)
  BY <1>2, <1>3, <1>4, <1>7, <1>13 DEF Frame, OneOwner
<1>15. Clean(r)' => Leaves(r)
  <2>1. SUFFICES ASSUME Clean(r)' PROVE Leaves(r)
    OBVIOUS
  <2>2. /\ r \in Computing
        /\ call' = [at |-> "emit", request |-> r,
                    started |-> state[r].activeStarted, span |-> state[r].activeSpan]
    BY <1>5, <2>1 DEF Clean
  <2>3. call' # NoCall /\ call'.request = r
    BY <2>2 DEF NoCall
  <2>4. CallOf(r)' = call' /\ CallOf(r) = NoCall
    BY <1>6, <2>3 DEF CallOf
  <2>. QED BY <1>1, <1>2, <1>3, <1>4, <2>2, <2>4 DEF Leaves
<1>. QED BY <1>8, <1>9, <1>10, <1>11, <1>12, <1>14, <1>15 DEF Described, Base, CleanStep

\* The two other critical sections of a preemption.
LEMMA CallFacts ==
    ASSUME Base, call.at \in {"emit", "commit"}
    PROVE  /\ call # NoCall /\ call.request \in Requests
           /\ host[call.request] = "preempted" /\ epoch[call.request] \in Epochs
<1>. USE BridgeAssumption
<1>1. call # NoCall
  BY DEF NoCall
<1>2. call.request \in Requests
  BY <1>1 DEF Base, TypeOK, CallRecord
<1>3. host[call.request] = "preempted"
  BY <1>1 DEF Base, CallsPreempt
<1>4. epoch[call.request] > 0 /\ epoch[call.request] \in 0..MaxEpoch
  BY <1>2, <1>3 DEF Base, HostEpochs, TypeOK
<1>. QED BY <1>1, <1>2, <1>3, <1>4 DEF Epochs

\* They change neither host nor observer.
LEMMA CallFrame ==
    ASSUME Base, NEW r \in Requests, SinkStep(r), BridgeStep(r), EpisodesBegun',
           call # NoCall, call.request = r,
           call' = NoCall \/ call' = [at |-> "commit", request |-> r],
           UNCHANGED <<host, epoch, frontVars, capacity>>,
           skipped' \subseteq Requests, skipped \subseteq skipped'
    PROVE  Base' /\ Frame(r)
<1>. USE BridgeAssumption
<1>1. epoch' = epoch /\ host' = host /\ front' = front
      /\ active' = active /\ overlapped' = overlapped /\ capacity' = capacity
  BY DEF frontVars
<1>2. call' \in CallRecord \cup {NoCall} /\ (call' # NoCall => call'.request = r)
  BY DEF CallRecord
<1>3. TypeOK' /\ RetiredLeavesNothing'
  <2>1. /\ epoch' \in [Requests -> 0..MaxEpoch]
        /\ \A q \in Requests : epoch[q] <= epoch'[q]
        /\ front' \in [Requests -> FrontStates] /\ host' \in [Requests -> HostStates]
        /\ active' \subseteq Requests /\ overlapped' \subseteq Requests
    BY <1>1 DEF Base, TypeOK, FrontStates, HostStates
  <2>. QED BY <1>1, <1>2, <2>1, Typed DEF Base
<1>4. HostEpochs' /\ TerminalAfterStartInactive'
  BY <1>1 DEF Base, HostEpochs, TerminalAfterStartInactive
<1>5. CallsPreempt'
  BY <1>1, <1>2 DEF Base, CallsPreempt
<1>6. \A q \in Requests \ {r} : CallOf(q)' = CallOf(q)
  BY <1>2 DEF CallOf
<1>7. Frame(r)
  BY <1>1, <1>6 DEF Frame, OneOwner
<1>. QED BY <1>3, <1>4, <1>5, <1>7 DEF Base

LEMMA PreemptEmitStep ==
    ASSUME Base, PreemptEmit, capacity' = capacity
    PROVE  \E r \in Requests : Described(r)
<1>. USE BridgeAssumption
<1>1. PICK r : r = call.request
  OBVIOUS
<1>2. PICK e : e = epoch[r]
  OBVIOUS
<1>3. call.at = "emit"
  BY DEF PreemptEmit
<1>4. r \in Requests /\ call # NoCall /\ e \in Epochs /\ e \in Nat
  BY <1>1, <1>2, <1>3, CallFacts DEF Epochs
<1>5. /\ SinkStep(r) /\ BridgeStep(r)
      /\ \A x \in Epochs \ {e} : episode'[<<r, x>>] = episode[<<r, x>>]
      /\ \/ ~Clean(r)' /\ NoneOpened(r) /\ call' = NoCall
         \/ Preempted(r, e) /\ call' = [at |-> "commit", request |-> r]
  BY <1>1, <1>2, <1>4, PreemptActs DEF Base
<1>6. /\ UNCHANGED <<host, epoch, frontVars>>
      /\ skipped' = skipped \/ skipped' = skipped \cup {r}
  BY <1>1 DEF PreemptEmit
<1>7. skipped' \subseteq Requests /\ skipped \subseteq skipped'
  BY <1>4, <1>6 DEF Base, TypeOK
<1>8. call'.at # "emit"
  BY <1>5 DEF NoCall
<1>9. EpisodesBegun'
  <2>1. SUFFICES ASSUME NEW k \in Requests \X Epochs, episode'[k] # NoEpisode
                 PROVE  k[2] <= epoch[k[1]]
    BY <1>6, <1>8 DEF EpisodesBegun, Episodes
  <2>2. k = <<k[1], k[2]>> /\ k[1] \in Requests /\ k[2] \in Epochs
    OBVIOUS
  <2>3. CASE k[1] = r /\ k[2] = e
    BY <1>2, <1>4, <2>3
  <2>4. CASE ~(k[1] = r /\ k[2] = e)
    <3>1. episode'[k] = episode[k]
      <4>1. CASE k[1] # r
        BY <1>5, <2>2, <4>1 DEF BridgeStep
      <4>2. CASE k[1] = r
        <5>1. k[2] \in Epochs \ {e} /\ k = <<r, k[2]>>
          BY <2>2, <2>4, <4>2
        <5>. QED BY <1>5, <5>1
      <4>. QED BY <4>1, <4>2
    <3>2. k \in Episodes
      BY <2>1, <3>1 DEF Episodes
    <3>. QED BY <3>2 DEF Base, EpisodesBegun
  <2>. QED BY <2>3, <2>4
<1>10. Base' /\ Frame(r)
  <2>1. call' = NoCall \/ call' = [at |-> "commit", request |-> r]
    BY <1>5
  <2>. QED BY <1>1, <1>4, <1>5, <1>6, <1>7, <1>9, <2>1, CallFrame
<1>11. Clean(r)' => Opens(r)
  <2>1. SUFFICES ASSUME Clean(r)' PROVE Opens(r)
    OBVIOUS
  <2>2. Preempted(r, e) /\ call' = [at |-> "commit", request |-> r]
    BY <1>5, <2>1
  <2>3. call' # NoCall /\ call'.request = r
    BY <2>2 DEF NoCall
  <2>4. CallOf(r) = call /\ CallOf(r)' = call'
    BY <1>1, <1>4, <2>3 DEF CallOf
  <2>. QED BY <1>2, <1>3, <1>6, <2>2, <2>4 DEF Opens
<1>. QED BY <1>4, <1>10, <1>11 DEF Described, CleanStep

LEMMA PreemptCommitStep ==
    ASSUME Base, PreemptCommit, capacity' = capacity
    PROVE  \E r \in Requests : Described(r)
<1>1. PICK r : r = call.request
  OBVIOUS
<1>2. PICK e : e = epoch[r]
  OBVIOUS
<1>3. call.at = "commit"
  BY DEF PreemptCommit
<1>4. r \in Requests /\ call # NoCall /\ e \in Epochs
  BY <1>1, <1>2, <1>3, CallFacts
<1>5. /\ SinkStep(r) /\ BridgeStep(r) /\ NoneOpened(r) /\ call' = NoCall
      /\ \/ Quiet(r) /\ ~(r \in Live /\ <<r, e>> \in Episodes)
         \/ Committed(r, e)
  BY <1>1, <1>2, <1>4, CommitActs DEF Base
<1>6. UNCHANGED <<host, epoch, frontVars>> /\ skipped' = skipped
  BY DEF PreemptCommit
<1>7. EpisodesBegun'
  BY <1>4, <1>5, <1>6, BegunKept DEF Base
<1>8. Base' /\ Frame(r)
  <2>1. skipped' \subseteq Requests /\ skipped \subseteq skipped'
    BY <1>6 DEF Base, TypeOK
  <2>. QED BY <1>1, <1>4, <1>5, <1>6, <1>7, <2>1, CallFrame
<1>9. CallOf(r) = call /\ CallOf(r)' = NoCall
  BY <1>1, <1>4, <1>5 DEF CallOf
<1>10. Commits(r)
  BY <1>2, <1>3, <1>5, <1>6, <1>9 DEF Commits
<1>. QED BY <1>4, <1>8, <1>10 DEF Described, CleanStep

LEMMA FrontMoves ==
    ASSUME TypeOK, NEW r \in Requests, NEW f \in FrontStates, front' = [front EXCEPT ![r] = f]
    PROVE  /\ front' \in [Requests -> FrontStates] /\ front'[r] = f
           /\ \A q \in Requests \ {r} : front'[q] = front[q]
BY DEF TypeOK, FrontStates

LEMMA FrontRegisterStep ==
    ASSUME Base, NEW r \in Requests, FrontRegister(r), capacity' = capacity
    PROVE  Described(r)
<1>1. /\ SinkStep(r) /\ BridgeStep(r) /\ NoneOpened(r)
      /\ Clean(r)' => Quiet(r) \/ Registered(r)
  BY RegisterActs DEF FrontRegister, Base
<1>2. /\ front[r] = "new"
      /\ UNCHANGED <<hostVars, active, overlapped, skipped>>
  BY DEF FrontRegister
<1>3. PICK f \in FrontStates : f # "finished" /\ front' = [front EXCEPT ![r] = f]
  BY DEF FrontRegister, FrontStates
<1>4. /\ front' \in [Requests -> FrontStates] /\ front'[r] = f
      /\ \A q \in Requests \ {r} : front'[q] = front[q]
  BY <1>3, FrontMoves DEF Base
<1>5. Base' /\ Frame(r)
  BY <1>1, <1>2, <1>3, <1>4, FrontFrame DEF Base
<1>6. Kept(r) /\ host'[r] = host[r]
  BY <1>2 DEF Kept, CallOf, hostVars
<1>. QED BY <1>1, <1>5, <1>6 DEF Described, CleanStep, StaysQuiet, Registers

LEMMA FrontActivateStep ==
    ASSUME Base, NEW r \in Requests, FrontActivate(r), capacity' = capacity
    PROVE  Described(r)
<1>1. SinkStep(r) /\ BridgeStep(r) /\ NoneOpened(r) /\ Quiet(r)
  BY NothingDone DEF FrontActivate, Base
<1>2. /\ front[r] = "starting"
      /\ UNCHANGED <<hostVars, overlapped, skipped>>
      /\ active' \subseteq active \cup {r}
  BY DEF FrontActivate
<1>3. PICK f \in FrontStates : /\ f = "finished" => r \in overlapped
                               /\ front' = [front EXCEPT ![r] = f]
  BY DEF FrontActivate, FrontStates
<1>4. /\ front' \in [Requests -> FrontStates] /\ front'[r] = f
      /\ \A q \in Requests \ {r} : front'[q] = front[q]
  BY <1>3, FrontMoves DEF Base
<1>5. Base' /\ Frame(r)
  BY <1>1, <1>2, <1>3, <1>4, FrontFrame
<1>6. Kept(r) /\ host'[r] = host[r]
  BY <1>2 DEF Kept, CallOf, hostVars
<1>. QED BY <1>1, <1>5, <1>6 DEF Described, CleanStep, StaysQuiet

LEMMA FrontTerminalStep ==
    ASSUME Base, NEW r \in Requests, NEW cause, FrontTerminal(r, cause), capacity' = capacity
    PROVE  Described(r)
<1>1. /\ SinkStep(r) /\ BridgeStep(r) /\ NoneOpened(r)
      /\ Clean(r)' => (r \notin Live /\ Quiet(r)) \/ Ended(r)
  BY TerminalActs DEF FrontTerminal, Base
<1>2. /\ front[r] = "started"
      /\ UNCHANGED <<hostVars, overlapped, skipped>>
      /\ active' = active \ {r}
  BY DEF FrontTerminal, Discarded
<1>3. /\ front' \in [Requests -> FrontStates] /\ front'[r] = "finished"
      /\ \A q \in Requests \ {r} : front'[q] = front[q]
  BY FrontMoves DEF FrontTerminal, FrontStates, Base
<1>4. Base' /\ Frame(r)
  BY <1>1, <1>2, <1>3, FrontFrame
<1>5. Kept(r) /\ host'[r] = host[r]
  BY <1>2 DEF Kept, CallOf, hostVars
<1>6. ~OneOwner(r)'
  BY <1>3 DEF OneOwner
<1>. QED BY <1>1, <1>4, <1>5, <1>6 DEF Described, CleanStep, StaysQuiet, Ends

LEMMA EngineFailureStep ==
    ASSUME Base, NEW r \in Requests, EngineFailure(r), capacity' = capacity
    PROVE  Described(r)
<1>1. /\ SinkStep(r) /\ BridgeStep(r) /\ NoneOpened(r)
      /\ Clean(r)' => (r \notin Live /\ Quiet(r)) \/ Ended(r)
  BY TerminalActs DEF EngineFailure, Base
<1>2. /\ front[r] \in {"starting", "started"}
      /\ UNCHANGED <<hostVars, skipped>>
      /\ active' = active \ {r}
      /\ overlapped' = IF front[r] = "starting" THEN overlapped \cup {r} ELSE overlapped
  BY DEF EngineFailure, Discarded
<1>3. PICK f \in FrontStates :
          /\ f = IF front[r] = "started" THEN "finished" ELSE "starting"
          /\ front' = [front EXCEPT ![r] = f]
  BY <1>2 DEF EngineFailure, FrontStates, Base, TypeOK
<1>4. /\ front' \in [Requests -> FrontStates] /\ front'[r] = f
      /\ \A q \in Requests \ {r} : front'[q] = front[q]
  BY <1>3, FrontMoves DEF Base
<1>5. Base' /\ Frame(r)
  BY <1>1, <1>2, <1>3, <1>4, FrontFrame
<1>6. Kept(r) /\ host'[r] = host[r]
  BY <1>2 DEF Kept, CallOf, hostVars
<1>7. ~OneOwner(r)'
  BY <1>2, <1>3, <1>4 DEF OneOwner
<1>. QED BY <1>1, <1>5, <1>6, <1>7 DEF Described, CleanStep, StaysQuiet, Ends

\* Every step is about one request.
LEMMA EveryStep ==
    ASSUME Base, Next
    PROVE  UNCHANGED vars \/ \E r \in Requests : Described(r)
<1>1. CASE Rest
  BY <1>1 DEF Rest
<1>2. CASE CoreNext /\ UNCHANGED capacity
  BY <1>2, PreemptEmitStep, PreemptCommitStep, CoreStartedStep, PreemptReadStep,
     CoreAdmissionStep, CoreResumedStep, CoreGivesUpStep, CoreScheduledStep,
     CoreFirstComputeStep, CoreTerminalStep DEF CoreNext
<1>3. CASE FrontNext /\ UNCHANGED capacity
  BY <1>3, FrontRegisterStep, FrontActivateStep, EngineFailureStep, FrontTerminalStep
     DEF FrontNext
<1>. QED BY <1>1, <1>2, <1>3 DEF Next

LEMMA BaseInit == Init => Base
<1>. USE BridgeAssumption
<1>1. SUFFICES ASSUME Init PROVE Base
  OBVIOUS
<1>2. PICK f \in {"none", "new"} : front = [r \in Requests |-> f]
  BY <1>1 DEF Init
<1>3. Live = {} /\ Episodes = {}
  BY <1>1 DEF Init, Live, Episodes
<1>4. \A r \in Requests : log[r] = <<>>
  BY <1>1 DEF Init
<1>5. TypeOK
  <2>1. log \in [Requests -> Seq(EventRecord)]
    BY <1>1 DEF Init
  <2>. QED BY <1>1, <1>2, <1>3, <2>1 DEF Init, TypeOK
<1>6. /\ CallsPreempt /\ HostEpochs /\ EpisodesBegun
      /\ RetiredLeavesNothing /\ TerminalAfterStartInactive
  BY <1>1, <1>3 DEF Init, CallsPreempt, HostEpochs, EpisodesBegun, RetiredLeavesNothing,
                    TerminalAfterStartInactive
<1>. QED BY <1>5, <1>6 DEF Base

LEMMA BaseUnchanged ==
    ASSUME Base, UNCHANGED vars
    PROVE  Base'
<1>1. /\ capacity' = capacity /\ state' = state /\ episode' = episode /\ call' = call
      /\ host' = host /\ epoch' = epoch /\ front' = front /\ active' = active
      /\ overlapped' = overlapped /\ sinkOpen' = sinkOpen /\ refusals' = refusals
      /\ log' = log /\ edges' = edges /\ lossy' = lossy /\ skipped' = skipped
  BY DEF vars
<1>2. Live' = Live /\ Episodes' = Episodes
  BY <1>1 DEF Live, Episodes
<1>3. TypeOK'
  BY <1>1, <1>2 DEF Base, TypeOK
<1>4. /\ CallsPreempt' /\ HostEpochs' /\ EpisodesBegun'
      /\ RetiredLeavesNothing' /\ TerminalAfterStartInactive'
  BY <1>1, <1>2 DEF Base, CallsPreempt, HostEpochs, EpisodesBegun, RetiredLeavesNothing,
                    TerminalAfterStartInactive
<1>. QED BY <1>3, <1>4 DEF Base

THEOREM BridgeBase == Spec => []Base
<1>1. Base /\ [Next]_vars => Base'
  BY EveryStep, BaseUnchanged DEF Described
<1>. QED BY <1>1, BaseInit, PTL DEF Spec

\* emit_runtime_terminal, on whichever thread and between whichever critical
\* sections of a preemption: a request without a state in the bridge has no
\* episode there, so that the bounded table never fills up with the dead.  Of the
\* observer's list only this much: a request_terminal that begins after
\* request_started has returned takes the request off it for good.
THEOREM RetiredForgotten == Spec => []RetiredIsForgotten
<1>1. Base => RetiredIsForgotten
  BY DEF Base, RetiredIsForgotten
<1>. QED BY <1>1, BridgeBase, PTL

-----------------------------------------------------------------------------
(* Spans and edges of a lifecycle from which nothing was lost              *)

PairedState(l, st) ==
    /\ Pair(l, st.queueStarted, st.queueSpan)
    /\ \/ st.activeStarted = 0 /\ st.activeSpan = 0
       \/ Pair(l, st.activeStarted, st.activeSpan)

PairedEpisode(l, ep) ==
    /\ Pair(l, ep.requeued, ep.queueSpan)
    /\ \/ ep.admission = 0 /\ ep.admissionSpan = 0
       \/ Pair(l, ep.admission, ep.admissionSpan)

PairedCall(l, c) == c.at = "emit" => Pair(l, c.started, c.span)

LogSound(l, E) ==
    /\ WellFormed(l) /\ Linked(l, E)
    /\ l # <<>> => l[1].name = "queued"

\* Every pair of event and span that bridge and core thread hold is a pair of
\* the log: the pairs are what the next events and edges are made from.
Sound(r) ==
    Clean(r) =>
        /\ LogSound(log[r], edges[r])
        /\ log[r] = <<>> => epoch[r] = 0
        /\ state[r] # NoState => PairedState(log[r], state[r])
        /\ \A x \in Epochs :
              episode[<<r, x>>] # NoEpisode => PairedEpisode(log[r], episode[<<r, x>>])
        /\ PairedCall(log[r], CallOf(r))

AllSound == \A r \in Requests : Sound(r)

LEMMA PairsGrow ==
    ASSUME NEW l \in Seq(EventRecord), NEW m \in Seq(EventRecord), Grown(l, m)
    PROVE  /\ \A st : PairedState(l, st) => PairedState(m, st)
           /\ \A ep : PairedEpisode(l, ep) => PairedEpisode(m, ep)
           /\ \A c : PairedCall(l, c) => PairedCall(m, c)
<1>1. Len(l) \in Nat /\ Len(m) \in Nat
  BY LenProperties
<1>2. \A a, s : Pair(l, a, s) => Pair(m, a, s)
  BY <1>1, GrownPair
<1>. QED BY <1>2 DEF PairedState, PairedEpisode, PairedCall

LEMMA LogSoundAppend ==
    ASSUME NEW l \in Seq(EventRecord), NEW v \in EventRecord, NEW E, NEW F,
           LogSound(l, E), E \subseteq F, l # <<>> \/ v.name = "queued",
           v.start \in {0, Len(l) + 1}, v.ends \subseteq 1..Len(l),
           \A s \in v.ends : <<s, Len(l) + 1>> \in F
    PROVE  /\ LogSound(Append(l, v), F) /\ Append(l, v) # <<>>
           /\ Append(l, v) \in Seq(EventRecord)
           /\ Len(Append(l, v)) = Len(l) + 1
           /\ Grown(l, Append(l, v))
           /\ v.start # 0 => Pair(Append(l, v), Len(l) + 1, Len(l) + 1)
<1>1. WellFormed(Append(l, v)) /\ Linked(Append(l, v), F)
  BY SoundAppend DEF LogSound
<1>2. /\ Append(l, v) \in Seq(EventRecord)
      /\ Len(l) \in Nat
      /\ Len(Append(l, v)) = Len(l) + 1
      /\ \A i \in 1..Len(l) : Append(l, v)[i] = l[i]
      /\ Append(l, v)[Len(l) + 1] = v
      /\ Grown(l, Append(l, v))
  BY AppendFacts
<1>3. Append(l, v) # <<>>
  BY AppendProperties
<1>4. Append(l, v)[1].name = "queued"
  <2>1. CASE l = <<>>
    <3>1. Len(l) = 0
      BY <2>1
    <3>. QED BY <1>2, <2>1, <3>1
  <2>2. CASE l # <<>>
    <3>1. Len(l) # 0
      BY <2>2, EmptySeq
    <3>2. 1 \in 1..Len(l)
      BY <1>2, <3>1
    <3>. QED BY <1>2, <2>2, <3>2 DEF LogSound
  <2>. QED BY <2>1, <2>2
<1>5. v.start # 0 => Pair(Append(l, v), Len(l) + 1, Len(l) + 1)
  BY <1>2 DEF Pair
<1>. QED BY <1>1, <1>2, <1>3, <1>4, <1>5 DEF LogSound

\* A step about another request.
LEMMA SoundElsewhere ==
    ASSUME Base, NEW r \in Requests, Frame(r), NEW q \in Requests, q # r, Sound(q)
    PROVE  Sound(q)'
<1>1. /\ log'[q] = log[q] /\ edges'[q] = edges[q] /\ epoch'[q] = epoch[q]
      /\ state'[q] = state[q] /\ CallOf(q)' = CallOf(q)
      /\ \A x \in Epochs : episode'[<<q, x>>] = episode[<<q, x>>]
  BY DEF Frame, SinkStep, BridgeStep
<1>2. Clean(q)' => Clean(q)
  BY FrameClean
<1>. QED BY <1>1, <1>2 DEF Sound

\* A step about r that emits nothing and keeps state, episodes and call.
LEMMA SoundQuiet ==
    ASSUME NEW r \in Requests, Sound(r), Clean(r), Quiet(r), epoch'[r] = epoch[r],
           CallOf(r)' = CallOf(r) \/ CallOf(r)' = NoCall
    PROVE  Sound(r)'
<1>1. NoCall.at # "emit"
  BY DEF NoCall
<1>2. /\ log'[r] = log[r] /\ edges'[r] = edges[r] /\ state'[r] = state[r]
      /\ \A x \in Epochs : episode'[<<r, x>>] = episode[<<r, x>>]
  BY DEF Quiet, EpisodesKept
<1>3. PairedCall(log[r], CallOf(r)')
  BY <1>1 DEF Sound, PairedCall
<1>. QED BY <1>2, <1>3 DEF Sound

\* A step about r that emits: what is left to show is that the new log is
\* sound and that what is new in the tables is a pair of it.
LEMMA SoundGrown ==
    ASSUME Base, NEW r \in Requests, Sound(r), Clean(r),
           NEW l, l = log'[r], l \in Seq(EventRecord), Grown(log[r], l), l # <<>>,
           LogSound(l, edges'[r]),
           state'[r] = state[r] \/ state'[r] = NoState \/ PairedState(l, state'[r]),
           \A x \in Epochs : \/ episode'[<<r, x>>] \in {episode[<<r, x>>], NoEpisode}
                             \/ PairedEpisode(l, episode'[<<r, x>>]),
           CallOf(r)' = CallOf(r) \/ CallOf(r)'.at # "emit"
    PROVE  Sound(r)'
<1>1. log[r] \in Seq(EventRecord)
  BY DEF Base, TypeOK
<1>2. /\ \A st : PairedState(log[r], st) => PairedState(l, st)
      /\ \A ep : PairedEpisode(log[r], ep) => PairedEpisode(l, ep)
      /\ \A c : PairedCall(log[r], c) => PairedCall(l, c)
  BY <1>1, PairsGrow
<1>3. /\ state[r] # NoState => PairedState(log[r], state[r])
      /\ \A x \in Epochs :
            episode[<<r, x>>] # NoEpisode => PairedEpisode(log[r], episode[<<r, x>>])
      /\ PairedCall(log[r], CallOf(r))
  BY DEF Sound
<1>4. state'[r] # NoState => PairedState(l, state'[r])
  BY <1>2, <1>3
<1>5. \A x \in Epochs :
          episode'[<<r, x>>] # NoEpisode => PairedEpisode(l, episode'[<<r, x>>])
  BY <1>2, <1>3
<1>6. PairedCall(l, CallOf(r)')
  BY <1>2, <1>3 DEF PairedCall
<1>. QED BY <1>4, <1>5, <1>6 DEF Sound

LEMMA EventFacts ==
    ASSUME NEW name \in EventNames, NEW e \in Nat, NEW start \in Nat, NEW ends \in SUBSET Nat,
           NEW v, v = Event(name, e, start, ends)
    PROVE  /\ v \in EventRecord
           /\ v.name = name /\ v.epoch = e /\ v.start = start /\ v.ends = ends
BY DEF Event, EventRecord

\* One event that ends nothing, or the span of a pair, with its edge.
LEMMA AppendOne ==
    ASSUME NEW l \in Seq(EventRecord), NEW v \in EventRecord, NEW E, NEW F,
           LogSound(l, E), E \subseteq F, v.start \in {0, Len(l) + 1}, NEW a, NEW s,
           \/ v.ends = {} /\ (l # <<>> \/ v.name = "queued")
           \/ v.ends = {s} /\ Pair(l, a, s) /\ <<a, Len(l) + 1>> \in F
    PROVE  /\ LogSound(Append(l, v), F) /\ Append(l, v) # <<>>
           /\ Append(l, v) \in Seq(EventRecord)
           /\ Len(Append(l, v)) = Len(l) + 1
           /\ Grown(l, Append(l, v))
           /\ v.start # 0 => Pair(Append(l, v), Len(l) + 1, Len(l) + 1)
<1>1. CASE v.ends = {} /\ (l # <<>> \/ v.name = "queued")
  <2>1. v.ends \subseteq 1..Len(l) /\ \A t \in v.ends : <<t, Len(l) + 1>> \in F
    BY <1>1
  <2>. QED BY <1>1, <2>1, LogSoundAppend
<1>2. CASE v.ends = {s} /\ Pair(l, a, s) /\ <<a, Len(l) + 1>> \in F
  <2>1. Len(l) \in Nat
    BY LenProperties
  <2>2. a \in 1..Len(l) /\ s = a
    BY <1>2 DEF Pair
  <2>3. Len(l) # 0
    BY <2>1, <2>2
  <2>4. l # <<>>
    BY <2>3
  <2>5. v.ends \subseteq 1..Len(l) /\ \A t \in v.ends : <<t, Len(l) + 1>> \in F
    BY <1>2, <2>2
  <2>. QED BY <2>4, <2>5, LogSoundAppend
<1>. QED BY <1>1, <1>2

\* The event v ends the span of a pair of l and has its edge in F, and w comes
\* after it and ends nothing.
Followed(l, v, w, F, a, s) ==
    /\ v \in EventRecord /\ w \in EventRecord
    /\ v.start = 0 /\ v.ends = {s} /\ Pair(l, a, s) /\ <<a, Len(l) + 1>> \in F
    /\ w.start \in {0, Len(l) + 2} /\ w.ends = {}

LEMMA AppendTwo ==
    ASSUME NEW l \in Seq(EventRecord), NEW v, NEW w, NEW E, NEW F, NEW a, NEW s,
           LogSound(l, E), E \subseteq F, Followed(l, v, w, F, a, s),
           NEW m, m = Append(Append(l, v), w)
    PROVE  /\ LogSound(m, F) /\ m # <<>> /\ m \in Seq(EventRecord)
           /\ Len(m) = Len(l) + 2 /\ Grown(l, m)
           /\ w.start # 0 => Pair(m, Len(l) + 2, Len(l) + 2)
<1>. DEFINE k == Append(l, v)
<1>0. /\ v \in EventRecord /\ w \in EventRecord
      /\ v.start = 0 /\ v.ends = {s} /\ Pair(l, a, s) /\ <<a, Len(l) + 1>> \in F
      /\ w.start \in {0, Len(l) + 2} /\ w.ends = {}
  BY DEF Followed
<1>1. /\ LogSound(k, F) /\ k # <<>> /\ k \in Seq(EventRecord)
      /\ Len(k) = Len(l) + 1 /\ Grown(l, k)
  BY <1>0, AppendOne
<1>. HIDE DEF k
<1>2. Len(l) \in Nat
  BY LenProperties
<1>3. Len(k) + 1 = Len(l) + 2
  BY <1>1, <1>2
<1>4. /\ LogSound(Append(k, w), F) /\ Append(k, w) # <<>>
      /\ Append(k, w) \in Seq(EventRecord)
      /\ Len(Append(k, w)) = Len(k) + 1
      /\ Grown(k, Append(k, w))
      /\ w.start # 0 => Pair(Append(k, w), Len(k) + 1, Len(k) + 1)
  BY <1>0, <1>1, <1>3, AppendOne
<1>5. m = Append(k, w)
  BY DEF k
<1>6. Grown(l, m)
  BY <1>1, <1>2, <1>4, <1>5 DEF Grown
<1>. QED BY <1>3, <1>4, <1>5, <1>6

LEMMA SoundFacts ==
    ASSUME Base, NEW r \in Requests, Sound(r), Clean(r)
    PROVE  /\ log[r] \in Seq(EventRecord) /\ Len(log[r]) \in Nat
           /\ LogSound(log[r], edges[r])
           /\ r \in Live => PairedState(log[r], state[r])
           /\ \A e : <<r, e>> \in Episodes => e \in Epochs /\ PairedEpisode(log[r], episode[<<r, e>>])
           /\ PairedCall(log[r], CallOf(r))
<1>1. log[r] \in Seq(EventRecord)
  BY DEF Base, TypeOK
<1>2. Len(log[r]) \in Nat
  BY <1>1, LenProperties
<1>3. ASSUME NEW e, <<r, e>> \in Episodes
      PROVE  e \in Epochs /\ PairedEpisode(log[r], episode[<<r, e>>])
  BY <1>3 DEF Episodes, Sound
<1>. QED BY <1>1, <1>2, <1>3 DEF Sound, Live

LEMMA RegistersSound ==
    ASSUME Base, NEW r \in Requests, Sound(r), Clean(r), Registers(r)
    PROVE  Sound(r)'
<1>. DEFINE v == Event("queued", 0, Len(log[r]) + 1, {})
<1>1. log[r] \in Seq(EventRecord) /\ Len(log[r]) \in Nat /\ LogSound(log[r], edges[r])
  BY SoundFacts
<1>2. /\ v \in EventRecord /\ v.name = "queued" /\ v.ends = {}
      /\ v.start \in {0, Len(log[r]) + 1} /\ v.start # 0
  BY <1>1, EventFacts DEF EventNames
<1>3. /\ log'[r] = Append(log[r], v) /\ edges'[r] = edges[r] /\ state'[r] = Fresh(r)
      /\ EpisodesKept(r) /\ CallOf(r)' = CallOf(r)
  BY DEF Registers, Registered, Kept
<1>. HIDE DEF v
<1>4. /\ LogSound(log'[r], edges'[r]) /\ log'[r] # <<>>
      /\ log'[r] \in Seq(EventRecord)
      /\ Grown(log[r], log'[r])
      /\ Pair(log'[r], Len(log[r]) + 1, Len(log[r]) + 1)
  BY <1>1, <1>2, <1>3, AppendOne
<1>5. PairedState(log'[r], state'[r])
  BY <1>3, <1>4 DEF PairedState, Fresh
<1>. QED BY <1>3, <1>4, <1>5, SoundGrown DEF EpisodesKept

LEMMA StepsSound ==
    ASSUME Base, NEW r \in Requests, Sound(r), Clean(r), Steps(r)
    PROVE  Sound(r)'
<1>1. /\ log[r] \in Seq(EventRecord) /\ Len(log[r]) \in Nat /\ LogSound(log[r], edges[r])
      /\ PairedState(log[r], state[r]) /\ r \in Live
  BY SoundFacts DEF Steps
<1>2. state[r] \in StateRecord /\ state[r].epoch \in Nat
  BY <1>1, LiveFacts DEF Base
<1>3. PICK name \in Phases, next \in Phases, kind \in Kinds :
        /\ log'[r] = Append(Append(log[r], Event(name, state[r].epoch, 0, {Held(r)[2]})),
                            Event(next, state[r].epoch, Len(log[r]) + 2, {}))
        /\ edges'[r] = edges[r] \cup {<<Held(r)[1], Len(log[r]) + 1>>,
                                      <<Len(log[r]) + 1, Len(log[r]) + 2>>}
        /\ state'[r] = [state[r] EXCEPT !.activeStarted = Len(log[r]) + 2,
                                        !.activeSpan = Len(log[r]) + 2,
                                        !.kind = kind]
        /\ EpisodesKept(r)
  BY DEF Steps, Stepped
<1>4. PICK a, s : a = Held(r)[1] /\ s = Held(r)[2] /\ Pair(log[r], a, s)
  BY <1>1 DEF Held, PairedState, Computing
<1>. DEFINE v == Event(name, state[r].epoch, 0, {s})
            w == Event(next, state[r].epoch, Len(log[r]) + 2, {})
<1>5. s \in Nat
  BY <1>1, <1>4 DEF Pair
<1>6. v \in EventRecord /\ v.start = 0 /\ v.ends = {s}
  BY <1>2, <1>5, EventFacts DEF EventNames, Phases
<1>7. w \in EventRecord /\ w.start \in {0, Len(log[r]) + 2} /\ w.start # 0 /\ w.ends = {}
  <2>1. Len(log[r]) + 2 \in Nat /\ Len(log[r]) + 2 # 0 /\ next \in EventNames
    BY <1>1 DEF EventNames, Phases
  <2>2. w \in EventRecord /\ w.start = Len(log[r]) + 2 /\ w.ends = {}
    BY <1>2, <2>1, EventFacts
  <2>. QED BY <2>1, <2>2
<1>8. log'[r] = Append(Append(log[r], v), w)
  BY <1>3, <1>4
<1>9. edges[r] \subseteq edges'[r] /\ <<a, Len(log[r]) + 1>> \in edges'[r]
  BY <1>3, <1>4
<1>. HIDE DEF v, w
<1>10. /\ LogSound(log'[r], edges'[r]) /\ log'[r] # <<>>
       /\ log'[r] \in Seq(EventRecord)
       /\ Grown(log[r], log'[r])
       /\ Pair(log'[r], Len(log[r]) + 2, Len(log[r]) + 2)
  <2>1. Followed(log[r], v, w, edges'[r], a, s)
    BY <1>1, <1>4, <1>6, <1>7, <1>8, <1>9 DEF Followed
  <2>2. PICK l, m, E, F : l = log[r] /\ m = log'[r] /\ E = edges[r] /\ F = edges'[r]
    OBVIOUS
  <2>3. /\ l \in Seq(EventRecord) /\ LogSound(l, E) /\ E \subseteq F
        /\ Followed(l, v, w, F, a, s) /\ m = Append(Append(l, v), w)
    BY <1>1, <1>6, <1>7, <1>8, <1>9, <2>1, <2>2
  <2>4. /\ LogSound(m, F) /\ m # <<>> /\ m \in Seq(EventRecord)
        /\ Len(m) = Len(l) + 2 /\ Grown(l, m)
        /\ w.start # 0 => Pair(m, Len(l) + 2, Len(l) + 2)
    BY <2>3, AppendTwo
  <2>. QED BY <1>6, <1>7, <2>2, <2>4
<1>11. PairedState(log'[r], state[r])
  BY <1>1, <1>10, PairsGrow
<1>12. PairedState(log'[r], state'[r])
  <2>1. /\ state'[r].queueStarted = state[r].queueStarted
        /\ state'[r].queueSpan = state[r].queueSpan
        /\ state'[r].activeStarted = Len(log[r]) + 2
        /\ state'[r].activeSpan = Len(log[r]) + 2
    BY <1>2, <1>3 DEF StateRecord
  <2>. QED BY <2>1, <1>10, <1>11 DEF PairedState
<1>13. CallOf(r)' = CallOf(r)
  BY DEF Steps, Kept
<1>. QED BY <1>3, <1>10, <1>12, <1>13, SoundGrown DEF EpisodesKept

LEMMA LeavesSound ==
    ASSUME Base, NEW r \in Requests, Sound(r), Clean(r), Leaves(r)
    PROVE  Sound(r)'
<1>1. /\ log'[r] = log[r] /\ edges'[r] = edges[r] /\ state'[r] = state[r]
      /\ \A x \in Epochs : episode'[<<r, x>>] = episode[<<r, x>>]
  BY DEF Leaves, Quiet, EpisodesKept
<1>2. r \in Live /\ state[r].activeStarted # 0
  BY DEF Leaves, Computing
<1>3. /\ PairedState(log[r], state[r])
      /\ log[r] \in Seq(EventRecord) /\ Len(log[r]) \in Nat
  BY <1>2, SoundFacts
<1>4. Pair(log[r], state[r].activeStarted, state[r].activeSpan)
  BY <1>2, <1>3 DEF PairedState
<1>5. PairedCall(log[r], CallOf(r)')
  BY <1>4 DEF Leaves, PairedCall
<1>6. log[r] # <<>>
  BY <1>3, <1>4 DEF Pair
<1>. QED BY <1>1, <1>5, <1>6 DEF Sound

LEMMA CommitsSound ==
    ASSUME Base, NEW r \in Requests, Sound(r), Clean(r), Commits(r)
    PROVE  Sound(r)'
<1>1. CASE Quiet(r)
  BY <1>1, SoundQuiet DEF Commits
<1>2. CASE Committed(r, epoch[r])
  <2>1. /\ log'[r] = log[r] /\ edges'[r] = edges[r] /\ state'[r] = Requeued(r, epoch[r])
        /\ \A x \in Epochs : episode'[<<r, x>>] = episode[<<r, x>>]
        /\ <<r, epoch[r]>> \in Episodes
    BY <1>2 DEF Committed, EpisodesKept
  <2>2. PairedEpisode(log[r], episode[<<r, epoch[r]>>])
    BY <2>1, SoundFacts
  <2>3. PairedState(log[r], state'[r])
    BY <2>1, <2>2 DEF PairedEpisode, PairedState, Requeued
  <2>4. epoch'[r] = epoch[r] /\ PairedCall(log[r], CallOf(r)')
    BY DEF Commits, PairedCall, NoCall
  <2>. QED BY <2>1, <2>3, <2>4 DEF Sound
<1>. QED BY <1>1, <1>2 DEF Commits

LEMMA OpensSound ==
    ASSUME Base, NEW r \in Requests, Sound(r), Clean(r), Opens(r)
    PROVE  Sound(r)'
<1>. DEFINE e == epoch[r]
<1>1. /\ log[r] \in Seq(EventRecord) /\ Len(log[r]) \in Nat /\ LogSound(log[r], edges[r])
      /\ PairedCall(log[r], CallOf(r))
  BY SoundFacts
<1>2. Preempted(r, e) /\ call.at = "emit" /\ CallOf(r) = call
  BY DEF Opens
<1>. DEFINE a == call.started
            s == call.span
<1>3. Pair(log[r], a, s)
  BY <1>1, <1>2 DEF PairedCall
<1>4. s \in Nat /\ e \in Nat /\ e - 1 \in Nat
  <2>1. s \in Nat
    BY <1>1, <1>3 DEF Pair
  <2>2. e \in 0..MaxEpoch /\ MaxEpoch \in Nat
    BY BridgeAssumption DEF Base, TypeOK
  <2>3. e > 0
    <3>1. call # NoCall /\ call.request = r
      BY <1>2 DEF CallOf, NoCall
    <3>2. host[r] = "preempted"
      BY <3>1 DEF Base, CallsPreempt
    <3>. QED BY <3>2 DEF Base, HostEpochs
  <2>. QED BY <2>1, <2>2, <2>3
<1>. HIDE DEF e, a, s
<1>. DEFINE v == Event("preempted", e - 1, 0, {s})
            w == Event("requeued", e, Len(log[r]) + 2, {})
<1>5. v \in EventRecord /\ v.start = 0 /\ v.ends = {s}
  BY <1>4, EventFacts DEF EventNames
<1>6. w \in EventRecord /\ w.start \in {0, Len(log[r]) + 2} /\ w.start # 0 /\ w.ends = {}
  <2>1. Len(log[r]) + 2 \in Nat /\ Len(log[r]) + 2 # 0 /\ "requeued" \in EventNames
    BY <1>1 DEF EventNames
  <2>2. w \in EventRecord /\ w.start = Len(log[r]) + 2 /\ w.ends = {}
    BY <1>4, <2>1, EventFacts
  <2>. QED BY <2>1, <2>2
<1>7. /\ log'[r] = Append(Append(log[r], v), w)
      /\ edges[r] \subseteq edges'[r] /\ <<a, Len(log[r]) + 1>> \in edges'[r]
      /\ state'[r] = state[r]
  BY <1>2 DEF Preempted, a, s
<1>. HIDE DEF v, w
<1>8. /\ LogSound(log'[r], edges'[r]) /\ log'[r] # <<>>
      /\ log'[r] \in Seq(EventRecord)
      /\ Grown(log[r], log'[r])
      /\ Pair(log'[r], Len(log[r]) + 2, Len(log[r]) + 2)
  <2>1. Followed(log[r], v, w, edges'[r], a, s)
    BY <1>1, <1>3, <1>5, <1>6, <1>7 DEF Followed
  <2>2. PICK l, m, E, F : l = log[r] /\ m = log'[r] /\ E = edges[r] /\ F = edges'[r]
    OBVIOUS
  <2>3. /\ l \in Seq(EventRecord) /\ LogSound(l, E) /\ E \subseteq F
        /\ Followed(l, v, w, F, a, s) /\ m = Append(Append(l, v), w)
    BY <1>1, <1>6, <1>7, <2>1, <2>2
  <2>4. /\ LogSound(m, F) /\ m # <<>> /\ m \in Seq(EventRecord)
        /\ Len(m) = Len(l) + 2 /\ Grown(l, m)
        /\ w.start # 0 => Pair(m, Len(l) + 2, Len(l) + 2)
    BY <2>3, AppendTwo
  <2>. QED BY <1>6, <1>7, <2>2, <2>4
<1>9. PairedEpisode(log'[r], episode'[<<r, e>>])
  <2>1. PICK ep : ep = episode'[<<r, e>>]
    OBVIOUS
  <2>2. /\ ep.requeued = Len(log[r]) + 2 /\ ep.queueSpan = Len(log[r]) + 2
        /\ ep.admission = 0 /\ ep.admissionSpan = 0
    BY <1>2, <2>1 DEF Preempted
  <2>3. PairedEpisode(log'[r], ep)
    BY <1>8, <2>2 DEF PairedEpisode
  <2>. QED BY <2>1, <2>3
<1>10. \A x \in Epochs \ {e} : episode'[<<r, x>>] = episode[<<r, x>>]
  BY <1>2 DEF Preempted
<1>11. CallOf(r)'.at # "emit"
  BY DEF Opens
<1>. QED BY <1>7, <1>8, <1>9, <1>10, <1>11, SoundGrown

\* One event of an episode, which ends a span of it or nothing.
LEMMA EpisodeSound ==
    ASSUME Base, NEW r \in Requests, Sound(r), Clean(r), NEW e,
           NEW v \in EventRecord, log'[r] = Append(log[r], v), log[r] # <<>>,
           edges[r] \subseteq edges'[r], v.start \in {0, Len(log[r]) + 1}, NEW a, NEW s,
           \/ v.ends = {}
           \/ v.ends = {s} /\ Pair(log[r], a, s) /\ <<a, Len(log[r]) + 1>> \in edges'[r],
           state'[r] = state[r] \/ (v.start # 0 /\ \E st : /\ st = state'[r]
               /\ st.queueStarted = state[r].queueStarted /\ st.queueSpan = state[r].queueSpan
               /\ st.activeStarted = Len(log[r]) + 1 /\ st.activeSpan = Len(log[r]) + 1),
           <<r, e>> \in Episodes, r \in Live,
           \E ep : /\ ep = episode'[<<r, e>>]
                   /\ ep.requeued = episode[<<r, e>>].requeued
                   /\ ep.queueSpan = episode[<<r, e>>].queueSpan
                   /\ \/ /\ ep.admission = episode[<<r, e>>].admission
                         /\ ep.admissionSpan = episode[<<r, e>>].admissionSpan
                      \/ /\ ep.admission = Len(log[r]) + 1 /\ ep.admissionSpan = Len(log[r]) + 1
                         /\ v.start # 0,
           \A x \in Epochs \ {e} : episode'[<<r, x>>] = episode[<<r, x>>],
           CallOf(r)' = CallOf(r)
    PROVE  Sound(r)'
<1>1. /\ log[r] \in Seq(EventRecord) /\ Len(log[r]) \in Nat /\ LogSound(log[r], edges[r])
      /\ PairedState(log[r], state[r]) /\ PairedEpisode(log[r], episode[<<r, e>>])
  BY SoundFacts
<1>2. /\ LogSound(log'[r], edges'[r]) /\ log'[r] # <<>>
      /\ log'[r] \in Seq(EventRecord)
      /\ Grown(log[r], log'[r])
      /\ v.start # 0 => Pair(log'[r], Len(log[r]) + 1, Len(log[r]) + 1)
  BY <1>1, AppendOne
<1>3. /\ PairedState(log'[r], state[r])
      /\ PairedEpisode(log'[r], episode[<<r, e>>])
  BY <1>1, <1>2, PairsGrow
<1>4. PairedState(log'[r], state'[r])
  BY <1>2, <1>3 DEF PairedState
<1>5. PairedEpisode(log'[r], episode'[<<r, e>>])
  BY <1>2, <1>3 DEF PairedEpisode
<1>. QED BY <1>2, <1>4, <1>5, SoundGrown

LEMMA PairNonEmpty ==
    ASSUME NEW l \in Seq(EventRecord), NEW a, NEW s, Pair(l, a, s)
    PROVE  l # <<>> /\ s \in Nat /\ s # 0
<1>1. Len(l) \in Nat /\ a \in 1..Len(l) /\ s = a
  BY LenProperties DEF Pair
<1>2. Len(l) # 0
  BY <1>1
<1>. QED BY <1>1, <1>2

LEMMA AdmitsSound ==
    ASSUME Base, NEW r \in Requests, Sound(r), Clean(r), Admits(r)
    PROVE  Sound(r)'
<1>1. PICK e : e = epoch[r]
  OBVIOUS
<1>2. Admitted(r, e) /\ r \in Live /\ <<r, e>> \in Episodes
  BY <1>1 DEF Admits, CanStartAdmission
<1>3. e \in Nat /\ episode[<<r, e>>] \in EpisodeRecord
  BY <1>2, EpisodeFacts DEF Base
<1>4. PICK a, s : a = episode[<<r, e>>].requeued /\ s = episode[<<r, e>>].queueSpan
  OBVIOUS
<1>5. /\ log[r] \in Seq(EventRecord) /\ Len(log[r]) \in Nat
      /\ PairedEpisode(log[r], episode[<<r, e>>])
  BY <1>2, SoundFacts
<1>6. Pair(log[r], a, s)
  BY <1>4, <1>5 DEF PairedEpisode
<1>7. log[r] # <<>> /\ s \in Nat
  BY <1>5, <1>6, PairNonEmpty
<1>. DEFINE v == Event("admission_started", e, Len(log[r]) + 1, {s})
<1>8. /\ v \in EventRecord /\ v.ends = {s}
      /\ v.start \in {0, Len(log[r]) + 1} /\ v.start # 0
  BY <1>3, <1>5, <1>7, EventFacts DEF EventNames
<1>9. /\ log'[r] = Append(log[r], v) /\ state'[r] = state[r]
      /\ edges[r] \subseteq edges'[r] /\ <<a, Len(log[r]) + 1>> \in edges'[r]
      /\ \A x \in Epochs \ {e} : episode'[<<r, x>>] = episode[<<r, x>>]
  BY <1>2, <1>4 DEF Admitted
<1>10. PICK ep : ep = episode'[<<r, e>>]
  OBVIOUS
<1>11. /\ ep.requeued = episode[<<r, e>>].requeued
       /\ ep.queueSpan = episode[<<r, e>>].queueSpan
       /\ ep.admission = Len(log[r]) + 1 /\ ep.admissionSpan = Len(log[r]) + 1
  BY <1>2, <1>3, <1>10 DEF Admitted, EpisodeRecord
<1>12. CallOf(r)' = CallOf(r)
  BY DEF Admits, Kept
<1>. HIDE DEF v
<1>. QED BY <1>2, <1>6, <1>7, <1>8, <1>9, <1>10, <1>11, <1>12, EpisodeSound

LEMMA ResumesSound ==
    ASSUME Base, NEW r \in Requests, Sound(r), Clean(r), Resumes(r)
    PROVE  Sound(r)'
<1>1. PICK e : e = epoch[r]
  OBVIOUS
<1>2. /\ Resumed(r, e) /\ r \in Live /\ <<r, e>> \in Episodes
      /\ episode[<<r, e>>].admission # 0
  BY <1>1 DEF Resumes, CanResume
<1>3. e \in Nat /\ episode[<<r, e>>] \in EpisodeRecord
  BY <1>2, EpisodeFacts DEF Base
<1>4. PICK a, s : a = episode[<<r, e>>].admission /\ s = episode[<<r, e>>].admissionSpan
  OBVIOUS
<1>5. /\ log[r] \in Seq(EventRecord) /\ Len(log[r]) \in Nat
      /\ PairedEpisode(log[r], episode[<<r, e>>])
  BY <1>2, SoundFacts
<1>6. Pair(log[r], a, s)
  BY <1>2, <1>4, <1>5 DEF PairedEpisode
<1>7. log[r] # <<>> /\ s \in Nat
  BY <1>5, <1>6, PairNonEmpty
<1>. DEFINE v == Event("resumed", e, 0, {s})
<1>8. v \in EventRecord /\ v.ends = {s} /\ v.start \in {0, Len(log[r]) + 1}
  BY <1>3, <1>5, <1>7, EventFacts DEF EventNames
<1>9. /\ log'[r] = Append(log[r], v) /\ state'[r] = state[r]
      /\ edges[r] \subseteq edges'[r] /\ <<a, Len(log[r]) + 1>> \in edges'[r]
      /\ \A x \in Epochs \ {e} : episode'[<<r, x>>] = episode[<<r, x>>]
  BY <1>2, <1>4 DEF Resumed
<1>10. PICK ep : ep = episode'[<<r, e>>]
  OBVIOUS
<1>11. /\ ep.requeued = episode[<<r, e>>].requeued
       /\ ep.queueSpan = episode[<<r, e>>].queueSpan
       /\ ep.admission = episode[<<r, e>>].admission
       /\ ep.admissionSpan = episode[<<r, e>>].admissionSpan
  BY <1>2, <1>3, <1>10 DEF Resumed, EpisodeRecord
<1>12. CallOf(r)' = CallOf(r)
  BY DEF Resumes, Kept
<1>. HIDE DEF v
<1>. QED BY <1>2, <1>6, <1>7, <1>8, <1>9, <1>10, <1>11, <1>12, EpisodeSound

LEMMA ComputesSound ==
    ASSUME Base, NEW r \in Requests, Sound(r), Clean(r), Computes(r)
    PROVE  Sound(r)'
<1>1. PICK e : e = epoch[r]
  OBVIOUS
<1>2. Computed(r, e) /\ r \in Live /\ <<r, e>> \in Episodes
  BY <1>1 DEF Computes, CanCompute
<1>3. /\ e \in Nat /\ episode[<<r, e>>] \in EpisodeRecord
      /\ state[r] \in StateRecord
  BY <1>2, EpisodeFacts, LiveFacts DEF Base
<1>4. PICK kind \in Kinds :
        /\ log'[r] = Append(log[r], Event(kind, e, Len(log[r]) + 1, {}))
        /\ edges'[r] = edges[r] \cup {<<episode[<<r, e>>].resumed, Len(log[r]) + 1>>}
        /\ state'[r] = [state[r] EXCEPT !.activeStarted = Len(log[r]) + 1,
                                        !.activeSpan = Len(log[r]) + 1,
                                        !.kind = kind]
        /\ episode'[<<r, e>>] = [episode[<<r, e>>] EXCEPT !.firstCompute = Len(log[r]) + 1]
        /\ \A x \in Epochs \ {e} : episode'[<<r, x>>] = episode[<<r, x>>]
  BY <1>2 DEF Computed
<1>5. /\ log[r] \in Seq(EventRecord) /\ Len(log[r]) \in Nat
      /\ PairedEpisode(log[r], episode[<<r, e>>])
  BY <1>2, SoundFacts
<1>6. log[r] # <<>>
  BY <1>5, PairNonEmpty DEF PairedEpisode
<1>. DEFINE v == Event(kind, e, Len(log[r]) + 1, {})
<1>7. /\ v \in EventRecord /\ v.ends = {}
      /\ v.start \in {0, Len(log[r]) + 1} /\ v.start # 0
  BY <1>3, <1>5, EventFacts DEF EventNames, Kinds
<1>8. log'[r] = Append(log[r], v) /\ edges[r] \subseteq edges'[r]
  BY <1>4
<1>9. PICK ep, st : ep = episode'[<<r, e>>] /\ st = state'[r]
  OBVIOUS
<1>10. /\ ep.requeued = episode[<<r, e>>].requeued
       /\ ep.queueSpan = episode[<<r, e>>].queueSpan
       /\ ep.admission = episode[<<r, e>>].admission
       /\ ep.admissionSpan = episode[<<r, e>>].admissionSpan
  BY <1>3, <1>4, <1>9 DEF EpisodeRecord
<1>11. /\ st.queueStarted = state[r].queueStarted /\ st.queueSpan = state[r].queueSpan
       /\ st.activeStarted = Len(log[r]) + 1 /\ st.activeSpan = Len(log[r]) + 1
  BY <1>3, <1>4, <1>9 DEF StateRecord
<1>12. CallOf(r)' = CallOf(r)
  BY DEF Computes, Kept
<1>. HIDE DEF v
<1>. QED BY <1>2, <1>4, <1>6, <1>7, <1>8, <1>9, <1>10, <1>11, <1>12, EpisodeSound

LEMMA EndsSound ==
    ASSUME Base, NEW r \in Requests, Sound(r), Clean(r), Ends(r)
    PROVE  Sound(r)'
<1>1. /\ r \in Live /\ state'[r] = NoState /\ CallOf(r)' = CallOf(r) /\ epoch'[r] = epoch[r]
      /\ \A x \in Epochs : episode'[<<r, x>>] = NoEpisode
  BY DEF Ends, Ended, Kept
<1>2. /\ log[r] \in Seq(EventRecord) /\ Len(log[r]) \in Nat /\ LogSound(log[r], edges[r])
      /\ PairedState(log[r], state[r]) /\ PairedCall(log[r], CallOf(r))
  BY <1>1, SoundFacts
<1>3. state[r].epoch \in Nat
  BY <1>1, LiveFacts DEF Base
<1>4. CASE log'[r] = log[r] /\ edges'[r] = edges[r]
  BY <1>1, <1>4 DEF Sound
<1>5. CASE Closed(r)
  <2>1. PICK a, s \in Nat :
        /\ a = IF state[r].activeStarted # 0 THEN state[r].activeStarted
                                             ELSE state[r].queueStarted
        /\ s = IF state[r].activeSpan # 0 THEN state[r].activeSpan
                                          ELSE state[r].queueSpan
        /\ log'[r] = Append(log[r], Event("terminal", state[r].epoch, 0, {s}))
        /\ edges'[r] = edges[r] \cup {<<a, Len(log[r]) + 1>>}
    BY <1>5 DEF Closed
  <2>2. Pair(log[r], a, s)
    <3>1. CASE state[r].activeStarted = 0 /\ state[r].activeSpan = 0
      BY <1>2, <2>1, <3>1 DEF PairedState
    <3>2. CASE Pair(log[r], state[r].activeStarted, state[r].activeSpan)
      <4>1. state[r].activeStarted # 0 /\ state[r].activeSpan # 0
        BY <1>2, <3>2 DEF Pair
      <4>. QED BY <2>1, <3>2, <4>1
    <3>. QED BY <1>2, <3>1, <3>2 DEF PairedState
  <2>. DEFINE v == Event("terminal", state[r].epoch, 0, {s})
  <2>3. v \in EventRecord /\ v.ends = {s} /\ v.start \in {0, Len(log[r]) + 1}
    BY <1>3, EventFacts DEF EventNames
  <2>4. /\ log'[r] = Append(log[r], v) /\ edges[r] \subseteq edges'[r]
        /\ <<a, Len(log[r]) + 1>> \in edges'[r]
    BY <2>1
  <2>. HIDE DEF v
  <2>5. /\ LogSound(log'[r], edges'[r]) /\ log'[r] # <<>>
        /\ log'[r] \in Seq(EventRecord) /\ Grown(log[r], log'[r])
    BY <1>2, <2>2, <2>3, <2>4, AppendOne
  <2>. QED BY <1>1, <2>5, SoundGrown
<1>6. CASE Completed(r)
  <2>1. PICK a, s : a = state[r].activeStarted /\ s = state[r].activeSpan
    OBVIOUS
  <2>2. Pair(log[r], a, s)
    BY <1>2, <1>6, <2>1 DEF Completed, Computing, PairedState
  <2>3. s \in Nat
    BY <1>2, <2>2, PairNonEmpty
  <2>. DEFINE v == Event("phase_done", state[r].epoch, 0, {s})
              w == Event("terminal", state[r].epoch, 0, {})
  <2>4. v \in EventRecord /\ v.start = 0 /\ v.ends = {s}
    BY <1>3, <2>3, EventFacts DEF EventNames
  <2>5. w \in EventRecord /\ w.start = 0 /\ w.ends = {}
    BY <1>3, EventFacts DEF EventNames
  <2>6. /\ log'[r] = Append(Append(log[r], v), w) /\ edges[r] \subseteq edges'[r]
        /\ <<a, Len(log[r]) + 1>> \in edges'[r]
    BY <1>6, <2>1 DEF Completed
  <2>. HIDE DEF v, w
  <2>7. Followed(log[r], v, w, edges'[r], a, s)
    BY <2>2, <2>4, <2>5, <2>6 DEF Followed
  <2>8. PICK l, m, E, F : l = log[r] /\ m = log'[r] /\ E = edges[r] /\ F = edges'[r]
    OBVIOUS
  <2>9. /\ l \in Seq(EventRecord) /\ LogSound(l, E) /\ E \subseteq F
        /\ Followed(l, v, w, F, a, s) /\ m = Append(Append(l, v), w)
    BY <1>2, <2>6, <2>7, <2>8
  <2>10. LogSound(m, F) /\ m # <<>> /\ m \in Seq(EventRecord) /\ Grown(l, m)
    BY <2>9, AppendTwo
  <2>. QED BY <1>1, <2>8, <2>10, SoundGrown
<1>. QED BY <1>4, <1>5, <1>6 DEF Ends, Ended

LEMMA SoundStep ==
    ASSUME Base, NEW r \in Requests, Described(r), AllSound
    PROVE  AllSound'
<1>1. ASSUME NEW q \in Requests, q # r
      PROVE  Sound(q)'
  BY <1>1, SoundElsewhere DEF Described, AllSound
<1>2. Sound(r)'
  <2>1. CASE ~Clean(r)'
    BY <2>1 DEF Sound
  <2>2. CASE Clean(r)'
    <3>1. CleanStep(r) /\ Clean(r) /\ Sound(r)
      BY <2>2, FrameClean DEF Described, AllSound
    <3>2. CASE StaysQuiet(r)
      BY <3>1, <3>2, SoundQuiet DEF StaysQuiet, Kept
    <3>. QED BY <3>1, <3>2, RegistersSound, StepsSound, LeavesSound, OpensSound, CommitsSound,
                AdmitsSound, ResumesSound, ComputesSound, EndsSound DEF CleanStep
  <2>. QED BY <2>1, <2>2
<1>. QED BY <1>1, <1>2 DEF AllSound

LEMMA SoundInit == Init => AllSound
<1>1. SUFFICES ASSUME Init, NEW r \in Requests PROVE Sound(r)
  BY DEF AllSound
<1>2. /\ log[r] = <<>> /\ epoch[r] = 0 /\ state[r] = NoState
      /\ \A x \in Epochs : episode[<<r, x>>] = NoEpisode
      /\ CallOf(r) = NoCall
  BY <1>1 DEF Init, CallOf
<1>3. LogSound(<<>>, edges[r])
  BY DEF LogSound, WellFormed, Linked
<1>4. PairedCall(<<>>, NoCall)
  BY DEF PairedCall, NoCall
<1>. QED BY <1>2, <1>3, <1>4 DEF Sound

LEMMA SoundUnchanged ==
    ASSUME AllSound, UNCHANGED vars
    PROVE  AllSound'
BY DEF AllSound, Sound, Clean, CallOf, vars

THEOREM BridgeSound == Spec => [](Base /\ AllSound)
<1>1. Base /\ AllSound /\ [Next]_vars => AllSound'
  BY EveryStep, SoundStep, SoundUnchanged
<1>. QED BY <1>1, BridgeBase, SoundInit, PTL DEF Spec

LEMMA SoundEdges == AllSound => EdgesMatchSpans
<1>1. SUFFICES ASSUME AllSound, NEW r \in Requests, Clean(r),
                      NEW i \in DOMAIN log[r], NEW j \in DOMAIN log[r],
                      log[r][i].start \in log[r][j].ends
               PROVE  <<i, j>> \in edges[r]
  BY DEF EdgesMatchSpans
<1>2. WellFormed(log[r]) /\ Linked(log[r], edges[r])
  BY <1>1 DEF AllSound, Sound, LogSound
<1>3. log[r][i].start \in {0, i} /\ log[r][j].ends \subseteq 1..(j - 1)
  BY <1>2 DEF WellFormed
<1>4. log[r][i].start = i
  BY <1>1, <1>3
<1>. QED BY <1>1, <1>2, <1>4 DEF Linked

-----------------------------------------------------------------------------
(* Open spans and epochs of a lifecycle that is registered once            *)

Once(l) == Cardinality(Named(l, "queued")) <= 1

\* Waiting in the queue, of the first epoch or of one that an episode opened.
Queued(l, st, ep, e, h) ==
    /\ st.epoch = e /\ st.activeSpan = 0
    /\ h \notin {"admitting", "resuming"}
    /\ e = 0 => ep = NoEpisode
    /\ e # 0 => /\ ep # NoEpisode /\ ep.admission = 0 /\ ep.resumed = 0
                /\ ep.queueSpan = st.queueSpan
    /\ Trace(l, {st.queueSpan}, e)

Working(l, st, e, h) ==
    /\ st.epoch = e /\ st.activeSpan # 0
    /\ h \in {"running", "admitted"}
    /\ Trace(l, {st.activeSpan}, e)

Admitting(l, st, ep, e, h) ==
    /\ st.epoch = e /\ st.activeSpan = 0
    /\ h = "admitting"
    /\ ep # NoEpisode /\ ep.admission # 0 /\ ep.resumed = 0
    /\ Trace(l, {ep.admissionSpan}, e)
    /\ l[Len(l)].name = "admission_started"

Resuming(l, st, ep, e, h) ==
    /\ st.epoch = e /\ st.activeSpan = 0
    /\ h = "resuming"
    /\ ep # NoEpisode /\ ep.admission # 0 /\ ep.resumed # 0
    /\ Trace(l, {}, e)

\* Between the critical sections of a preemption: the host has counted it, the
\* state has not; the trace follows in between.
Leaving(l, st, ep, e, c) ==
    /\ c.at = "emit" /\ st.epoch = e - 1 /\ ep = NoEpisode
    /\ st.activeSpan # 0 /\ c.span = st.activeSpan
    /\ Trace(l, {st.activeSpan}, e - 1)

Moving(l, st, ep, e, c) ==
    /\ c.at = "commit" /\ st.epoch = e - 1
    /\ ep # NoEpisode /\ ep.admission = 0 /\ ep.resumed = 0
    /\ Trace(l, {ep.queueSpan}, e)

Steady(l, st, ep, e, c, h) ==
    \/ /\ c = NoCall
       /\ \/ Queued(l, st, ep, e, h) \/ Working(l, st, e, h)
          \/ Admitting(l, st, ep, e, h) \/ Resuming(l, st, ep, e, h)
    \/ Leaving(l, st, ep, e, c) \/ Moving(l, st, ep, e, c)

\* A registered request is at one of these places; one that is not has a
\* finished log, or none.
Placed(r) ==
    Clean(r) /\ Once(log[r]) /\ r \in Live =>
        Steady(log[r], state[r], EpisodeNow(r), epoch[r], CallOf(r), host[r])

Rested(r) ==
    Clean(r) /\ Once(log[r]) /\ OneOwner(r) /\ r \notin Live => Finished(log[r])

AllPlaced == \A r \in Requests : Placed(r) /\ Rested(r)

\* A log that does not end in a terminal, too, leaves nothing to check there.
LEMMA TraceFinished ==
    ASSUME NEW l, NEW o, NEW n, Trace(l, o, n)
    PROVE  Finished(l)
BY DEF Trace, Finished

\* Registering twice is seen in the log.
LEMMA OnceAppend ==
    ASSUME NEW l \in Seq(EventRecord), NEW v \in EventRecord, Once(Append(l, v))
    PROVE  Once(l) /\ (v.name = "queued" => Named(l, "queued") = {})
<1>1. Cardinality(Named(l, "queued")) \in Nat /\ IsFiniteSet(Named(l, "queued"))
  BY NamedFinite
<1>2. CASE v.name = "queued"
  <2>1. Cardinality(Named(l, "queued")) + 1 <= 1
    BY <1>2, NamedAppend DEF Once
  <2>2. Cardinality(Named(l, "queued")) = 0
    BY <1>1, <2>1
  <2>. QED BY <1>1, <2>2, FS_EmptySet DEF Once
<1>3. CASE v.name # "queued"
  <2>1. Named(Append(l, v), "queued") = Named(l, "queued")
    BY <1>3, NamedAppend
  <2>. QED BY <1>3, <2>1 DEF Once
<1>. QED BY <1>2, <1>3

LEMMA FirstQueued ==
    ASSUME NEW l \in Seq(EventRecord), NEW E, LogSound(l, E), Named(l, "queued") = {}
    PROVE  l = <<>>
<1>1. SUFFICES ASSUME l # <<>> PROVE FALSE
  OBVIOUS
<1>2. Len(l) \in Nat /\ DOMAIN l = 1..Len(l)
  BY LenProperties
<1>3. Len(l) # 0
  BY <1>1, EmptySeq
<1>4. 1 \in DOMAIN l /\ l[1].name = "queued"
  BY <1>1, <1>2, <1>3 DEF LogSound
<1>. QED BY <1>4 DEF Named

\* A step about another request.
LEMMA PlacedElsewhere ==
    ASSUME Base, NEW r \in Requests, Frame(r), NEW q \in Requests, q # r, Placed(q), Rested(q)
    PROVE  Placed(q)' /\ Rested(q)'
<1>1. /\ log'[q] = log[q] /\ epoch'[q] = epoch[q] /\ host'[q] = host[q]
      /\ state'[q] = state[q] /\ CallOf(q)' = CallOf(q)
      /\ \A x \in Epochs : episode'[<<q, x>>] = episode[<<q, x>>]
      /\ OneOwner(q)' => OneOwner(q)
  BY DEF Frame, SinkStep, BridgeStep
<1>2. Clean(q)' => Clean(q)
  BY FrameClean
<1>3. EpisodeNow(q)' = EpisodeNow(q)
  <2>1. epoch[q] # 0 => epoch[q] \in Epochs
    BY BridgeAssumption DEF Base, TypeOK, Epochs
  <2>. QED BY <1>1, <2>1 DEF EpisodeNow
<1>4. q \in Live' <=> q \in Live
  BY <1>1 DEF Live
<1>5. Placed(q)'
  BY <1>1, <1>2, <1>3, <1>4 DEF Placed
<1>6. Rested(q)'
  BY <1>1, <1>2, <1>4 DEF Rested
<1>. QED BY <1>5, <1>6

\* A log with its types, for the events that a step appends.
Traced(l, o, n) == l \in Seq(EventRecord) /\ WellFormed(l) /\ n \in Nat /\ Trace(l, o, n)

LEMMA TracedAppend ==
    ASSUME NEW l, NEW o, NEW n, Traced(l, o, n), NEW v \in EventRecord,
           v.start \in {0, Len(l) + 1}, v.ends \subseteq o, v.name # "terminal",
           v.epoch = IF v.name = "requeued" THEN n + 1 ELSE n
    PROVE  Traced(Append(l, v), (o \ v.ends) \cup ({v.start} \ {0}), v.epoch)
<1>1. l \in Seq(EventRecord) /\ WellFormed(l) /\ n \in Nat /\ Trace(l, o, n)
  BY DEF Traced
<1>2. Trace(Append(l, v), (o \ v.ends) \cup ({v.start} \ {0}), v.epoch)
  BY <1>1, TraceAppend
<1>3. /\ Append(l, v) \in Seq(EventRecord) /\ Len(l) \in Nat
      /\ DOMAIN l = 1..Len(l)
      /\ DOMAIN Append(l, v) = 1..(Len(l) + 1)
      /\ \A i \in 1..Len(l) : Append(l, v)[i] = l[i]
      /\ Append(l, v)[Len(l) + 1] = v
  BY <1>1, AppendFacts
<1>4. v.ends \subseteq 1..Len(l)
  BY <1>1, <1>3 DEF Trace, Open, Started, WellFormed
<1>5. WellFormed(Append(l, v))
  <2>1. PICK m : m = Append(l, v)
    OBVIOUS
  <2>2. WellFormed(m)
    BY <1>1, <1>3, <1>4, <2>1 DEF WellFormed
  <2>. QED BY <2>1, <2>2
<1>6. v.epoch \in Nat
  BY <1>1
<1>. QED BY <1>2, <1>3, <1>5, <1>6 DEF Traced

LEMMA OpenIsNat ==
    ASSUME NEW l, NEW o, NEW n, Traced(l, o, n)
    PROVE  /\ l \in Seq(EventRecord) /\ Len(l) \in Nat /\ n \in Nat
           /\ \A s \in o : s \in Nat /\ s # 0
<1>1. l \in Seq(EventRecord) /\ WellFormed(l) /\ n \in Nat /\ Trace(l, o, n)
  BY DEF Traced
<1>2. Len(l) \in Nat /\ DOMAIN l = 1..Len(l)
  BY <1>1, LenProperties
<1>. QED BY <1>1, <1>2 DEF Trace, Open, Started, WellFormed

Ordinary == EventNames \ {"terminal", "requeued"}

LEMMA EndEvent ==
    ASSUME NEW l, NEW s, NEW n, Traced(l, {s}, n), NEW name \in Ordinary
    PROVE  Traced(Append(l, Event(name, n, 0, {s})), {}, n)
<1>. DEFINE v == Event(name, n, 0, {s})
<1>1. n \in Nat /\ s \in Nat
  BY OpenIsNat
<1>2. v \in EventRecord /\ v.name = name /\ v.epoch = n /\ v.start = 0 /\ v.ends = {s}
  BY <1>1, EventFacts DEF Ordinary
<1>3. name # "terminal" /\ name # "requeued"
  BY DEF Ordinary
<1>. HIDE DEF v
<1>4. Traced(Append(l, v), ({s} \ v.ends) \cup ({v.start} \ {0}), v.epoch)
  BY <1>1, <1>2, <1>3, TracedAppend
<1>5. ({s} \ v.ends) \cup ({v.start} \ {0}) = {}
  BY <1>2
<1>. QED BY <1>2, <1>4, <1>5 DEF v

LEMMA StartEvent ==
    ASSUME NEW l, NEW n, Traced(l, {}, n), NEW name \in EventNames \ {"terminal"}, NEW k,
           k = IF name = "requeued" THEN n + 1 ELSE n
    PROVE  Traced(Append(l, Event(name, k, Len(l) + 1, {})), {Len(l) + 1}, k)
<1>. DEFINE v == Event(name, k, Len(l) + 1, {})
<1>1. n \in Nat /\ Len(l) \in Nat /\ k \in Nat
  BY OpenIsNat
<1>2. /\ v \in EventRecord /\ v.name = name /\ v.epoch = k
      /\ v.start = Len(l) + 1 /\ v.ends = {}
  BY <1>1, EventFacts
<1>3. name # "terminal"
  OBVIOUS
<1>. HIDE DEF v
<1>4. Traced(Append(l, v), ({} \ v.ends) \cup ({v.start} \ {0}), v.epoch)
  BY <1>1, <1>2, <1>3, TracedAppend
<1>5. ({} \ v.ends) \cup ({v.start} \ {0}) = {Len(l) + 1}
  BY <1>1, <1>2
<1>. QED BY <1>2, <1>4, <1>5 DEF v

LEMMA SwitchEvent ==
    ASSUME NEW l, NEW s, NEW n, Traced(l, {s}, n), NEW name \in Ordinary
    PROVE  Traced(Append(l, Event(name, n, Len(l) + 1, {s})), {Len(l) + 1}, n)
<1>. DEFINE v == Event(name, n, Len(l) + 1, {s})
<1>1. n \in Nat /\ s \in Nat /\ Len(l) \in Nat
  BY OpenIsNat
<1>2. /\ v \in EventRecord /\ v.name = name /\ v.epoch = n
      /\ v.start = Len(l) + 1 /\ v.ends = {s}
  BY <1>1, EventFacts DEF Ordinary
<1>3. name # "terminal" /\ name # "requeued"
  BY DEF Ordinary
<1>. HIDE DEF v
<1>4. Traced(Append(l, v), ({s} \ v.ends) \cup ({v.start} \ {0}), v.epoch)
  BY <1>1, <1>2, <1>3, TracedAppend
<1>5. ({s} \ v.ends) \cup ({v.start} \ {0}) = {Len(l) + 1}
  BY <1>1, <1>2
<1>. QED BY <1>2, <1>4, <1>5 DEF v

LEMMA TerminalEvent ==
    ASSUME NEW l, NEW o, NEW n, Traced(l, o, n), NEW ends \in SUBSET Nat,
           ends = o \/ l[Len(l)].name \in {"admission_started", "resumed"}
    PROVE  Finished(Append(l, Event("terminal", n, 0, ends)))
<1>. DEFINE v == Event("terminal", n, 0, ends)
<1>1. l \in Seq(EventRecord) /\ WellFormed(l) /\ n \in Nat /\ Trace(l, o, n)
  BY DEF Traced
<1>2. v \in EventRecord /\ v.name = "terminal" /\ v.epoch = n /\ v.start = 0 /\ v.ends = ends
  BY <1>1, EventFacts DEF EventNames
<1>. HIDE DEF v
<1>3. Finished(Append(l, v))
  BY <1>1, <1>2, FinishedAppend
<1>. QED BY <1>3 DEF v

LEMMA NothingTraced == Traced(<<>>, {}, 0)
<1>1. /\ <<>> \in Seq(EventRecord) /\ DOMAIN <<>> = {}
  OBVIOUS
<1>2. \A name : Named(<<>>, name) = {}
  BY DEF Named
<1>3. Cardinality({}) = 0
  BY FS_EmptySet
<1>4. Open(<<>>) = {}
  BY DEF Open, Started
<1>. QED BY <1>1, <1>2, <1>3, <1>4 DEF Traced, WellFormed, Trace, Epochal, EndsOnce

\* What is known of a clean and registered request.
LEMMA PlaceFacts ==
    ASSUME Base, NEW r \in Requests, Clean(r), Sound(r)
    PROVE  /\ log[r] \in Seq(EventRecord) /\ Len(log[r]) \in Nat /\ WellFormed(log[r])
           /\ epoch[r] \in Nat /\ epoch[r] \in 0..MaxEpoch
           /\ epoch[r] # 0 => epoch[r] \in Epochs /\ EpisodeNow(r) = episode[<<r, epoch[r]>>]
           /\ epoch[r] = 0 => EpisodeNow(r) = NoEpisode
           /\ r \in Live => /\ state[r] \in StateRecord
                            /\ state[r].activeStarted = 0 <=> state[r].activeSpan = 0
                            /\ r \in Computing <=> state[r].activeSpan # 0
           /\ CallOf(r) # NoCall => /\ CallOf(r) = call /\ host[r] = "preempted"
                                    /\ epoch[r] # 0
<1>1. log[r] \in Seq(EventRecord) /\ Len(log[r]) \in Nat /\ LogSound(log[r], edges[r])
  BY SoundFacts
<1>2. epoch[r] \in Nat /\ epoch[r] \in 0..MaxEpoch /\ (epoch[r] # 0 => epoch[r] \in Epochs)
  BY BridgeAssumption DEF Base, TypeOK, Epochs
<1>3. ASSUME r \in Live
      PROVE  /\ state[r] \in StateRecord
             /\ state[r].activeStarted = 0 <=> state[r].activeSpan = 0
             /\ r \in Computing <=> state[r].activeSpan # 0
  <2>1. state[r] \in StateRecord
    BY <1>3, LiveFacts DEF Base
  <2>2. PairedState(log[r], state[r])
    BY <1>3, SoundFacts
  <2>3. state[r].activeStarted = 0 <=> state[r].activeSpan = 0
    BY <1>1, <2>2 DEF PairedState, Pair
  <2>. QED BY <1>3, <2>1, <2>3 DEF Computing
<1>4. CallOf(r) # NoCall => CallOf(r) = call /\ host[r] = "preempted"
  BY DEF CallOf, Base, CallsPreempt
<1>5. host[r] = "preempted" => epoch[r] # 0
  BY <1>2 DEF Base, HostEpochs
<1>6. WellFormed(log[r])
  BY <1>1 DEF LogSound
<1>7. /\ epoch[r] # 0 => EpisodeNow(r) = episode[<<r, epoch[r]>>]
      /\ epoch[r] = 0 => EpisodeNow(r) = NoEpisode
  BY DEF EpisodeNow
<1>. QED BY <1>1, <1>2, <1>3, <1>4, <1>5, <1>6, <1>7

\* To have r in its place after a step.
LEMMA PlacedAfter ==
    ASSUME NEW r \in Requests, NEW l, NEW st, NEW ep, NEW e, NEW c, NEW h,
           l = log'[r], st = state'[r], e = epoch'[r], c = CallOf(r)', h = host'[r],
           ep = EpisodeNow(r)', st # NoState,
           Once(l) => Steady(l, st, ep, e, c, h)
    PROVE  Placed(r)' /\ Rested(r)'
<1>1. r \in Live'
  BY DEF Live
<1>. QED BY <1>1 DEF Placed, Rested

LEMMA EpisodeNext ==
    ASSUME NEW r
    PROVE  /\ epoch'[r] # 0 => EpisodeNow(r)' = episode'[<<r, epoch'[r]>>]
           /\ epoch'[r] = 0 => EpisodeNow(r)' = NoEpisode
BY DEF EpisodeNow

\* The place of a registered request, from its call and from the host's state.
LEMMA PlaceOf ==
    ASSUME Base, NEW r \in Requests, Clean(r), Sound(r), Placed(r), r \in Live, Once(log[r]),
           NEW l, NEW st, NEW ep, NEW e, NEW c, NEW h,
           l = log[r], st = state[r], ep = EpisodeNow(r), e = epoch[r], c = CallOf(r), h = host[r]
    PROVE  /\ Steady(l, st, ep, e, c, h)
           /\ c = NoCall => \/ Queued(l, st, ep, e, h) \/ Working(l, st, e, h)
                            \/ Admitting(l, st, ep, e, h) \/ Resuming(l, st, ep, e, h)
           /\ c.at = "emit" => Leaving(l, st, ep, e, c)
           /\ c.at = "commit" => Moving(l, st, ep, e, c)
<1>1. Steady(l, st, ep, e, c, h)
  BY DEF Placed
<1>2. NoCall.at # "emit" /\ NoCall.at # "commit"
  BY DEF NoCall
<1>3. c = NoCall => \/ Queued(l, st, ep, e, h) \/ Working(l, st, e, h)
                    \/ Admitting(l, st, ep, e, h) \/ Resuming(l, st, ep, e, h)
  BY <1>1, <1>2 DEF Steady, Leaving, Moving
<1>4. c.at = "emit" => Leaving(l, st, ep, e, c)
  BY <1>1, <1>2 DEF Steady, Moving
<1>5. c.at = "commit" => Moving(l, st, ep, e, c)
  BY <1>1, <1>2 DEF Steady, Leaving
<1>. QED BY <1>1, <1>3, <1>4, <1>5

LEMMA QuietPlaced ==
    ASSUME Base, NEW r \in Requests, Clean(r), Sound(r), Placed(r), Rested(r),
           OneOwner(r)' => OneOwner(r), StaysQuiet(r)
    PROVE  Placed(r)' /\ Rested(r)'
<1>1. /\ log'[r] = log[r] /\ state'[r] = state[r] /\ epoch'[r] = epoch[r]
      /\ CallOf(r)' = CallOf(r)
      /\ \A x \in Epochs : episode'[<<r, x>>] = episode[<<r, x>>]
  BY DEF StaysQuiet, Quiet, Kept, EpisodesKept
<1>2. EpisodeNow(r)' = EpisodeNow(r)
  <2>1. epoch[r] # 0 => epoch[r] \in Epochs
    BY PlaceFacts
  <2>. QED BY <1>1, <2>1 DEF EpisodeNow
<1>3. CASE r \notin Live
  <2>1. r \notin Live'
    BY <1>1, <1>3 DEF Live
  <2>. QED BY <1>1, <1>3, <2>1 DEF Placed, Rested
<1>4. CASE r \in Live
  <2>1. PICK l, st, ep, e, c, h : /\ l = log[r] /\ st = state[r] /\ ep = EpisodeNow(r)
                                  /\ e = epoch[r] /\ c = CallOf(r) /\ h = host'[r]
    OBVIOUS
  <2>2. st # NoState
    BY <1>4, <2>1 DEF Live
  <2>3. ASSUME Once(l) PROVE Steady(l, st, ep, e, c, h)
    <3>1. PICK g : g = host[r]
      OBVIOUS
    <3>2. /\ Steady(l, st, ep, e, c, g)
          /\ c = NoCall => \/ Queued(l, st, ep, e, g) \/ Working(l, st, e, g)
                           \/ Admitting(l, st, ep, e, g) \/ Resuming(l, st, ep, e, g)
      BY <1>4, <2>1, <2>3, <3>1, PlaceOf
    <3>3. CASE h = g
      BY <3>2, <3>3
    <3>4. CASE c = NoCall /\ g = "new" /\ h = "waiting"
      BY <3>2, <3>4 DEF Queued, Working, Admitting, Resuming, Steady
    <3>5. CASE /\ c = NoCall /\ h = "running" /\ r \in Computing
               /\ g \in {"waiting", "running", "preempted", "admitted"}
      <4>1. st.activeSpan # 0
        BY <1>4, <2>1, <3>5, PlaceFacts
      <4>. QED BY <3>2, <3>5, <4>1 DEF Queued, Working, Admitting, Resuming, Steady
    <3>. QED BY <1>4, <2>1, <3>1, <3>3, <3>4, <3>5 DEF StaysQuiet
  <2>. QED BY <1>1, <1>2, <2>1, <2>2, <2>3, PlacedAfter
<1>. QED BY <1>3, <1>4

LEMMA RegistersPlaced ==
    ASSUME Base, NEW r \in Requests, Clean(r), Sound(r), Registers(r)
    PROVE  Placed(r)' /\ Rested(r)'
<1>1. PICK l, st, ep, e, c, h : /\ l = log'[r] /\ st = state'[r] /\ ep = EpisodeNow(r)'
                                /\ e = epoch'[r] /\ c = CallOf(r)' /\ h = host'[r]
  OBVIOUS
<1>2. /\ l = Append(log[r], Event("queued", 0, Len(log[r]) + 1, {}))
      /\ st = Fresh(r) /\ e = epoch[r] /\ c = CallOf(r)
      /\ h = host[r] \/ h = "waiting"
  BY <1>1 DEF Registers, Registered, Kept
<1>3. st # NoState /\ st.epoch = 0 /\ st.activeSpan = 0 /\ st.queueSpan = Len(log[r]) + 1
  <2>1. st.epoch = 0 /\ st.activeSpan = 0 /\ st.queueSpan = Len(log[r]) + 1
        /\ st.queueStarted = Len(log[r]) + 1
    BY <1>2 DEF Fresh
  <2>2. NoState.queueStarted = 0
    BY DEF NoState
  <2>3. Len(log[r]) \in Nat
    BY PlaceFacts
  <2>. QED BY <2>1, <2>2, <2>3
<1>4. ASSUME Once(l) PROVE Steady(l, st, ep, e, c, h)
  <2>. DEFINE v == Event("queued", 0, Len(log[r]) + 1, {})
  <2>1. log[r] \in Seq(EventRecord) /\ Len(log[r]) \in Nat /\ LogSound(log[r], edges[r])
    BY SoundFacts
  <2>2. v \in EventRecord /\ v.name = "queued"
    BY <2>1, EventFacts DEF EventNames
  <2>3. l = Append(log[r], v)
    BY <1>2
  <2>. HIDE DEF v
  <2>4. Named(log[r], "queued") = {}
    BY <1>4, <2>1, <2>2, <2>3, OnceAppend
  <2>5. log[r] = <<>>
    BY <2>1, <2>4, FirstQueued
  <2>6. e = 0 /\ epoch'[r] = 0
    BY <1>1, <1>2, <2>5 DEF Sound
  <2>7. c = NoCall
    BY <1>2, <2>6, PlaceFacts
  <2>8. ep = NoEpisode
    BY <1>1, <2>6, EpisodeNext
  <2>9. h \notin {"admitting", "resuming"}
    <3>1. epoch[r] = 0 /\ ~(epoch[r] > 0)
      BY <1>2, <2>6
    <3>2. host[r] \notin {"preempted", "admitting", "resuming", "admitted"}
      BY <3>1 DEF Base, HostEpochs
    <3>. QED BY <1>2, <3>2
  <2>10. Trace(l, {st.queueSpan}, 0)
    <3>1. Traced(log[r], {}, 0)
      BY <2>5, NothingTraced
    <3>2. Traced(Append(log[r], Event("queued", 0, Len(log[r]) + 1, {})), {Len(log[r]) + 1}, 0)
      BY <3>1, StartEvent DEF EventNames
    <3>. QED BY <1>2, <1>3, <3>2 DEF Traced
  <2>. QED BY <1>3, <2>6, <2>7, <2>8, <2>9, <2>10 DEF Steady, Queued
<1>. QED BY <1>1, <1>3, <1>4, PlacedAfter

\* A step about a registered request that appends two events.
LEMMA TwoTraced ==
    ASSUME NEW l, NEW s, NEW n, Traced(l, {s}, n), NEW name \in Ordinary,
           NEW next \in EventNames \ {"terminal"}, NEW k,
           k = IF next = "requeued" THEN n + 1 ELSE n
    PROVE  /\ Traced(Append(l, Event(name, n, 0, {s})), {}, n)
           /\ Traced(Append(Append(l, Event(name, n, 0, {s})), Event(next, k, Len(l) + 2, {})),
                     {Len(l) + 2}, k)
<1>. DEFINE m == Append(l, Event(name, n, 0, {s}))
<1>1. Traced(m, {}, n)
  BY EndEvent
<1>2. Len(m) + 1 = Len(l) + 2
  <2>1. l \in Seq(EventRecord) /\ Len(l) \in Nat /\ n \in Nat /\ s \in Nat
    BY OpenIsNat
  <2>2. Event(name, n, 0, {s}) \in EventRecord
    BY <2>1, EventFacts DEF Ordinary
  <2>3. Len(m) = Len(l) + 1
    BY <2>1, <2>2, AppendFacts
  <2>. HIDE DEF m
  <2>. QED BY <2>1, <2>3
<1>. HIDE DEF m
<1>3. Traced(Append(m, Event(next, k, Len(m) + 1, {})), {Len(m) + 1}, k)
  BY <1>1, StartEvent
<1>. QED BY <1>1, <1>2, <1>3 DEF m

LEMMA OnceGrown ==
    ASSUME NEW l \in Seq(EventRecord), NEW v \in EventRecord, NEW w \in EventRecord,
           Once(Append(Append(l, v), w))
    PROVE  Once(l)
<1>1. Append(l, v) \in Seq(EventRecord)
  BY AppendFacts
<1>. QED BY <1>1, OnceAppend

LEMMA StepsPlaced ==
    ASSUME Base, NEW r \in Requests, Clean(r), Sound(r), Placed(r), Steps(r)
    PROVE  Placed(r)' /\ Rested(r)'
<1>1. PICK l, st, ep, e, c, h : /\ l = log'[r] /\ st = state'[r] /\ ep = EpisodeNow(r)'
                                /\ e = epoch'[r] /\ c = CallOf(r)' /\ h = host'[r]
  OBVIOUS
<1>2. /\ r \in Live /\ CallOf(r) = NoCall /\ c = NoCall /\ e = epoch[r] /\ h = "running"
      /\ host[r] \in {"waiting", "running", "preempted", "admitted"}
  BY <1>1 DEF Steps, Kept
<1>3. /\ log[r] \in Seq(EventRecord) /\ Len(log[r]) \in Nat /\ WellFormed(log[r])
      /\ state[r] \in StateRecord /\ epoch[r] \in Nat
      /\ r \in Computing <=> state[r].activeSpan # 0
  BY <1>2, PlaceFacts
<1>4. PICK name \in Phases, next \in Phases, kind \in Kinds :
        /\ l = Append(Append(log[r], Event(name, state[r].epoch, 0, {Held(r)[2]})),
                            Event(next, state[r].epoch, Len(log[r]) + 2, {}))
        /\ st = [state[r] EXCEPT !.activeStarted = Len(log[r]) + 2,
                                 !.activeSpan = Len(log[r]) + 2,
                                 !.kind = kind]
  BY <1>1 DEF Steps, Stepped
<1>5. PICK s : s = Held(r)[2]
  OBVIOUS
<1>6. s \in Nat /\ state[r].epoch \in Nat
  BY <1>2, <1>5, LiveFacts DEF Base, Held
<1>7. st.epoch = state[r].epoch /\ st.activeSpan = Len(log[r]) + 2 /\ st # NoState
  <2>1. /\ st.epoch = state[r].epoch /\ st.activeSpan = Len(log[r]) + 2
        /\ st.queueStarted = state[r].queueStarted
    BY <1>3, <1>4 DEF StateRecord
  <2>2. NoState.queueStarted = 0
    BY DEF NoState
  <2>3. state[r].queueStarted # 0
    BY <1>2, LiveFacts DEF Base
  <2>. QED BY <2>1, <2>2, <2>3
<1>8. ASSUME Once(l) PROVE Steady(l, st, ep, e, c, h)
  <2>1. /\ Event(name, state[r].epoch, 0, {s}) \in EventRecord
        /\ Event(next, state[r].epoch, Len(log[r]) + 2, {}) \in EventRecord
    <3>1. name \in EventNames /\ next \in EventNames /\ Len(log[r]) + 2 \in Nat
      BY <1>3 DEF Phases, EventNames
    <3>. QED BY <1>6, <3>1, EventType
  <2>2. Once(log[r])
    BY <1>3, <1>4, <1>5, <1>8, <2>1, OnceGrown
  <2>3. PICK x, g : x = EpisodeNow(r) /\ g = host[r]
    OBVIOUS
  <2>4. \/ Queued(log[r], state[r], x, epoch[r], g) \/ Working(log[r], state[r], epoch[r], g)
        \/ Admitting(log[r], state[r], x, epoch[r], g) \/ Resuming(log[r], state[r], x, epoch[r], g)
    BY <1>2, <2>2, <2>3, PlaceOf
  <2>5. state[r].epoch = epoch[r] /\ Trace(log[r], {s}, epoch[r])
    BY <1>2, <1>3, <1>5, <2>3, <2>4 DEF Queued, Working, Admitting, Resuming, Held
  <2>6. Traced(log[r], {s}, epoch[r])
    BY <1>3, <2>5 DEF Traced
  <2>7. Traced(l, {Len(log[r]) + 2}, epoch[r])
    <3>1. name \in Ordinary /\ next \in EventNames \ {"terminal"} /\ next # "requeued"
      BY DEF Phases, Ordinary, EventNames
    <3>2. Traced(Append(Append(log[r], Event(name, epoch[r], 0, {s})),
                        Event(next, epoch[r], Len(log[r]) + 2, {})), {Len(log[r]) + 2}, epoch[r])
      BY <2>6, <3>1, TwoTraced
    <3>. QED BY <1>4, <1>5, <2>5, <3>2
  <2>8. Working(l, st, e, h)
    BY <1>2, <1>3, <1>7, <2>5, <2>7 DEF Working, Traced
  <2>. QED BY <1>2, <2>8 DEF Steady
<1>. QED BY <1>1, <1>7, <1>8, PlacedAfter

LEMMA LeavesPlaced ==
    ASSUME Base, Base', NEW r \in Requests, Clean(r), Sound(r), Placed(r), Leaves(r)
    PROVE  Placed(r)' /\ Rested(r)'
<1>1. PICK l, st, ep, e, c, h : /\ l = log'[r] /\ st = state'[r] /\ ep = EpisodeNow(r)'
                                /\ e = epoch'[r] /\ c = CallOf(r)' /\ h = host'[r]
  OBVIOUS
<1>2. /\ l = log[r] /\ st = state[r] /\ e = epoch[r] + 1
      /\ \A x \in Epochs : episode'[<<r, x>>] = episode[<<r, x>>]
      /\ c.at = "emit" /\ c.span = state[r].activeSpan
      /\ CallOf(r) = NoCall /\ r \in Computing /\ host[r] = "running"
  BY <1>1 DEF Leaves, Quiet, EpisodesKept
<1>3. r \in Live /\ st # NoState
  BY <1>2 DEF Computing, Live
<1>4. epoch[r] \in Nat /\ state[r].activeSpan # 0
  BY <1>2, <1>3, PlaceFacts
<1>5. ep = NoEpisode
  <2>1. epoch'[r] \in 0..MaxEpoch
    BY DEF Base, TypeOK
  <2>2. e \in Epochs /\ e # 0
    BY <1>1, <1>2, <1>4, <2>1, BridgeAssumption DEF Epochs
  <2>3. ep = episode[<<r, e>>]
    BY <1>1, <1>2, <2>2, EpisodeNext
  <2>4. <<r, e>> \notin Episodes
    <3>1. ~(e <= epoch[r])
      BY <1>2, <1>4
    <3>2. <<r, e>>[1] = r /\ <<r, e>>[2] = e
      OBVIOUS
    <3>. QED BY <3>1, <3>2 DEF Base, EpisodesBegun
  <2>. QED BY <2>2, <2>3, <2>4 DEF Episodes
<1>6. ASSUME Once(l) PROVE Steady(l, st, ep, e, c, h)
  <2>1. PICK x, g : x = EpisodeNow(r) /\ g = host[r]
    OBVIOUS
  <2>2. \/ Queued(l, st, x, epoch[r], g) \/ Working(l, st, epoch[r], g)
        \/ Admitting(l, st, x, epoch[r], g) \/ Resuming(l, st, x, epoch[r], g)
    BY <1>2, <1>3, <1>6, <2>1, PlaceOf
  <2>3. st.epoch = epoch[r] /\ Trace(l, {st.activeSpan}, epoch[r])
    BY <1>2, <1>4, <2>2 DEF Queued, Working, Admitting, Resuming
  <2>4. e - 1 = epoch[r]
    BY <1>2, <1>4
  <2>. QED BY <1>2, <1>4, <1>5, <2>3, <2>4 DEF Steady, Leaving
<1>. QED BY <1>1, <1>3, <1>6, PlacedAfter

LEMMA OpensPlaced ==
    ASSUME Base, NEW r \in Requests, Clean(r), Sound(r), Placed(r), Opens(r)
    PROVE  Placed(r)' /\ Rested(r)'
<1>1. PICK l, st, ep, e, c, h : /\ l = log'[r] /\ st = state'[r] /\ ep = EpisodeNow(r)'
                                /\ e = epoch'[r] /\ c = CallOf(r)' /\ h = host'[r]
  OBVIOUS
<1>2. /\ call.at = "emit" /\ CallOf(r) = call /\ Preempted(r, e) /\ e = epoch[r]
      /\ c.at = "commit"
  BY <1>1 DEF Opens
<1>3. CallOf(r) # NoCall
  BY <1>2 DEF NoCall
<1>4. /\ log[r] \in Seq(EventRecord) /\ Len(log[r]) \in Nat /\ WellFormed(log[r])
      /\ epoch[r] \in Nat /\ epoch[r] # 0
  BY <1>3, PlaceFacts
<1>5. PICK s, n : s = call.span /\ n = e - 1
  OBVIOUS
<1>6. n \in Nat /\ e = n + 1
  BY <1>2, <1>4, <1>5
<1>7. /\ r \in Live /\ st = state[r]
      /\ l = Append(Append(log[r], Event("preempted", n, 0, {s})),
                    Event("requeued", e, Len(log[r]) + 2, {}))
  BY <1>1, <1>2, <1>5 DEF Preempted
<1>8. st # NoState
  BY <1>7 DEF Live
<1>9. /\ ep # NoEpisode /\ ep.admission = 0 /\ ep.resumed = 0
      /\ ep.queueSpan = Len(log[r]) + 2
  <2>1. ep = episode'[<<r, e>>]
    BY <1>1, <1>2, <1>4, EpisodeNext
  <2>2. /\ ep.admission = 0 /\ ep.resumed = 0
        /\ ep.queueSpan = Len(log[r]) + 2 /\ ep.preempted = Len(log[r]) + 1
    BY <1>2, <2>1 DEF Preempted
  <2>3. NoEpisode.preempted = 0
    BY DEF NoEpisode
  <2>. QED BY <1>4, <2>2, <2>3
<1>10. ASSUME Once(l) PROVE Steady(l, st, ep, e, c, h)
  <2>1. s \in Nat
    <3>1. PairedCall(log[r], CallOf(r))
      BY SoundFacts
    <3>2. Pair(log[r], call.started, call.span)
      BY <1>2, <3>1 DEF PairedCall
    <3>. QED BY <1>4, <1>5, <3>2 DEF Pair
  <2>2. /\ Event("preempted", n, 0, {s}) \in EventRecord
        /\ Event("requeued", e, Len(log[r]) + 2, {}) \in EventRecord
    <3>1. "preempted" \in EventNames /\ "requeued" \in EventNames /\ Len(log[r]) + 2 \in Nat
      BY <1>4 DEF EventNames
    <3>. QED BY <1>2, <1>4, <1>6, <2>1, <3>1, EventType
  <2>3. Once(log[r])
    BY <1>4, <1>7, <1>10, <2>2, OnceGrown
  <2>4. PICK x, g : x = EpisodeNow(r) /\ g = host[r]
    OBVIOUS
  <2>5. Leaving(log[r], st, x, e, call)
    BY <1>2, <1>7, <2>3, <2>4, PlaceOf
  <2>6. st.epoch = n /\ s = st.activeSpan /\ Trace(log[r], {s}, n)
    BY <1>5, <2>5 DEF Leaving
  <2>7. Traced(log[r], {s}, n)
    BY <1>4, <1>6, <2>6 DEF Traced
  <2>8. Traced(l, {Len(log[r]) + 2}, e)
    <3>1. "preempted" \in Ordinary /\ "requeued" \in EventNames \ {"terminal"}
      BY DEF Ordinary, EventNames
    <3>. QED BY <1>6, <1>7, <2>7, <3>1, TwoTraced
  <2>9. Moving(l, st, ep, e, c)
    BY <1>2, <1>5, <1>9, <2>6, <2>8 DEF Moving, Traced
  <2>. QED BY <2>9 DEF Steady
<1>. QED BY <1>1, <1>8, <1>10, PlacedAfter

LEMMA CommitsPlaced ==
    ASSUME Base, NEW r \in Requests, Clean(r), Sound(r), Placed(r), Rested(r),
           OneOwner(r)' => OneOwner(r), Commits(r)
    PROVE  Placed(r)' /\ Rested(r)'
<1>1. PICK l, st, ep, e, c, h : /\ l = log'[r] /\ st = state'[r] /\ ep = EpisodeNow(r)'
                                /\ e = epoch'[r] /\ c = CallOf(r)' /\ h = host'[r]
  OBVIOUS
<1>2. /\ call.at = "commit" /\ CallOf(r) = call /\ c = NoCall
      /\ e = epoch[r] /\ h = host[r]
  BY <1>1 DEF Commits
<1>3. CallOf(r) # NoCall
  BY <1>2 DEF NoCall
<1>4. /\ epoch[r] # 0 /\ epoch[r] \in Epochs /\ host[r] = "preempted"
      /\ EpisodeNow(r) = episode[<<r, epoch[r]>>]
  BY <1>3, PlaceFacts
<1>5. /\ log'[r] = log[r]
      /\ \A x \in Epochs : episode'[<<r, x>>] = episode[<<r, x>>]
  BY DEF Commits, Quiet, Committed, EpisodesKept
<1>6. ep = episode[<<r, epoch[r]>>]
  BY <1>1, <1>2, <1>4, <1>5, EpisodeNext
<1>7. CASE r \notin Live
  <2>1. state'[r] = state[r]
    BY <1>7 DEF Commits, Quiet, Committed
  <2>2. r \notin Live'
    BY <1>7, <2>1 DEF Live
  <2>. QED BY <1>5, <1>7, <2>2 DEF Placed, Rested
<1>8. CASE r \in Live
  <2>1. CASE <<r, epoch[r]>> \in Episodes
    <3>1. st = Requeued(r, epoch[r])
      BY <1>1, <1>8, <2>1 DEF Commits, Committed
    <3>2. /\ st.epoch = e /\ st.activeSpan = 0 /\ st.queueSpan = ep.queueSpan
          /\ st.queueStarted = ep.requeued
      BY <1>2, <1>6, <3>1 DEF Requeued
    <3>3. st # NoState
      <4>1. ep.requeued # 0
        BY <1>6, <2>1, EpisodeFacts DEF Base
      <4>2. NoState.queueStarted = 0
        BY DEF NoState
      <4>. QED BY <3>2, <4>1, <4>2
    <3>4. ASSUME Once(l) PROVE Steady(l, st, ep, e, c, h)
      <4>1. PICK s, g : s = state[r] /\ g = host[r]
        OBVIOUS
      <4>2. Moving(l, s, ep, e, call)
        BY <1>1, <1>2, <1>4, <1>5, <1>6, <1>8, <3>4, <4>1, PlaceOf
      <4>3. Queued(l, st, ep, e, h)
        BY <1>2, <1>4, <3>2, <4>2 DEF Moving, Queued
      <4>. QED BY <1>2, <4>3 DEF Steady
    <3>. QED BY <1>1, <3>3, <3>4, PlacedAfter
  <2>2. CASE <<r, epoch[r]>> \notin Episodes
    <3>1. ep = NoEpisode /\ state'[r] = state[r]
      BY <1>4, <1>6, <2>2 DEF Episodes, Commits, Quiet, Committed
    <3>2. st # NoState
      BY <1>1, <1>8, <3>1 DEF Live
    <3>3. ASSUME Once(l) PROVE Steady(l, st, ep, e, c, h)
      <4>1. Moving(l, st, ep, e, call)
        BY <1>1, <1>2, <1>4, <1>5, <1>6, <1>8, <3>1, <3>3, PlaceOf
      <4>. QED BY <3>1, <4>1 DEF Moving
    <3>. QED BY <1>1, <3>2, <3>3, PlacedAfter
  <2>. QED BY <2>1, <2>2
<1>. QED BY <1>7, <1>8

LEMMA AdmitsPlaced ==
    ASSUME Base, NEW r \in Requests, Clean(r), Sound(r), Placed(r), Admits(r)
    PROVE  Placed(r)' /\ Rested(r)'
<1>1. PICK l, st, ep, e, c, h : /\ l = log'[r] /\ st = state'[r] /\ ep = EpisodeNow(r)'
                                /\ e = epoch'[r] /\ c = CallOf(r)' /\ h = host'[r]
  OBVIOUS
<1>2. /\ CallOf(r) = NoCall /\ c = NoCall /\ e = epoch[r] /\ Admitted(r, e)
      /\ r \in Live /\ <<r, e>> \in Episodes
      /\ host[r] = "preempted" /\ h = "admitting"
  BY <1>1 DEF Admits, Kept, CanStartAdmission
<1>3. /\ log[r] \in Seq(EventRecord) /\ Len(log[r]) \in Nat /\ WellFormed(log[r])
      /\ e \in Nat /\ e # 0 /\ EpisodeNow(r) = episode[<<r, e>>]
  <2>1. e # 0
    BY <1>2, EpisodeFacts, BridgeAssumption DEF Base, Epochs
  <2>. QED BY <1>2, <2>1, PlaceFacts
<1>4. PICK x, s : x = episode[<<r, e>>] /\ s = x.queueSpan
  OBVIOUS
<1>5. x \in EpisodeRecord /\ s \in Nat
  BY <1>2, <1>4, EpisodeFacts DEF Base
<1>6. /\ l = Append(log[r], Event("admission_started", e, Len(log[r]) + 1, {s}))
      /\ st = state[r]
      /\ ep = [x EXCEPT !.admission = Len(log[r]) + 1, !.admissionSpan = Len(log[r]) + 1]
  <2>1. ep = episode'[<<r, e>>]
    BY <1>1, <1>3, EpisodeNext
  <2>. QED BY <1>1, <1>2, <1>4, <2>1 DEF Admitted
<1>7. /\ ep.admission = Len(log[r]) + 1 /\ ep.admissionSpan = Len(log[r]) + 1
      /\ ep.resumed = x.resumed /\ ep # NoEpisode
  <2>1. /\ ep.admission = Len(log[r]) + 1 /\ ep.admissionSpan = Len(log[r]) + 1
        /\ ep.resumed = x.resumed /\ ep.preempted = x.preempted /\ x.preempted # 0
    BY <1>5, <1>6 DEF EpisodeRecord
  <2>2. NoEpisode.preempted = 0
    BY DEF NoEpisode
  <2>. QED BY <2>1, <2>2
<1>8. st # NoState
  BY <1>2, <1>6 DEF Live
<1>. DEFINE v == Event("admission_started", e, Len(log[r]) + 1, {s})
<1>9. v \in EventRecord /\ v.name = "admission_started"
  <2>1. "admission_started" \in EventNames /\ Len(log[r]) + 1 \in Nat /\ {s} \in SUBSET Nat
    BY <1>3, <1>5 DEF EventNames
  <2>. QED BY <1>3, <2>1, EventFacts
<1>10. ASSUME Once(l) PROVE Steady(l, st, ep, e, c, h)
  <2>. HIDE DEF v
  <2>1. Once(log[r])
    BY <1>3, <1>6, <1>9, <1>10, OnceAppend DEF v
  <2>2. PICK g : g = host[r]
    OBVIOUS
  <2>3. \/ Queued(log[r], st, x, e, g) \/ Working(log[r], st, e, g)
        \/ Admitting(log[r], st, x, e, g) \/ Resuming(log[r], st, x, e, g)
    BY <1>2, <1>3, <1>4, <1>6, <2>1, <2>2, PlaceOf
  <2>4. Queued(log[r], st, x, e, g)
    BY <1>2, <2>2, <2>3 DEF Working, Admitting, Resuming
  <2>5. st.epoch = e /\ st.activeSpan = 0 /\ x.resumed = 0 /\ Trace(log[r], {s}, e)
    BY <1>3, <1>4, <2>4 DEF Queued
  <2>6. Traced(l, {Len(log[r]) + 1}, e)
    <3>1. Traced(log[r], {s}, e)
      BY <1>3, <2>5 DEF Traced
    <3>2. "admission_started" \in Ordinary
      BY DEF Ordinary, EventNames
    <3>. QED BY <1>6, <3>1, <3>2, SwitchEvent
  <2>7. l[Len(l)].name = "admission_started"
    <3>1. l = Append(log[r], v)
      BY <1>6 DEF v
    <3>2. Len(l) = Len(log[r]) + 1 /\ l[Len(log[r]) + 1] = v
      BY <1>3, <1>9, <3>1, AppendFacts
    <3>. QED BY <1>9, <3>2
  <2>8. Admitting(l, st, ep, e, h)
    BY <1>2, <1>3, <1>7, <2>5, <2>6, <2>7 DEF Admitting, Traced
  <2>. QED BY <1>2, <2>8 DEF Steady
<1>. QED BY <1>1, <1>8, <1>10, PlacedAfter

LEMMA ResumesPlaced ==
    ASSUME Base, NEW r \in Requests, Clean(r), Sound(r), Placed(r), Resumes(r)
    PROVE  Placed(r)' /\ Rested(r)'
<1>1. PICK l, st, ep, e, c, h : /\ l = log'[r] /\ st = state'[r] /\ ep = EpisodeNow(r)'
                                /\ e = epoch'[r] /\ c = CallOf(r)' /\ h = host'[r]
  OBVIOUS
<1>2. /\ CallOf(r) = NoCall /\ c = NoCall /\ e = epoch[r] /\ Resumed(r, e)
      /\ r \in Live /\ <<r, e>> \in Episodes
      /\ host[r] = "admitting" /\ h = "resuming"
  BY <1>1 DEF Resumes, Kept, CanResume
<1>3. /\ log[r] \in Seq(EventRecord) /\ Len(log[r]) \in Nat /\ WellFormed(log[r])
      /\ e \in Nat /\ e # 0 /\ EpisodeNow(r) = episode[<<r, e>>]
  <2>1. e # 0
    BY <1>2, EpisodeFacts, BridgeAssumption DEF Base, Epochs
  <2>. QED BY <1>2, <2>1, PlaceFacts
<1>4. PICK x, s : x = episode[<<r, e>>] /\ s = x.admissionSpan
  OBVIOUS
<1>5. x \in EpisodeRecord /\ s \in Nat
  BY <1>2, <1>4, EpisodeFacts DEF Base
<1>6. /\ l = Append(log[r], Event("resumed", e, 0, {s}))
      /\ st = state[r]
      /\ ep = [x EXCEPT !.resumed = Len(log[r]) + 1]
  <2>1. ep = episode'[<<r, e>>]
    BY <1>1, <1>3, EpisodeNext
  <2>. QED BY <1>1, <1>2, <1>4, <2>1 DEF Resumed
<1>7. ep.resumed # 0 /\ ep.admission = x.admission /\ ep # NoEpisode
  <2>1. /\ ep.resumed = Len(log[r]) + 1
        /\ ep.admission = x.admission /\ ep.preempted = x.preempted /\ x.preempted # 0
    BY <1>5, <1>6 DEF EpisodeRecord
  <2>2. NoEpisode.preempted = 0
    BY DEF NoEpisode
  <2>. QED BY <1>3, <2>1, <2>2
<1>8. st # NoState
  BY <1>2, <1>6 DEF Live
<1>9. Event("resumed", e, 0, {s}) \in EventRecord
  BY <1>3, <1>5, EventType DEF EventNames
<1>10. ASSUME Once(l) PROVE Steady(l, st, ep, e, c, h)
  <2>1. Once(log[r])
    BY <1>3, <1>6, <1>9, <1>10, OnceAppend
  <2>2. PICK g : g = host[r]
    OBVIOUS
  <2>3. \/ Queued(log[r], st, x, e, g) \/ Working(log[r], st, e, g)
        \/ Admitting(log[r], st, x, e, g) \/ Resuming(log[r], st, x, e, g)
    BY <1>2, <1>3, <1>4, <1>6, <2>1, <2>2, PlaceOf
  <2>4. Admitting(log[r], st, x, e, g)
    BY <1>2, <2>2, <2>3 DEF Queued, Working, Resuming
  <2>5. st.epoch = e /\ st.activeSpan = 0 /\ x.admission # 0 /\ Trace(log[r], {s}, e)
    BY <1>4, <2>4 DEF Admitting
  <2>6. Traced(l, {}, e)
    <3>1. Traced(log[r], {s}, e)
      BY <1>3, <2>5 DEF Traced
    <3>2. "resumed" \in Ordinary
      BY DEF Ordinary, EventNames
    <3>. QED BY <1>6, <3>1, <3>2, EndEvent
  <2>7. Resuming(l, st, ep, e, h)
    BY <1>2, <1>7, <2>5, <2>6 DEF Resuming, Traced
  <2>. QED BY <1>2, <2>7 DEF Steady
<1>. QED BY <1>1, <1>8, <1>10, PlacedAfter

LEMMA ComputesPlaced ==
    ASSUME Base, NEW r \in Requests, Clean(r), Sound(r), Placed(r), Computes(r)
    PROVE  Placed(r)' /\ Rested(r)'
<1>1. PICK l, st, ep, e, c, h : /\ l = log'[r] /\ st = state'[r] /\ ep = EpisodeNow(r)'
                                /\ e = epoch'[r] /\ c = CallOf(r)' /\ h = host'[r]
  OBVIOUS
<1>2. /\ CallOf(r) = NoCall /\ c = NoCall /\ e = epoch[r] /\ Computed(r, e)
      /\ r \in Live /\ host[r] = "resuming" /\ h = "admitted"
  BY <1>1 DEF Computes, Kept, CanCompute
<1>3. /\ log[r] \in Seq(EventRecord) /\ Len(log[r]) \in Nat /\ WellFormed(log[r])
      /\ e \in Nat /\ state[r] \in StateRecord
  BY <1>2, PlaceFacts
<1>4. PICK kind \in Kinds :
        /\ l = Append(log[r], Event(kind, e, Len(log[r]) + 1, {}))
        /\ st = [state[r] EXCEPT !.activeStarted = Len(log[r]) + 1,
                                 !.activeSpan = Len(log[r]) + 1,
                                 !.kind = kind]
  BY <1>1, <1>2 DEF Computed
<1>5. st.epoch = state[r].epoch /\ st.activeSpan = Len(log[r]) + 1 /\ st # NoState
  <2>1. /\ st.epoch = state[r].epoch /\ st.activeSpan = Len(log[r]) + 1
        /\ st.queueStarted = state[r].queueStarted
    BY <1>3, <1>4 DEF StateRecord
  <2>2. NoState.queueStarted = 0
    BY DEF NoState
  <2>3. state[r].queueStarted # 0
    BY <1>2, LiveFacts DEF Base
  <2>. QED BY <2>1, <2>2, <2>3
<1>6. Event(kind, e, Len(log[r]) + 1, {}) \in EventRecord
  BY <1>3, EventType DEF EventNames, Kinds
<1>7. ASSUME Once(l) PROVE Steady(l, st, ep, e, c, h)
  <2>1. Once(log[r])
    BY <1>3, <1>4, <1>6, <1>7, OnceAppend
  <2>2. PICK s, x, g : s = state[r] /\ x = EpisodeNow(r) /\ g = host[r]
    OBVIOUS
  <2>3. \/ Queued(log[r], s, x, e, g) \/ Working(log[r], s, e, g)
        \/ Admitting(log[r], s, x, e, g) \/ Resuming(log[r], s, x, e, g)
    BY <1>2, <2>1, <2>2, PlaceOf
  <2>4. Resuming(log[r], s, x, e, g)
    BY <1>2, <2>2, <2>3 DEF Queued, Working, Admitting
  <2>5. st.epoch = e /\ Trace(log[r], {}, e)
    BY <1>5, <2>2, <2>4 DEF Resuming
  <2>6. Traced(l, {Len(log[r]) + 1}, e)
    <3>1. Traced(log[r], {}, e)
      BY <1>3, <2>5 DEF Traced
    <3>2. kind \in EventNames \ {"terminal"} /\ kind # "requeued"
      BY DEF Kinds, EventNames
    <3>. QED BY <1>4, <3>1, <3>2, StartEvent
  <2>7. Working(l, st, e, h)
    BY <1>2, <1>3, <1>5, <2>5, <2>6 DEF Working, Traced
  <2>. QED BY <1>2, <2>7 DEF Steady
<1>. QED BY <1>1, <1>5, <1>7, PlacedAfter

LEMMA EndsPlaced ==
    ASSUME Base, NEW r \in Requests, Clean(r), Sound(r), Placed(r), Ends(r)
    PROVE  Placed(r)' /\ Rested(r)'
<1>1. r \in Live /\ r \notin Live'
  BY DEF Ends, Ended, Live
<1>2. SUFFICES ASSUME Once(log'[r]), OneOwner(r)'
               PROVE  Finished(log'[r])
  BY <1>1 DEF Placed, Rested
<1>3. CallOf(r) = NoCall /\ host[r] # "resuming"
  BY <1>2 DEF Ends
<1>4. PICK l, st, ep, e, c, h : /\ l = log[r] /\ st = state[r] /\ ep = EpisodeNow(r)
                                /\ e = epoch[r] /\ c = CallOf(r) /\ h = host[r]
  OBVIOUS
<1>5. /\ l \in Seq(EventRecord) /\ Len(l) \in Nat /\ WellFormed(l)
      /\ r \in Computing <=> st.activeSpan # 0
  BY <1>1, <1>4, PlaceFacts
<1>6. st.epoch \in Nat /\ st.activeSpan \in Nat
  BY <1>1, <1>4, LiveFacts DEF Base
<1>7. ASSUME Once(l)
      PROVE  \/ Queued(l, st, ep, e, h) \/ Working(l, st, e, h) \/ Admitting(l, st, ep, e, h)
  <2>1. \/ Queued(l, st, ep, e, h) \/ Working(l, st, e, h)
        \/ Admitting(l, st, ep, e, h) \/ Resuming(l, st, ep, e, h)
    BY <1>1, <1>3, <1>4, <1>7, PlaceOf
  <2>. QED BY <1>3, <1>4, <2>1 DEF Resuming
<1>8. CASE log'[r] = log[r]
  <2>1. \E o, n : Trace(l, o, n)
    BY <1>2, <1>4, <1>7, <1>8 DEF Queued, Working, Admitting
  <2>. QED BY <1>4, <1>8, <2>1, TraceFinished
<1>9. CASE Closed(r)
  <2>1. PICK s \in Nat :
        /\ s = IF st.activeSpan # 0 THEN st.activeSpan ELSE st.queueSpan
        /\ log'[r] = Append(l, Event("terminal", st.epoch, 0, {s}))
    BY <1>4, <1>9 DEF Closed
  <2>2. Event("terminal", st.epoch, 0, {s}) \in EventRecord
    BY <1>6, EventType DEF EventNames
  <2>3. Once(l)
    BY <1>2, <1>5, <2>1, <2>2, OnceAppend
  <2>4. \/ Trace(l, {s}, st.epoch)
        \/ /\ \E o : Trace(l, o, st.epoch)
           /\ l[Len(l)].name = "admission_started"
    BY <1>7, <2>1, <2>3 DEF Queued, Working, Admitting
  <2>5. PICK o : /\ Trace(l, o, st.epoch)
                 /\ {s} = o \/ l[Len(l)].name \in {"admission_started", "resumed"}
    BY <2>4
  <2>6. Traced(l, o, st.epoch)
    BY <1>5, <1>6, <2>5 DEF Traced
  <2>7. {s} \in SUBSET Nat
    OBVIOUS
  <2>8. Finished(Append(l, Event("terminal", st.epoch, 0, {s})))
    BY <2>5, <2>6, <2>7, TerminalEvent
  <2>. QED BY <2>1, <2>8
<1>10. CASE Completed(r)
  <2>1. PICK s : s = st.activeSpan
    OBVIOUS
  <2>2. /\ s # 0 /\ s \in Nat
        /\ log'[r] = Append(Append(l, Event("phase_done", st.epoch, 0, {s})),
                            Event("terminal", st.epoch, 0, {}))
    BY <1>4, <1>5, <1>6, <1>10, <2>1 DEF Completed
  <2>3. /\ Event("phase_done", st.epoch, 0, {s}) \in EventRecord
        /\ Event("terminal", st.epoch, 0, {}) \in EventRecord
    BY <1>6, <2>2, EventType DEF EventNames
  <2>4. Once(l)
    BY <1>2, <1>5, <2>2, <2>3, OnceGrown
  <2>5. Trace(l, {s}, st.epoch)
    BY <1>7, <2>1, <2>2, <2>4 DEF Queued, Working, Admitting
  <2>6. Traced(l, {s}, st.epoch)
    BY <1>5, <1>6, <2>5 DEF Traced
  <2>7. Traced(Append(l, Event("phase_done", st.epoch, 0, {s})), {}, st.epoch)
    <3>1. "phase_done" \in Ordinary
      BY DEF Ordinary, EventNames
    <3>. QED BY <2>6, <3>1, EndEvent
  <2>. QED BY <2>2, <2>7, TerminalEvent
<1>. QED BY <1>8, <1>9, <1>10 DEF Ends, Ended

LEMMA PlacedStep ==
    ASSUME Base, NEW r \in Requests, Described(r), AllSound, AllPlaced
    PROVE  AllPlaced'
<1>1. ASSUME NEW q \in Requests, q # r
      PROVE  Placed(q)' /\ Rested(q)'
  BY <1>1, PlacedElsewhere DEF Described, AllPlaced
<1>2. Placed(r)' /\ Rested(r)'
  <2>1. CASE ~Clean(r)'
    BY <2>1 DEF Placed, Rested
  <2>2. CASE Clean(r)'
    <3>1. /\ CleanStep(r) /\ Clean(r) /\ Sound(r) /\ Placed(r) /\ Rested(r) /\ Base'
          /\ OneOwner(r)' => OneOwner(r)
      BY <2>2, FrameClean DEF Described, AllSound, AllPlaced, Frame
    <3>. QED BY <3>1, QuietPlaced, RegistersPlaced, StepsPlaced, LeavesPlaced, OpensPlaced,
                CommitsPlaced, AdmitsPlaced, ResumesPlaced, ComputesPlaced, EndsPlaced
                DEF CleanStep
  <2>. QED BY <2>1, <2>2
<1>. QED BY <1>1, <1>2 DEF AllPlaced

LEMMA PlacedInit == Init => AllPlaced
<1>1. SUFFICES ASSUME Init, NEW r \in Requests PROVE Placed(r) /\ Rested(r)
  BY DEF AllPlaced
<1>2. log[r] = <<>> /\ r \notin Live
  BY <1>1 DEF Init, Live
<1>3. Finished(<<>>)
  BY NothingTraced, TraceFinished DEF Traced
<1>. QED BY <1>2, <1>3 DEF Placed, Rested

LEMMA PlacedUnchanged ==
    ASSUME AllPlaced, UNCHANGED vars
    PROVE  AllPlaced'
<1>1. /\ state' = state /\ episode' = episode /\ call' = call
      /\ host' = host /\ epoch' = epoch /\ front' = front
      /\ overlapped' = overlapped /\ sinkOpen' = sinkOpen
      /\ log' = log /\ lossy' = lossy /\ skipped' = skipped
  BY DEF vars
<1>2. \A r \in Requests : /\ Clean(r)' = Clean(r) /\ OneOwner(r)' = OneOwner(r)
                          /\ CallOf(r)' = CallOf(r) /\ EpisodeNow(r)' = EpisodeNow(r)
                          /\ r \in Live' <=> r \in Live
  BY <1>1 DEF Clean, OneOwner, CallOf, EpisodeNow, Live
<1>. QED BY <1>1, <1>2 DEF AllPlaced, Placed, Rested

\* The inductive invariant: what the tables hold, that every pair held is one
\* of the log, and where each request is.
THEOREM BridgeInvariance == Spec => [](Base /\ AllSound /\ AllPlaced)
<1>1. Base /\ AllSound /\ AllPlaced /\ [Next]_vars => AllPlaced'
  BY EveryStep, PlacedStep, PlacedUnchanged
<1>. QED BY <1>1, BridgeSound, PlacedInit, PTL DEF Spec

LEMMA PlacedOpen ==
    ASSUME Base, AllSound, AllPlaced, NEW r \in Live, Clean(r), OneLife(r)
    PROVE  Open(log[r]) = Current(r) /\ Epochal(log[r])
<1>1. r \in Requests /\ Sound(r) /\ Placed(r) /\ Once(log[r])
  BY DEF Live, AllSound, AllPlaced, OneLife, Once
<1>2. epoch[r] \in Nat
  BY <1>1, PlaceFacts
<1>3. PICK l, st, ep, e, c, h : /\ l = log[r] /\ st = state[r] /\ ep = EpisodeNow(r)
                                /\ e = epoch[r] /\ c = CallOf(r) /\ h = host[r]
  OBVIOUS
<1>4. Steady(l, st, ep, e, c, h)
  BY <1>1, <1>3, PlaceOf
<1>5. Current(r) = IF st.activeSpan # 0 /\ (ep = NoEpisode \/ st.epoch = e) THEN {st.activeSpan}
                   ELSE IF ep = NoEpisode THEN {st.queueSpan}
                   ELSE IF ep.admission = 0 THEN {ep.queueSpan}
                   ELSE IF ep.resumed = 0 THEN {ep.admissionSpan}
                   ELSE {}
  BY <1>3 DEF Current
<1>6. e - 1 # e
  BY <1>2, <1>3
<1>7. CASE Queued(l, st, ep, e, h)
  BY <1>3, <1>5, <1>7 DEF Queued, Trace
<1>8. CASE Working(l, st, e, h)
  BY <1>3, <1>5, <1>8 DEF Working, Trace
<1>9. CASE Admitting(l, st, ep, e, h)
  BY <1>3, <1>5, <1>9 DEF Admitting, Trace
<1>10. CASE Resuming(l, st, ep, e, h)
  BY <1>3, <1>5, <1>10 DEF Resuming, Trace
<1>11. CASE Leaving(l, st, ep, e, c)
  BY <1>3, <1>5, <1>11 DEF Leaving, Trace
<1>12. CASE Moving(l, st, ep, e, c)
  BY <1>3, <1>5, <1>6, <1>12 DEF Moving, Trace
<1>. QED BY <1>4, <1>7, <1>8, <1>9, <1>10, <1>11, <1>12 DEF Steady

LEMMA RestedFinished ==
    ASSUME AllPlaced, NEW r \in Requests, Clean(r), OneLife(r), OneOwner(r), r \notin Live
    PROVE  Finished(log[r])
BY DEF AllPlaced, Rested, OneLife, Once

\* As long as a request is registered and nothing of it was lost, the trace
\* has exactly one open span, the one that the bridge would end next, also
\* between the critical sections of a preemption; and a lifecycle that was
\* terminated outside of an admission has ended each of its spans once.
THEOREM SpansFollowBridge == Spec => []SpansConsistent
<1>1. ASSUME Base, AllSound, AllPlaced PROVE SpansConsistent
  <2>1. OpenSpanIsCurrent
    BY <1>1, PlacedOpen DEF OpenSpanIsCurrent
  <2>2. SpansBalanced
    <3>1. SUFFICES ASSUME NEW r \in Requests, Clean(r), OneLife(r), OneOwner(r), r \notin Live,
                          NEW t \in Named(log[r], "terminal")
                   PROVE  /\ t = Len(log[r])
                          /\ log[r][t - 1].name \notin {"admission_started", "resumed"} =>
                                \A s \in Started(log[r]) : Cardinality(EndsOf(log[r], s)) = 1
      BY DEF SpansBalanced
    <3>2. Finished(log[r])
      BY <1>1, <3>1, RestedFinished
    <3>. QED BY <3>2 DEF Finished
  <2>3. TypeOK
    BY <1>1 DEF Base
  <2>. QED BY <2>1, <2>2, <2>3 DEF SpansConsistent
<1>. QED BY <1>1, BridgeInvariance, PTL

\* The edges of the trace follow its spans, and the epoch of every event is
\* the number of requeues up to it: no callback that is late, repeated or cut
\* by a terminal writes into an epoch that is over or has not begun.
THEOREM EpochsFollowPreemptions == Spec => []EpochsConsistent
<1>1. ASSUME Base, AllSound, AllPlaced PROVE EpochsConsistent
  <2>1. EdgesMatchSpans
    BY <1>1, SoundEdges
  <2>2. ASSUME NEW r \in Requests, Clean(r), OneLife(r), OneOwner(r)
        PROVE  Epochal(log[r])
    <3>1. CASE r \in Live
      BY <1>1, <2>2, <3>1, PlacedOpen
    <3>2. CASE r \notin Live
      BY <1>1, <2>2, <3>2, RestedFinished DEF Finished
    <3>. QED BY <3>1, <3>2
  <2>3. EpochsFollowRequeues
    BY <2>2 DEF EpochsFollowRequeues, Epochal
  <2>. QED BY <2>1, <2>3 DEF EpochsConsistent
<1>. QED BY <1>1, BridgeInvariance, PTL
=============================================================================
