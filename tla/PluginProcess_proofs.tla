----------------------- MODULE PluginProcess_proofs -----------------------
(***************************************************************************)
(* Theorems about PluginProcess, for any number of processes forked in any *)
(* order and at any moment of a registration, and any number of calls of   *)
(* register_plugin: a shard is written and committed only by the process   *)
(* that opened it, a hooks object opens at most one shard per process, a   *)
(* registered process has one native sink, the number that its lifecycle   *)
(* observer reports is explained also for an inherited observer, and an    *)
(* engine failure commits the shard of the recovery factory's hooks.       *)
(***************************************************************************)
EXTENDS PluginProcess, TLAPS

-----------------------------------------------------------------------------
(* The inductive invariant, process by process                             *)

\* A hooks object is named after a process that exists and a call that it has
\* begun, so a new call's hooks are new and a new process has made none.
Parentage(p) ==
    /\ \A h \in HookIds : mem[p].hooks[h].made => h[1] \in alive /\ h[2] <= tries[h[1]]
    /\ mem[p].pid \in alive \cup {None}
    /\ mem[p].observer # Nobody => mem[p].observer[1] \in alive

\* The bus has at most the sink that _NATIVE_EVENT_SINK names, which is replaced
\* before the pid is set; the pid is set last, and once.
Registration(p) ==
    /\ mem[p].bus \subseteq {mem[p].native} \ {Nobody}
    /\ at[p] \in {"factory", "observer"} \/ mem[p].pid = p => mem[p].native \in {Mine(p), Nobody}
    /\ at[p] \in {"native", "factory", "observer"} => mem[p].pid # p
    /\ at[p] \in {"native", "factory", "observer"} \/ mem[p].pid = p => tries[p] > 0
    /\ at[p] # "idle" => p \in alive

\* Nothing is observed before the registration has ended, and what the observer
\* counts comes after what it brought from the parent.
Observations(p) ==
    /\ mem[p].pid # p => resources[p] = 0
    /\ mem[p].observed = carried[p] + resources[p]
    /\ OwnObserver(p) => carried[p] = 0

\* A hooks object that is to be reinitialized, or is not made yet, has no shard
\* in this process.
Unopened(p) ==
    /\ \A h \in HookIds : mem[p].hooks[h].needs => mem[p].hooks[h].made
    /\ \A h \in HookIds : mem[p].hooks[h].needs => opened[<<h, p>>] = 0
    /\ \A h \in HookIds : h[1] = p /\ h[2] > tries[p] => opened[<<h, p>>] = 0
    /\ p \notin alive => \A h \in HookIds : opened[<<h, p>>] = 0

\* Until the engine has failed, the hooks that have opened a shard in a process
\* hold it, usable; nothing else is usable there.
Held(p) ==
    /\ \A h \in HookIds : opened[<<h, p>>] <= 1
    /\ \A h \in HookIds : at[p] # "failed" /\ opened[<<h, p>>] > 0 =>
          mem[p].hooks[h].sink = <<h, p>> /\ mem[p].usable[<<h, p>>]
    /\ \A s \in Sinks : mem[p].usable[s] => s[2] = p /\ opened[s] > 0

FailureCommits(p) ==
    at[p] = "failed" /\ mem[p].factory # Nobody /\ opened[<<mem[p].factory, p>>] > 0 =>
        <<p, <<mem[p].factory, p>>>> \in commits

LocalInv(p) ==
    /\ Parentage(p) /\ Registration(p) /\ Observations(p)
    /\ Unopened(p) /\ Held(p) /\ FailureCommits(p)

IInv == TypeOK /\ OwnShardsOnly /\ \A p \in Procs : LocalInv(p)

-----------------------------------------------------------------------------
(* Memories                                                                *)

LEMMA HookFields ==
  /\ \A h \in HookIds : /\ h[1] \in Procs /\ h[2] \in 1..MaxTries
                        /\ h = <<h[1], h[2]>> /\ h # Nobody
  /\ \A p \in Procs : p # None /\ \A k \in 1..MaxTries : <<p, k>> \in HookIds
BY PluginAssumption DEF HookIds, Nobody, None

LEMMA SinkPairs ==
  ASSUME NEW h \in HookIds, NEW p \in Procs
  PROVE  /\ <<h, p>> \in Sinks /\ <<h, p>> # NoSink
         /\ \A g \in HookIds, q \in Procs : <<h, p>> = <<g, q>> <=> h = g /\ p = q
BY HookFields DEF Sinks, NoSink

LEMMA SinkFields ==
  ASSUME NEW s \in Sinks
  PROVE  s[1] \in HookIds /\ s[2] \in Procs /\ s = <<s[1], s[2]>> /\ s # NoSink
BY HookFields DEF Sinks, NoSink

LEMMA MemoryFields ==
  ASSUME NEW m \in Memory
  PROVE  /\ m.pid \in Procs \cup {None} /\ m.current \in Owner /\ m.native \in Owner
         /\ m.bus \subseteq Owner /\ m.factory \in Owner /\ m.registry \in Owner
         /\ m.observer \in Owner /\ m.observed \in 0..Capacity
         /\ m.hooks \in [HookIds -> Hooks] /\ m.usable \in [Sinks -> BOOLEAN]
BY DEF Memory

\* Two memories that differ at most in their hooks and usable sinks.
SameGlobals(n, m) ==
    /\ n.pid = m.pid /\ n.native = m.native /\ n.bus = m.bus
    /\ n.factory = m.factory /\ n.registry = m.registry
    /\ n.observer = m.observer /\ n.observed = m.observed

\* n is m but for the hooks object h, whose sink is s.
HooksSet(n, m, h, s) ==
    /\ \A g \in HookIds : g # h => n.hooks[g] = m.hooks[g]
    /\ n.hooks[h].made /\ ~n.hooks[h].needs /\ n.hooks[h].sink = s

LEMMA WithSinkFields ==
  ASSUME NEW m \in Memory, NEW p \in Procs, NEW h \in HookIds
  PROVE  /\ WithSink(m, p, h) \in Memory
         /\ SameGlobals(WithSink(m, p, h), m)
         /\ HooksSet(WithSink(m, p, h), m, h, <<h, p>>)
         /\ WithSink(m, p, h).usable[<<h, p>>]
         /\ \A s \in Sinks : s # <<h, p>> => WithSink(m, p, h).usable[s] = m.usable[s]
<1>1. <<h, p>> \in Sinks
  BY SinkPairs
<1>2. [made |-> TRUE, sink |-> <<h, p>>, needs |-> FALSE] \in Hooks
  BY <1>1 DEF Hooks
<1>3. WithSink(m, p, h) \in Memory
  BY <1>1, <1>2, MemoryFields DEF WithSink, Memory
<1>4. SameGlobals(WithSink(m, p, h), m)
  BY MemoryFields DEF WithSink, Memory, SameGlobals
<1>5. /\ WithSink(m, p, h).hooks =
           [m.hooks EXCEPT ![h] = [made |-> TRUE, sink |-> <<h, p>>, needs |-> FALSE]]
      /\ WithSink(m, p, h).usable = [m.usable EXCEPT ![<<h, p>>] = TRUE]
  BY DEF WithSink, Memory
<1>6. HooksSet(WithSink(m, p, h), m, h, <<h, p>>)
  BY <1>5, MemoryFields DEF HooksSet
<1> QED
  BY <1>1, <1>3, <1>4, <1>5, <1>6, MemoryFields

LEMMA WithoutSinkFields ==
  ASSUME NEW m \in Memory, NEW h \in HookIds
  PROVE  /\ WithoutSink(m, h) \in Memory
         /\ SameGlobals(WithoutSink(m, h), m)
         /\ HooksSet(WithoutSink(m, h), m, h, NoSink)
         /\ WithoutSink(m, h).usable = m.usable
<1>1. [made |-> TRUE, sink |-> NoSink, needs |-> FALSE] \in Hooks
  <2>1. NoSink \in Sinks \cup {NoSink}
    OBVIOUS
  <2> HIDE DEF NoSink
  <2> QED
    BY <2>1 DEF Hooks
<1>2. WithoutSink(m, h) \in Memory
  BY <1>1, MemoryFields DEF WithoutSink, Memory
<1>3. SameGlobals(WithoutSink(m, h), m)
  BY MemoryFields DEF WithoutSink, Memory, SameGlobals
<1>4. /\ WithoutSink(m, h).hooks =
           [m.hooks EXCEPT ![h] = [made |-> TRUE, sink |-> NoSink, needs |-> FALSE]]
      /\ WithoutSink(m, h).usable = m.usable
  BY DEF WithoutSink, Memory
<1>5. HooksSet(WithoutSink(m, h), m, h, NoSink)
  BY <1>4, MemoryFields DEF HooksSet
<1> QED
  BY <1>2, <1>3, <1>4, <1>5

LEMMA AfterForkFields ==
  ASSUME NEW m \in Memory
  PROVE  /\ AfterForkChild(m) \in Memory
         /\ SameGlobals(AfterForkChild(m), m)
         /\ \A h \in HookIds : /\ AfterForkChild(m).hooks[h].made = m.hooks[h].made
                             /\ AfterForkChild(m).hooks[h].needs = m.hooks[h].made
         /\ \A s \in Sinks : ~AfterForkChild(m).usable[s]
<1> DEFINE hooks == [h \in HookIds |-> [made |-> m.hooks[h].made, sink |-> NoSink,
                                      needs |-> m.hooks[h].made]]
<1>1. \A h \in HookIds : m.hooks[h].made \in BOOLEAN
  BY MemoryFields DEF Hooks
<1>2. hooks \in [HookIds -> Hooks]
  BY <1>1 DEF Hooks
<1>3. AfterForkChild(m).hooks = hooks /\ AfterForkChild(m).usable = [s \in Sinks |-> FALSE]
  BY DEF AfterForkChild, Memory
<1>4. SameGlobals(AfterForkChild(m), m)
  BY MemoryFields DEF AfterForkChild, Memory, SameGlobals
<1>5. AfterForkChild(m) \in Memory
  BY <1>2, MemoryFields DEF AfterForkChild, Memory
<1>6. ASSUME NEW h \in HookIds
      PROVE  /\ AfterForkChild(m).hooks[h].made = m.hooks[h].made
             /\ AfterForkChild(m).hooks[h].needs = m.hooks[h].made
  <2>1. AfterForkChild(m).hooks[h] =
          [made |-> m.hooks[h].made, sink |-> NoSink, needs |-> m.hooks[h].made]
    BY <1>3
  <2> QED
    BY <2>1
<1> QED
  BY <1>3, <1>4, <1>5, <1>6

\* One process's memory is replaced by another memory.
LEMMA Replaced ==
  ASSUME mem \in [Procs -> Memory], NEW p \in Procs, NEW n \in Memory,
         mem' = [mem EXCEPT ![p] = n]
  PROVE  /\ mem' \in [Procs -> Memory] /\ mem'[p] = n
         /\ \A q \in Procs : q # p => mem'[q] = mem[q]
OBVIOUS

\* A step of process p leaves what the invariant says of q alone.
Frame(p) ==
    \A q \in Procs : q # p =>
        /\ mem'[q] = mem[q] /\ at'[q] = at[q] /\ tries'[q] = tries[q]
        /\ resources'[q] = resources[q] /\ carried'[q] = carried[q]
        /\ \A h \in HookIds : opened'[<<h, q>>] = opened[<<h, q>>]
        /\ q \in alive' <=> q \in alive

\* Processes and calls of register_plugin only become more.
Growing ==
    /\ alive \subseteq alive' /\ commits \subseteq commits'
    /\ \A q \in Procs : tries'[q] \in Nat /\ tries[q] <= tries'[q]

LEMMA FrameKeeps ==
  ASSUME TypeOK, NEW p \in Procs, Frame(p), Growing,
         NEW q \in Procs, q # p, LocalInv(q)
  PROVE  LocalInv(q)'
<1>1. /\ mem'[q] = mem[q] /\ at'[q] = at[q] /\ tries'[q] = tries[q]
      /\ resources'[q] = resources[q] /\ carried'[q] = carried[q]
      /\ \A h \in HookIds : opened'[<<h, q>>] = opened[<<h, q>>]
      /\ q \in alive' <=> q \in alive
  BY DEF Frame
<1>2. Parentage(q)'
  <2>1. ASSUME NEW h \in HookIds, mem[q].hooks[h].made
        PROVE  h[1] \in alive' /\ h[2] <= tries'[h[1]]
    <3>1. h[1] \in Procs /\ h[2] \in Nat
      BY HookFields
    <3>2. h[1] \in alive /\ h[2] <= tries[h[1]] /\ tries[h[1]] \in Nat
      BY <2>1, <3>1 DEF LocalInv, Parentage, TypeOK
    <3> QED
      BY <3>1, <3>2 DEF Growing
  <2> QED
    BY <1>1, <2>1 DEF LocalInv, Parentage, Growing
<1>3. Registration(q)'
  BY <1>1 DEF LocalInv, Registration, Mine
<1>4. Observations(q)' /\ Unopened(q)'
  BY <1>1 DEF LocalInv, Observations, OwnObserver, Unopened
<1>5. Held(q)'
  <2>1. ASSUME NEW s \in Sinks, s[2] = q PROVE opened'[s] = opened[s]
    <3>1. s[1] \in HookIds /\ s = <<s[1], q>>
      BY <2>1, SinkFields
    <3> QED
      BY <1>1, <3>1
  <2>2. \A s \in Sinks : mem'[q].usable[s] => s[2] = q /\ opened'[s] > 0
    BY <1>1, <2>1 DEF LocalInv, Held
  <2> QED
    BY <1>1, <2>2 DEF LocalInv, Held
<1>6. FailureCommits(q)'
  <2>1. mem[q].factory # Nobody => mem[q].factory \in HookIds
    BY MemoryFields DEF TypeOK, Owner
  <2> QED
    BY <1>1, <2>1 DEF LocalInv, FailureCommits, Growing
<1> QED
  BY <1>2, <1>3, <1>4, <1>5, <1>6 DEF LocalInv

\* The records of a sink that is usable in p go to a shard that p has opened.
LEMMA WritableIsOwn ==
  ASSUME TypeOK, NEW p \in Procs, LocalInv(p), NEW h \in Owner, Writable(p, h)
  PROVE  /\ SinkOf(p, h) \in Sinks /\ SinkOf(p, h)[2] = p /\ opened[SinkOf(p, h)] > 0
         /\ h \in HookIds
<1>1. h \in HookIds
  BY DEF Writable, Enabled, SinkOf, Owner
<1>2. mem[p].hooks[h] \in Hooks
  BY <1>1, MemoryFields DEF TypeOK
<1>3. SinkOf(p, h) \in Sinks
  BY <1>1, <1>2 DEF Writable, Enabled, SinkOf, Hooks
<1> QED
  BY <1>1, <1>3 DEF Writable, LocalInv, Held

LEMMA EmitKeeps ==
  ASSUME TypeOK, OwnShardsOnly, NEW p \in Procs, LocalInv(p), NEW h \in Owner, Emit(p, h)
  PROVE  /\ wrote' \subseteq Procs \X Sinks
         /\ \A x \in wrote' : x[1] = x[2][2] /\ opened[x[2]] > 0
         /\ events' \in [Procs -> 0..MaxEvents]
<1>1. events' \in [Procs -> 0..MaxEvents]
  BY PluginAssumption DEF Emit, TypeOK
<1>2. CASE Writable(p, h)
  <2> DEFINE s == SinkOf(p, h)
  <2>1. s \in Sinks /\ s[2] = p /\ opened[s] > 0
    BY <1>2, WritableIsOwn
  <2>2. wrote' = wrote \cup {<<p, s>>}
    BY <1>2 DEF Emit
  <2> HIDE DEF s
  <2>3. wrote' \subseteq Procs \X Sinks
    BY <2>1, <2>2 DEF TypeOK
  <2>4. \A x \in wrote' : x[1] = x[2][2] /\ opened[x[2]] > 0
    BY <2>1, <2>2 DEF OwnShardsOnly
  <2> QED
    BY <1>1, <2>3, <2>4
<1>3. CASE ~Writable(p, h)
  <2>1. wrote' = wrote
    BY <1>3 DEF Emit
  <2> QED
    BY <1>1, <2>1 DEF TypeOK, OwnShardsOnly
<1> QED
  BY <1>2, <1>3

-----------------------------------------------------------------------------
(* The steps of one process                                                *)

LEMMA LocalStep ==
  ASSUME IInv, NEW p \in Procs, Frame(p), Growing,
         TypeOK', OwnShardsOnly', LocalInv(p)'
  PROVE  IInv'
<1>1. ASSUME NEW q \in Procs, q # p PROVE LocalInv(q)'
  BY <1>1, FrameKeeps DEF IInv
<1> QED
  BY <1>1 DEF IInv

\* Records and commits stay with the shards they belong to.
LEMMA OwnKept ==
  ASSUME TypeOK, OwnShardsOnly, wrote' = wrote, commits' = commits,
         \A s \in Sinks : opened[s] > 0 => opened'[s] > 0
  PROVE  OwnShardsOnly'
BY DEF OwnShardsOnly, TypeOK

\* Opening a shard that was not opened in this process before.
LEMMA OpenedOnce ==
  ASSUME TypeOK, NEW h \in HookIds, NEW p \in Procs, opened[<<h, p>>] = 0,
         opened' = [opened EXCEPT ![<<h, p>>] = @ + 1]
  PROVE  /\ opened' \in [Sinks -> Nat] /\ opened'[<<h, p>>] = 1
         /\ \A s \in Sinks : s # <<h, p>> => opened'[s] = opened[s]
         /\ \A s \in Sinks : opened[s] > 0 => opened'[s] > 0
         /\ \A g \in HookIds, q \in Procs : (g # h \/ q # p) => opened'[<<g, q>>] = opened[<<g, q>>]
<1>1. <<h, p>> \in Sinks /\ opened \in [Sinks -> Nat]
  BY SinkPairs DEF TypeOK
<1>2. /\ opened' \in [Sinks -> Nat] /\ opened'[<<h, p>>] = 1
      /\ \A s \in Sinks : s # <<h, p>> => opened'[s] = opened[s]
  BY <1>1
<1>3. \A g \in HookIds, q \in Procs : (g # h \/ q # p) => <<g, q>> \in Sinks /\ <<g, q>> # <<h, p>>
  BY SinkPairs
<1> QED
  BY <1>1, <1>2, <1>3

\* The hooks object h opens a shard in p, or fails to: p's memory is n then.
OpensOrNot(p, h, n) ==
    /\ mem' = [mem EXCEPT ![p] = n]
    /\ \/ n = WithSink(mem[p], p, h) /\ opened' = [opened EXCEPT ![<<h, p>>] = @ + 1]
       \/ n = WithoutSink(mem[p], h) /\ opened' = opened

LEMMA HeldAfterOpening ==
  ASSUME TypeOK, NEW p \in Procs, NEW h \in HookIds, NEW n, Held(p), at[p] # "failed",
         opened[<<h, p>>] = 0, OpensOrNot(p, h, n)
  PROVE  /\ n \in Memory /\ SameGlobals(n, mem[p])
         /\ \E s : HooksSet(n, mem[p], h, s)
         /\ opened' \in [Sinks -> Nat]
         /\ \A s \in Sinks : opened[s] > 0 => opened'[s] > 0
         /\ \A g \in HookIds, q \in Procs : (g # h \/ q # p) => opened'[<<g, q>>] = opened[<<g, q>>]
         /\ Held(p)'
<1>1. mem[p] \in Memory
  BY DEF TypeOK
<1>2. CASE n = WithSink(mem[p], p, h) /\ opened' = [opened EXCEPT ![<<h, p>>] = @ + 1]
  <2>1. /\ n \in Memory /\ SameGlobals(n, mem[p]) /\ HooksSet(n, mem[p], h, <<h, p>>)
        /\ n.usable[<<h, p>>]
        /\ \A s \in Sinks : s # <<h, p>> => n.usable[s] = mem[p].usable[s]
    BY <1>1, <1>2, WithSinkFields
  <2>2. mem'[p] = n
    BY <2>1, Replaced DEF TypeOK, OpensOrNot
  <2>3. /\ opened' \in [Sinks -> Nat] /\ opened'[<<h, p>>] = 1
        /\ \A s \in Sinks : s # <<h, p>> => opened'[s] = opened[s]
        /\ \A s \in Sinks : opened[s] > 0 => opened'[s] > 0
        /\ \A g \in HookIds, q \in Procs : (g # h \/ q # p) => opened'[<<g, q>>] = opened[<<g, q>>]
    BY <1>2, OpenedOnce
  <2>4. ASSUME NEW g \in HookIds
        PROVE  /\ opened'[<<g, p>>] <= 1
               /\ opened'[<<g, p>>] > 0 => n.hooks[g].sink = <<g, p>> /\ n.usable[<<g, p>>]
    <3>1. CASE g = h
      BY <2>1, <2>3, <3>1 DEF HooksSet
    <3>2. CASE g # h
      <4>1. <<g, p>> \in Sinks /\ <<g, p>> # <<h, p>>
        BY <3>2, SinkPairs
      <4> QED
        BY <2>1, <2>3, <3>2, <4>1 DEF HooksSet, Held
    <3> QED
      BY <3>1, <3>2
  <2>5. ASSUME NEW s \in Sinks, n.usable[s] PROVE s[2] = p /\ opened'[s] > 0
    <3>1. CASE s = <<h, p>>
      BY <2>3, <3>1
    <3>2. CASE s # <<h, p>>
      BY <2>1, <2>3, <2>5, <3>2 DEF Held
    <3> QED
      BY <3>1, <3>2
  <2>6. Held(p)'
    BY <2>2, <2>4, <2>5 DEF Held
  <2> QED
    BY <2>1, <2>3, <2>6
<1>3. CASE n = WithoutSink(mem[p], h) /\ opened' = opened
  <2>1. /\ n \in Memory /\ SameGlobals(n, mem[p]) /\ HooksSet(n, mem[p], h, NoSink)
        /\ n.usable = mem[p].usable
    BY <1>1, <1>3, WithoutSinkFields
  <2>2. mem'[p] = n
    BY <2>1, Replaced DEF TypeOK, OpensOrNot
  <2>3. Held(p)'
    BY <1>3, <2>1, <2>2 DEF Held, HooksSet
  <2>4. opened' \in [Sinks -> Nat]
    BY <1>3 DEF TypeOK
  <2> QED
    BY <1>3, <2>1, <2>3, <2>4
<1> QED
  BY <1>2, <1>3 DEF OpensOrNot

LEMMA Stuttering ==
  ASSUME IInv, UNCHANGED vars
  PROVE  IInv'
<1>1. UNCHANGED <<mem, alive, at, tries, wrote, commits, events, resources, carried, opened>>
  BY DEF vars
<1>2. TypeOK' /\ OwnShardsOnly'
  BY <1>1 DEF IInv, TypeOK, OwnShardsOnly
<1>3. ASSUME NEW p \in Procs PROVE LocalInv(p)'
  BY <1>1 DEF IInv, LocalInv, Parentage, Registration, Mine, Observations, OwnObserver,
              Unopened, Held, FailureCommits
<1> QED
  BY <1>2, <1>3 DEF IInv

LEMMA RegisterBeginKeeps ==
  ASSUME IInv, NEW p \in Procs, RegisterBegin(p)
  PROVE  IInv'
<1> USE DEF IInv
<1> DEFINE h == <<p, tries[p] + 1>>
<1>1. /\ LocalInv(p) /\ p \in alive /\ at[p] = "idle" /\ mem[p].pid # p
      /\ tries[p] \in 0..MaxTries /\ tries[p] + 1 \in 1..MaxTries /\ tries[p] < tries[p] + 1
  BY PluginAssumption DEF RegisterBegin, TypeOK
<1>2. h \in HookIds /\ h[1] = p /\ h[2] = tries[p] + 1
  BY <1>1, HookFields
<1>3. PICK n : OpensOrNot(p, h, n)
  BY DEF RegisterBegin, OpensOrNot
<1>4. /\ at' = [at EXCEPT ![p] = "native"] /\ tries' = [tries EXCEPT ![p] = @ + 1]
      /\ UNCHANGED <<alive, wrote, commits, events, resources, carried>>
  BY DEF RegisterBegin, countVars
<1>5. h[2] > tries[p]
  BY <1>1, <1>2
<1> HIDE DEF h
<1>6. /\ at'[p] = "native" /\ \A q \in Procs : q # p => at'[q] = at[q]
      /\ at' \in [Procs -> {"idle", "native", "factory", "observer", "failed"}]
      /\ tries' \in [Procs -> 0..MaxTries] /\ tries'[p] = tries[p] + 1
      /\ \A q \in Procs : q # p => tries'[q] = tries[q]
  BY <1>1, <1>4 DEF TypeOK
<1>7. opened[<<h, p>>] = 0 /\ Held(p)
  BY <1>1, <1>2, <1>5 DEF LocalInv, Unopened
<1>8. /\ n \in Memory /\ SameGlobals(n, mem[p])
      /\ \E s : HooksSet(n, mem[p], h, s)
      /\ opened' \in [Sinks -> Nat]
      /\ \A s \in Sinks : opened[s] > 0 => opened'[s] > 0
      /\ \A g \in HookIds, q \in Procs : (g # h \/ q # p) => opened'[<<g, q>>] = opened[<<g, q>>]
      /\ Held(p)'
  BY <1>1, <1>2, <1>3, <1>7, HeldAfterOpening
<1>9. /\ mem' \in [Procs -> Memory] /\ mem'[p] = n
      /\ \A q \in Procs : q # p => mem'[q] = mem[q]
  BY <1>3, <1>8, Replaced DEF TypeOK, OpensOrNot
<1>10. TypeOK'
  BY <1>4, <1>6, <1>8, <1>9 DEF TypeOK
<1>11. Frame(p)
  BY <1>4, <1>6, <1>8, <1>9 DEF Frame
<1>12. Growing
  BY <1>1, <1>4, <1>6 DEF Growing, TypeOK
<1>13. Parentage(p)'
  <2>1. ASSUME NEW g \in HookIds, n.hooks[g].made PROVE g[1] \in alive /\ g[2] <= tries'[g[1]]
    <3>1. CASE g = h
      BY <1>1, <1>2, <1>6, <3>1
    <3>2. CASE g # h
      <4>1. g[1] \in alive /\ g[2] <= tries[g[1]]
        BY <1>1, <1>8, <2>1, <3>2 DEF LocalInv, Parentage, HooksSet
      <4> QED
        BY <1>12, <4>1, HookFields DEF Growing, TypeOK
    <3> QED
      BY <3>1, <3>2
  <2> QED
    BY <1>1, <1>4, <1>8, <1>9, <2>1 DEF LocalInv, Parentage, SameGlobals
<1>14. Registration(p)'
  BY <1>1, <1>4, <1>6, <1>8, <1>9 DEF LocalInv, Registration, SameGlobals
<1>15. Observations(p)'
  BY <1>1, <1>4, <1>8, <1>9 DEF LocalInv, Observations, OwnObserver, SameGlobals
<1>16. Unopened(p)'
  <2>1. ASSUME NEW g \in HookIds, n.hooks[g].needs
        PROVE  n.hooks[g].made /\ opened'[<<g, p>>] = 0
    BY <1>1, <1>8, <2>1 DEF LocalInv, Unopened, HooksSet
  <2>2. ASSUME NEW g \in HookIds, g[1] = p, g[2] > tries'[p] PROVE opened'[<<g, p>>] = 0
    <3>1. g # h /\ g[2] > tries[p]
      BY <1>1, <1>2, <1>6, <2>2, HookFields
    <3> QED
      BY <1>1, <1>8, <2>2, <3>1 DEF LocalInv, Unopened
  <2> QED
    BY <1>1, <1>4, <1>9, <2>1, <2>2 DEF Unopened
<1>17. FailureCommits(p)'
  BY <1>6 DEF FailureCommits
<1>18. OwnShardsOnly'
  BY <1>4, <1>8, OwnKept
<1> QED
  BY <1>8, <1>10, <1>11, <1>12, <1>13, <1>14, <1>15, <1>16, <1>17, <1>18, LocalStep DEF LocalInv

LEMMA ReinitializeKeeps ==
  ASSUME IInv, NEW p \in Procs, Reinitialize(p)
  PROVE  IInv'
<1> USE DEF IInv
<1> DEFINE h == mem[p].registry
<1>1. LocalInv(p) /\ p \in alive /\ at[p] = "idle" /\ h # Nobody
  BY DEF Reinitialize
<1>2. h \in HookIds
  BY <1>1, MemoryFields DEF TypeOK, Owner
<1>3. UNCHANGED <<alive, at, tries, wrote, commits, events, resources, carried>>
  BY DEF Reinitialize, countVars
<1>4. CASE mem[p].hooks[h].needs
  <2>1. PICK n : OpensOrNot(p, h, n)
    BY <1>1, <1>4 DEF Reinitialize, CanReinitialize, OpensOrNot
  <2>2. /\ mem[p].hooks[h].made /\ opened[<<h, p>>] = 0
        /\ h[1] \in alive /\ h[2] <= tries[h[1]] /\ Held(p)
    BY <1>1, <1>2, <1>4 DEF LocalInv, Unopened, Parentage
  <2> HIDE DEF h
  <2>3. /\ n \in Memory /\ SameGlobals(n, mem[p])
        /\ \E s : HooksSet(n, mem[p], h, s)
        /\ opened' \in [Sinks -> Nat]
        /\ \A s \in Sinks : opened[s] > 0 => opened'[s] > 0
        /\ \A g \in HookIds, q \in Procs : (g # h \/ q # p) => opened'[<<g, q>>] = opened[<<g, q>>]
        /\ Held(p)'
    BY <1>1, <1>2, <2>1, <2>2, HeldAfterOpening
  <2>4. /\ mem' \in [Procs -> Memory] /\ mem'[p] = n
        /\ \A q \in Procs : q # p => mem'[q] = mem[q]
    BY <2>1, <2>3, Replaced DEF TypeOK, OpensOrNot
  <2>5. TypeOK'
    BY <1>3, <2>3, <2>4 DEF TypeOK
  <2>6. Frame(p)
    BY <1>3, <2>3, <2>4 DEF Frame
  <2>7. Parentage(p)'
    BY <1>1, <1>2, <1>3, <2>2, <2>3, <2>4 DEF LocalInv, Parentage, SameGlobals, HooksSet
  <2>8. Registration(p)' /\ Observations(p)'
    BY <1>1, <1>3, <2>3, <2>4
    DEF LocalInv, Registration, Observations, SameGlobals, Mine, OwnObserver
  <2>11. Unopened(p)'
    <3>1. ASSUME NEW g \in HookIds, n.hooks[g].needs
          PROVE  n.hooks[g].made /\ opened'[<<g, p>>] = 0
      BY <1>1, <2>3, <3>1 DEF LocalInv, Unopened, HooksSet
    <3>2. ASSUME NEW g \in HookIds, g[1] = p, g[2] > tries[p] PROVE opened'[<<g, p>>] = 0
      <4>1. g # h
        BY <2>2, <3>2, <1>2, HookFields DEF TypeOK
      <4> QED
        BY <1>1, <2>3, <3>2, <4>1 DEF LocalInv, Unopened
    <3> QED
      BY <1>1, <1>3, <2>4, <3>1, <3>2 DEF Unopened
  <2>12. Growing
    BY <1>3 DEF Growing, TypeOK
  <2>9. FailureCommits(p)'
    BY <1>1, <1>3 DEF FailureCommits
  <2>10. OwnShardsOnly'
    BY <1>3, <2>3, OwnKept
  <2> QED
    BY <2>3, <2>5, <2>6, <2>7, <2>8, <2>9, <2>10, <2>11, <2>12, LocalStep DEF LocalInv
<1>5. CASE ~mem[p].hooks[h].needs
  <2>1. UNCHANGED vars
    BY <1>3, <1>5 DEF Reinitialize, CanReinitialize, vars, shardVars, countVars
  <2> QED
    BY <2>1, Stuttering
<1> QED
  BY <1>4, <1>5

\* A child starts with its parent's globals, but without a usable sink.
LEMMA ForkKeeps ==
  ASSUME IInv, NEW p \in Procs, NEW q \in Procs, Fork(p, q)
  PROVE  IInv'
<1> USE DEF IInv
<1> DEFINE n == AfterForkChild(mem[p])
<1>1. LocalInv(p) /\ LocalInv(q) /\ p \in alive /\ q \notin alive
  BY DEF Fork
<1>2. /\ alive' = alive \cup {q} /\ mem' = [mem EXCEPT ![q] = n]
      /\ carried' = [carried EXCEPT ![q] = mem[p].observed]
      /\ UNCHANGED <<at, tries, wrote, commits, events, resources, opened>>
  BY DEF Fork, shardVars
<1>3. /\ n \in Memory /\ SameGlobals(n, mem[p])
      /\ \A h \in HookIds : /\ n.hooks[h].made = mem[p].hooks[h].made
                          /\ n.hooks[h].needs = mem[p].hooks[h].made
      /\ \A s \in Sinks : ~n.usable[s]
  BY AfterForkFields DEF TypeOK
<1> HIDE DEF n
<1>4. /\ mem' \in [Procs -> Memory] /\ mem'[q] = n
      /\ \A r \in Procs : r # q => mem'[r] = mem[r]
  BY <1>2, <1>3, Replaced DEF TypeOK
<1>5. /\ carried' \in [Procs -> Nat] /\ carried'[q] = mem[p].observed
      /\ \A r \in Procs : r # q => carried'[r] = carried[r]
  BY <1>2, MemoryFields DEF TypeOK
<1>6. TypeOK'
  BY <1>2, <1>4, <1>5 DEF TypeOK
<1>7. Frame(q)
  BY <1>2, <1>4, <1>5 DEF Frame
<1>8. Growing
  BY <1>2 DEF Growing, TypeOK
<1>9. at[q] = "idle" /\ \A h \in HookIds : opened[<<h, q>>] = 0
  BY <1>1 DEF LocalInv, Registration, Unopened, TypeOK
<1>10. mem[q].pid # q /\ n.pid # q
  BY <1>1, <1>3, HookFields DEF LocalInv, Parentage, SameGlobals
<1>11. resources[q] = 0
  BY <1>1, <1>10 DEF LocalInv, Observations
<1>12. Parentage(q)'
  <2>1. \A h \in HookIds : n.hooks[h].made => mem[p].hooks[h].made
    BY <1>3
  <2>2. \A h \in HookIds : n.hooks[h].made => h[1] \in alive' /\ h[2] <= tries'[h[1]]
    BY <1>1, <1>2, <2>1 DEF LocalInv, Parentage
  <2>3. n.pid \in alive' \cup {None} /\ (n.observer # Nobody => n.observer[1] \in alive')
    BY <1>1, <1>2, <1>3 DEF LocalInv, Parentage, SameGlobals
  <2> QED
    BY <1>4, <2>2, <2>3 DEF Parentage
<1>13. Registration(q)'
  BY <1>1, <1>2, <1>3, <1>4, <1>9, <1>10 DEF LocalInv, Registration, SameGlobals
<1>14. Observations(q)'
  <2>1. ~OwnObserver(q)'
    <3>1. n.observer # Nobody => n.observer[1] # q
      BY <1>1, <1>3 DEF LocalInv, Parentage, SameGlobals
    <3>2. \A i \in 1..MaxTries : <<q, i>>[1] = q /\ <<q, i>> # Nobody
      BY HookFields
    <3> QED
      BY <1>4, <3>1, <3>2 DEF OwnObserver
  <2>2. n.observed = carried'[q] + resources'[q]
    BY <1>2, <1>3, <1>5, <1>11, MemoryFields DEF SameGlobals, TypeOK
  <2> QED
    BY <1>2, <1>4, <1>11, <2>1, <2>2 DEF Observations
<1>15. Unopened(q)'
  BY <1>2, <1>3, <1>4, <1>9 DEF Unopened
<1>16. Held(q)' /\ FailureCommits(q)'
  BY <1>2, <1>3, <1>4, <1>9 DEF Held, FailureCommits
<1>17. OwnShardsOnly'
  BY <1>2, OwnKept
<1> QED
  BY <1>6, <1>7, <1>8, <1>12, <1>13, <1>14, <1>15, <1>16, <1>17, LocalStep DEF LocalInv

\* A step that changes globals of p only: not its hooks, sinks or shards.
GlobalsStep(p, n) ==
    /\ n \in Memory /\ mem' = [mem EXCEPT ![p] = n]
    /\ n.hooks = mem[p].hooks /\ n.usable = mem[p].usable
    /\ UNCHANGED <<alive, tries, wrote, commits, events, resources, opened>>
    /\ at' \in [Procs -> {"idle", "native", "factory", "observer", "failed"}]
    /\ carried' \in [Procs -> Nat]
    /\ \A q \in Procs : q # p => at'[q] = at[q] /\ carried'[q] = carried[q]
    /\ at[p] # "failed" /\ at'[p] # "failed"

LEMMA GlobalsKeep ==
  ASSUME IInv, NEW p \in Procs, NEW n, GlobalsStep(p, n),
         n.pid \in {mem[p].pid, p}, n.observer \in {mem[p].observer, Mine(p)}, p \in alive,
         Registration(p)', Observations(p)'
  PROVE  IInv'
<1> USE DEF IInv
<1>1. /\ mem' \in [Procs -> Memory] /\ mem'[p] = n
      /\ \A q \in Procs : q # p => mem'[q] = mem[q]
  BY Replaced DEF TypeOK, GlobalsStep
<1>2. TypeOK'
  BY <1>1 DEF TypeOK, GlobalsStep
<1>3. Frame(p) /\ Growing
  BY <1>1 DEF Frame, Growing, GlobalsStep, TypeOK
<1>4. Parentage(p)' /\ Unopened(p)'
  <2>1. /\ mem'[p].hooks = mem[p].hooks /\ mem'[p].pid = n.pid /\ mem'[p].observer = n.observer
        /\ alive' = alive /\ tries' = tries /\ opened' = opened
    BY <1>1 DEF GlobalsStep
  <2>2. Parentage(p) /\ Unopened(p) /\ Mine(p)[1] = p
    BY DEF LocalInv, Mine
  <2>3. n.observer # Nobody => n.observer[1] \in alive
    BY <2>2 DEF Parentage
  <2> QED
    BY <2>1, <2>2, <2>3 DEF Parentage, Unopened
<1>5. Held(p)' /\ FailureCommits(p)'
  <2>1. /\ mem'[p].hooks = mem[p].hooks /\ mem'[p].usable = mem[p].usable
        /\ opened' = opened /\ at[p] # "failed" /\ at'[p] # "failed"
    BY <1>1 DEF GlobalsStep
  <2>2. Held(p)
    BY DEF LocalInv
  <2> QED
    BY <2>1, <2>2 DEF Held, FailureCommits
<1>6. OwnShardsOnly'
  BY OwnKept DEF GlobalsStep
<1> QED
  BY <1>2, <1>3, <1>4, <1>5, <1>6, LocalStep DEF LocalInv

\* A call of register_plugin that has begun is named by a hooks object.
LEMMA MineIsHooks ==
  ASSUME IInv, NEW p \in Procs, at[p] \in {"native", "factory", "observer"}
  PROVE  /\ Mine(p) \in HookIds /\ Mine(p) \in Owner /\ Mine(p) # Nobody
         /\ p \in alive /\ mem[p].pid # p /\ LocalInv(p) /\ mem[p] \in Memory
<1>1. LocalInv(p) /\ mem[p] \in Memory /\ tries[p] \in 0..MaxTries
  BY DEF IInv, TypeOK
<1>2. tries[p] > 0 /\ p \in alive /\ mem[p].pid # p
  BY <1>1 DEF LocalInv, Registration
<1>3. tries[p] \in 1..MaxTries
  BY <1>1, <1>2, PluginAssumption
<1>4. Mine(p) \in HookIds
  BY <1>3, HookFields DEF Mine
<1> QED
  BY <1>1, <1>2, <1>4, HookFields DEF Owner

LEMMA RegisterNativeKeeps ==
  ASSUME IInv, NEW p \in Procs, RegisterNative(p)
  PROVE  IInv'
<1> USE DEF IInv
<1> DEFINE m == mem[p]
           h == Mine(p)
           n == [m EXCEPT !.bus = BusAfter(p), !.native = h]
<1>1. /\ m \in Memory /\ LocalInv(p) /\ at[p] = "native"
      /\ h \in Owner /\ h # Nobody /\ p \in alive /\ m.pid # p
  BY MineIsHooks DEF TypeOK, RegisterNative
<1>2. BusAfter(p) = {h}
  BY <1>1 DEF BusAfter, BusWithout, LocalInv, Registration
<1>3. h = Mine(p)
  OBVIOUS
<1>4. mem' = [mem EXCEPT ![p] = n] /\ at' = [at EXCEPT ![p] = "factory"]
      /\ UNCHANGED <<alive, tries, wrote, commits, events, resources, carried, opened>>
  BY DEF RegisterNative, shardVars, countVars
<1> HIDE DEF h
<1>5. n \in Memory
  BY <1>1, <1>2, MemoryFields DEF Memory
<1>6. /\ n.pid = m.pid /\ n.observer = m.observer /\ n.observed = m.observed
      /\ n.bus = {h} /\ n.native = h /\ n.hooks = m.hooks /\ n.usable = m.usable
  BY <1>1, <1>2 DEF Memory
<1> HIDE DEF n
<1>7. mem'[p] = n /\ at'[p] = "factory"
  BY <1>4 DEF TypeOK
<1>8. GlobalsStep(p, n)
  BY <1>1, <1>4, <1>5, <1>6 DEF GlobalsStep, TypeOK
<1>9. tries[p] > 0
  BY <1>1 DEF LocalInv, Registration
<1>10. Mine(p)' = h
  BY <1>3, <1>4 DEF Mine
<1>11. Registration(p)'
  BY <1>1, <1>4, <1>6, <1>7, <1>9, <1>10 DEF Registration
<1>12. Observations(p)'
  BY <1>1, <1>4, <1>6, <1>7 DEF LocalInv, Observations, OwnObserver
<1> QED
  BY <1>1, <1>6, <1>8, <1>11, <1>12, GlobalsKeep

\* A call that raises leaves no sink on the bus but the one _NATIVE_EVENT_SINK
\* names, so that the next call takes it away, or finds it gone.
LEMMA RegisterNativeRaisesKeeps ==
  ASSUME IInv, NEW p \in Procs, RegisterNativeRaises(p)
  PROVE  IInv'
<1> USE DEF IInv
<1> DEFINE m == mem[p]
<1>1. m \in Memory /\ LocalInv(p) /\ at[p] = "native" /\ p \in alive /\ m.pid # p
  BY MineIsHooks DEF RegisterNativeRaises
<1>2. PICK bus \in {m.bus, BusWithout(p)} : mem' = [mem EXCEPT ![p].bus = bus]
  BY DEF RegisterNativeRaises
<1> DEFINE n == [m EXCEPT !.bus = bus]
<1>3. bus \subseteq m.bus /\ bus \subseteq Owner
  BY <1>1, <1>2, MemoryFields DEF BusWithout
<1>4. n \in Memory
  BY <1>1, <1>3, MemoryFields DEF Memory
<1>5. /\ n.pid = m.pid /\ n.observer = m.observer /\ n.observed = m.observed
      /\ n.bus = bus /\ n.native = m.native /\ n.hooks = m.hooks /\ n.usable = m.usable
  BY <1>1 DEF Memory
<1>6. mem' = [mem EXCEPT ![p] = n] /\ at' = [at EXCEPT ![p] = "idle"]
      /\ UNCHANGED <<alive, tries, wrote, commits, events, resources, carried, opened>>
  BY <1>2 DEF RegisterNativeRaises, shardVars, countVars
<1> HIDE DEF n
<1>7. mem'[p] = n /\ at'[p] = "idle"
  BY <1>6 DEF TypeOK
<1>8. GlobalsStep(p, n)
  BY <1>1, <1>4, <1>5, <1>6 DEF GlobalsStep, TypeOK
<1>9. Registration(p)'
  BY <1>1, <1>3, <1>5, <1>6, <1>7 DEF LocalInv, Registration
<1>10. Observations(p)'
  BY <1>1, <1>5, <1>6, <1>7 DEF LocalInv, Observations, OwnObserver
<1> QED
  BY <1>1, <1>5, <1>8, <1>9, <1>10, GlobalsKeep

LEMMA RegisterFactoryKeeps ==
  ASSUME IInv, NEW p \in Procs, RegisterFactory(p)
  PROVE  IInv'
<1> USE DEF IInv
<1> DEFINE m == mem[p]
           h == Mine(p)
           made == [m EXCEPT !.factory = h, !.registry = h]
<1>1. /\ m \in Memory /\ LocalInv(p) /\ at[p] = "factory"
      /\ h \in Owner /\ p \in alive /\ m.pid # p
  BY MineIsHooks DEF RegisterFactory
<1>2. PICK n \in {made, m} : mem' = [mem EXCEPT ![p] = n]
  <2>1. mem = [mem EXCEPT ![p] = m]
    BY DEF TypeOK
  <2> QED
    BY <2>1 DEF RegisterFactory
<1>3. at' = [at EXCEPT ![p] = "observer"]
      /\ UNCHANGED <<alive, tries, wrote, commits, events, resources, carried, opened>>
  BY DEF RegisterFactory, shardVars, countVars
<1> HIDE DEF h
<1>4. made \in Memory
  BY <1>1, MemoryFields DEF Memory
<1>5. n \in Memory
  BY <1>1, <1>2, <1>4
<1>6. /\ n.pid = m.pid /\ n.observer = m.observer /\ n.observed = m.observed
      /\ n.bus = m.bus /\ n.native = m.native /\ n.hooks = m.hooks /\ n.usable = m.usable
  BY <1>1, <1>2 DEF Memory
<1> HIDE DEF made
<1>7. mem'[p] = n /\ at'[p] = "observer"
  BY <1>2, <1>3 DEF TypeOK
<1>8. GlobalsStep(p, n)
  BY <1>1, <1>2, <1>3, <1>5, <1>6 DEF GlobalsStep, TypeOK
<1>9. Registration(p)'
  BY <1>1, <1>3, <1>6, <1>7 DEF LocalInv, Registration, Mine
<1>10. Observations(p)'
  BY <1>1, <1>3, <1>6, <1>7 DEF LocalInv, Observations, OwnObserver
<1> QED
  BY <1>1, <1>6, <1>8, <1>9, <1>10, GlobalsKeep

\* An observer of this process's own starts at 0 and replaces the inherited one,
\* with what that had brought.
LEMMA RegisterObserverKeeps ==
  ASSUME IInv, NEW p \in Procs, RegisterObserver(p)
  PROVE  IInv'
<1> USE DEF IInv
<1> DEFINE m == mem[p]
           h == Mine(p)
           made == [m EXCEPT !.observer = h, !.observed = 0, !.pid = p, !.current = h]
           kept == [m EXCEPT !.pid = p, !.current = h]
<1>1. /\ m \in Memory /\ LocalInv(p) /\ at[p] = "observer"
      /\ h \in Owner /\ h = Mine(p) /\ p \in alive /\ m.pid # p /\ 0 \in 0..Capacity
  BY MineIsHooks, PluginAssumption DEF RegisterObserver
<1>2. /\ \/ mem' = [mem EXCEPT ![p] = made] /\ carried' = [carried EXCEPT ![p] = 0]
         \/ mem' = [mem EXCEPT ![p] = kept] /\ carried' = carried
      /\ at' = [at EXCEPT ![p] = "idle"]
      /\ UNCHANGED <<alive, tries, wrote, commits, events, resources, opened>>
  BY DEF RegisterObserver, shardVars
<1>3. resources[p] = 0 /\ tries[p] > 0 /\ m.native \in {h, Nobody}
      /\ m.bus \subseteq {m.native} \ {Nobody}
  BY <1>1 DEF LocalInv, Registration, Observations
<1> HIDE DEF h
<1>4. made \in Memory /\ kept \in Memory
  BY <1>1, MemoryFields DEF Memory
<1>5. /\ made.pid = p /\ made.observer = h /\ made.observed = 0 /\ made.bus = m.bus
      /\ made.native = m.native /\ made.hooks = m.hooks /\ made.usable = m.usable
  BY <1>1 DEF Memory
<1>6. /\ kept.pid = p /\ kept.observer = m.observer /\ kept.observed = m.observed
      /\ kept.bus = m.bus /\ kept.native = m.native /\ kept.hooks = m.hooks
      /\ kept.usable = m.usable
  BY <1>1 DEF Memory
<1> HIDE DEF made, kept
<1>7. PICK n \in {made, kept} :
        /\ mem' = [mem EXCEPT ![p] = n]
        /\ \/ n = made /\ carried' = [carried EXCEPT ![p] = 0]
           \/ n = kept /\ carried' = carried
  BY <1>2
<1>8. /\ n \in Memory /\ n.pid = p /\ n.observer \in {m.observer, h} /\ n.bus = m.bus
      /\ n.native = m.native /\ n.hooks = m.hooks /\ n.usable = m.usable
  BY <1>4, <1>5, <1>6, <1>7
<1>9. mem'[p] = n /\ at'[p] = "idle"
  BY <1>2, <1>7 DEF TypeOK
<1>10. /\ carried' \in [Procs -> Nat]
       /\ \A q \in Procs : q # p => carried'[q] = carried[q]
  BY <1>7 DEF TypeOK
<1>11. GlobalsStep(p, n)
  BY <1>1, <1>2, <1>7, <1>8, <1>9, <1>10 DEF GlobalsStep, TypeOK
<1>12. Mine(p)' = h
  BY <1>1, <1>2 DEF Mine
<1>13. Registration(p)'
  BY <1>1, <1>2, <1>3, <1>8, <1>9, <1>12 DEF Registration
<1>14. Observations(p)'
  <2>1. CASE n = made /\ carried' = [carried EXCEPT ![p] = 0]
    <3>1. carried'[p] = 0
      BY <2>1 DEF TypeOK
    <3> QED
      BY <1>2, <1>3, <1>5, <1>8, <1>9, <2>1, <3>1 DEF Observations
  <2>2. CASE n = kept /\ carried' = carried
    BY <1>1, <1>2, <1>3, <1>6, <1>9, <2>2 DEF LocalInv, Observations, OwnObserver
  <2> QED
    BY <1>7, <2>1, <2>2
<1> QED
  BY <1>1, <1>8, <1>11, <1>13, <1>14, GlobalsKeep

LEMMA CloseNativeKeeps ==
  ASSUME IInv, NEW p \in Procs, CloseNative(p)
  PROVE  IInv'
<1> USE DEF IInv
<1> DEFINE m == mem[p]
           n == [m EXCEPT !.bus = BusWithout(p), !.native = Nobody]
<1>1. m \in Memory /\ LocalInv(p) /\ at[p] = "idle" /\ p \in alive
  BY DEF TypeOK, CloseNative
<1>2. BusWithout(p) = {} /\ Nobody \in Owner
  BY <1>1 DEF LocalInv, Registration, BusWithout, Owner
<1>3. mem' = [mem EXCEPT ![p] = n]
      /\ UNCHANGED <<alive, at, tries, wrote, commits, events, resources, carried, opened>>
  BY DEF CloseNative, shardVars, countVars
<1>4. n \in Memory
  BY <1>1, <1>2, MemoryFields DEF Memory
<1>5. /\ n.pid = m.pid /\ n.observer = m.observer /\ n.observed = m.observed
      /\ n.bus = {} /\ n.native = Nobody /\ n.hooks = m.hooks
      /\ n.usable = m.usable
  BY <1>1, <1>2 DEF Memory
<1> HIDE DEF n
<1>6. mem'[p] = n
  BY <1>3 DEF TypeOK
<1>7. GlobalsStep(p, n)
  BY <1>1, <1>3, <1>4, <1>5 DEF GlobalsStep, TypeOK
<1>8. Registration(p)'
  BY <1>1, <1>3, <1>5, <1>6 DEF LocalInv, Registration
<1>9. Observations(p)'
  BY <1>1, <1>3, <1>5, <1>6 DEF LocalInv, Observations, OwnObserver
<1> QED
  BY <1>1, <1>5, <1>7, <1>8, <1>9, GlobalsKeep

-----------------------------------------------------------------------------
(* Records and the engine's failure                                        *)

\* A record written through any hooks object that p knows.
LEMMA WrittenKeeps ==
  ASSUME IInv, NEW p \in Procs, NEW h \in Owner, Emit(p, h),
         UNCHANGED <<mem, alive, at, tries, commits, resources, carried, opened>>
  PROVE  IInv'
<1> USE DEF IInv
<1>1. /\ wrote' \subseteq Procs \X Sinks
      /\ \A x \in wrote' : x[1] = x[2][2] /\ opened[x[2]] > 0
      /\ events' \in [Procs -> 0..MaxEvents]
  BY EmitKeeps
<1>2. TypeOK'
  BY <1>1 DEF TypeOK
<1>3. OwnShardsOnly'
  BY <1>1 DEF OwnShardsOnly
<1>4. ASSUME NEW q \in Procs PROVE LocalInv(q)'
  <2>1. LocalInv(q)
    OBVIOUS
  <2> QED
    BY <2>1 DEF LocalInv, Parentage, Registration, Mine, Observations, OwnObserver,
                Unopened, Held, FailureCommits
<1> QED
  BY <1>2, <1>3, <1>4

LEMMA NativeEventKeeps ==
  ASSUME IInv, NEW p \in Procs, NativeEvent(p)
  PROVE  IInv'
<1>1. PICK h \in mem[p].bus : Emit(p, h)
  BY DEF NativeEvent
<1>2. h \in Owner
  BY <1>1, MemoryFields DEF IInv, TypeOK
<1> QED
  BY <1>1, <1>2, WrittenKeeps DEF NativeEvent

LEMMA FactoryEventKeeps ==
  ASSUME IInv, NEW p \in Procs, FactoryEvent(p)
  PROVE  IInv'
<1>1. mem[p].registry \in Owner
  BY MemoryFields DEF IInv, TypeOK
<1> QED
  BY <1>1, WrittenKeeps DEF FactoryEvent

LEMMA ResourceTransitionKeeps ==
  ASSUME IInv, NEW p \in Procs, ResourceTransition(p)
  PROVE  IInv'
<1> USE DEF IInv
<1> DEFINE m == mem[p]
           h == m.observer
           n == [m EXCEPT !.observed = @ + 1]
<1>1. /\ m \in Memory /\ LocalInv(p) /\ p \in alive /\ m.pid = p /\ h \in Owner
      /\ m.observed < Capacity /\ m.observed \in 0..Capacity
  BY MemoryFields DEF TypeOK, ResourceTransition, HasRoom
<1>2. Emit(p, h) /\ UNCHANGED <<alive, at, tries, commits, carried, opened>>
  BY DEF ResourceTransition
<1>3. /\ wrote' \subseteq Procs \X Sinks
      /\ \A x \in wrote' : x[1] = x[2][2] /\ opened[x[2]] > 0
      /\ events' \in [Procs -> 0..MaxEvents]
  BY <1>1, <1>2, EmitKeeps
<1>4. CASE ~Writable(p, h)
  <2>1. UNCHANGED <<mem, alive, at, tries, commits, resources, carried, opened>>
    BY <1>2, <1>4 DEF ResourceTransition, Kept
  <2> QED
    BY <1>1, <1>2, <2>1, WrittenKeeps
<1>5. CASE Writable(p, h)
  <2>1. mem' = [mem EXCEPT ![p] = n] /\ resources' = [resources EXCEPT ![p] = @ + 1]
    BY <1>5 DEF ResourceTransition, Kept
  <2>2. m.observed + 1 \in 0..Capacity
    BY <1>1, PluginAssumption
  <2>3. n \in Memory
    BY <1>1, <2>2 DEF Memory
  <2>4. /\ n.pid = m.pid /\ n.observer = m.observer /\ n.observed = m.observed + 1
        /\ n.bus = m.bus /\ n.native = m.native /\ n.factory = m.factory
        /\ n.hooks = m.hooks /\ n.usable = m.usable
    BY <1>1 DEF Memory
  <2> HIDE DEF n
  <2>5. /\ mem' \in [Procs -> Memory] /\ mem'[p] = n
        /\ \A q \in Procs : q # p => mem'[q] = mem[q]
    BY <2>1, <2>3, Replaced DEF TypeOK
  <2>6. /\ resources' \in [Procs -> Nat] /\ resources'[p] = resources[p] + 1
        /\ \A q \in Procs : q # p => resources'[q] = resources[q]
    BY <2>1 DEF TypeOK
  <2>7. TypeOK'
    BY <1>2, <1>3, <2>5, <2>6 DEF TypeOK
  <2>8. OwnShardsOnly'
    BY <1>2, <1>3 DEF OwnShardsOnly
  <2>9. Frame(p)
    BY <1>2, <2>5, <2>6 DEF Frame
  <2>10. Parentage(p)' /\ Registration(p)' /\ Unopened(p)'
    BY <1>1, <1>2, <2>4, <2>5 DEF LocalInv, Parentage, Registration, Mine, Unopened
  <2>11. Observations(p)'
    <3>1. m.observed + 1 = carried[p] + (resources[p] + 1)
      BY <1>1 DEF LocalInv, Observations, TypeOK
    <3> QED
      BY <1>1, <1>2, <2>4, <2>5, <2>6, <3>1 DEF LocalInv, Observations, OwnObserver
  <2>13. Growing
    BY <1>2 DEF Growing, TypeOK
  <2>12. Held(p)' /\ FailureCommits(p)'
    BY <1>1, <1>2, <2>4, <2>5 DEF LocalInv, Held, FailureCommits
  <2> QED
    BY <2>7, <2>8, <2>9, <2>10, <2>11, <2>12, <2>13, LocalStep DEF LocalInv
<1> QED
  BY <1>4, <1>5

\* close_engine_failure_observers: the hooks of the factory still hold the shard
\* that they have opened, so that their close commits it.
LEMMA EngineFailureKeeps ==
  ASSUME IInv, NEW p \in Procs, EngineFailure(p)
  PROVE  IInv'
<1> USE DEF IInv
<1> DEFINE m == mem[p]
           h == m.factory
           s == SinkOf(p, h)
<1>1. /\ m \in Memory /\ LocalInv(p) /\ p \in alive /\ h \in Owner
      /\ at[p] = "idle" /\ at' = [at EXCEPT ![p] = "failed"]
      /\ UNCHANGED <<alive, tries, wrote, events, resources, carried, opened>>
  BY MemoryFields DEF TypeOK, EngineFailure, countVars
<1>2. /\ at' \in [Procs -> {"idle", "native", "factory", "observer", "failed"}]
      /\ at'[p] = "failed" /\ \A q \in Procs : q # p => at'[q] = at[q]
  BY <1>1 DEF TypeOK
<1>3. CloseHooks(p, h)
  BY DEF EngineFailure, CloseForEngineFailure
\* What the hooks have opened here, they hold.
<1>4. h # Nobody /\ opened[<<h, p>>] > 0 => Writable(p, h) /\ s = <<h, p>>
  <2>1. SUFFICES ASSUME h # Nobody, opened[<<h, p>>] > 0
                 PROVE  Writable(p, h) /\ s = <<h, p>>
    OBVIOUS
  <2>2. h \in HookIds
    BY <1>1, <2>1 DEF Owner
  <2>3. m.hooks[h].sink = <<h, p>> /\ m.usable[<<h, p>>]
    BY <1>1, <2>1, <2>2 DEF LocalInv, Held
  <2>4. s = <<h, p>>
    BY <2>1, <2>3 DEF SinkOf
  <2> QED
    BY <2>2, <2>3, <2>4, SinkPairs DEF Writable, Enabled
<1>5. CASE Writable(p, h)
  <2> DEFINE n == [m EXCEPT !.usable[s] = FALSE]
  <2>1. mem' = [mem EXCEPT ![p] = n] /\ commits' = commits \cup {<<p, s>>}
    BY <1>3, <1>5 DEF CloseHooks
  <2>2. s \in Sinks /\ s[2] = p /\ opened[s] > 0
    BY <1>1, <1>5, WritableIsOwn
  <2>3. h # Nobody /\ opened[<<h, p>>] > 0 => s = <<h, p>>
    BY <1>4
  <2> HIDE DEF s
  <2>4. n \in Memory
    BY <1>1, <2>2, MemoryFields DEF Memory
  <2>5. n.usable = [m.usable EXCEPT ![s] = FALSE]
    BY <1>1 DEF Memory
  <2>6. /\ n.pid = m.pid /\ n.observer = m.observer /\ n.observed = m.observed
        /\ n.bus = m.bus /\ n.native = m.native /\ n.factory = m.factory
        /\ n.hooks = m.hooks
    BY <1>1 DEF Memory
  <2> HIDE DEF n
  <2>7. \A t \in Sinks : n.usable[t] => m.usable[t]
    BY <1>1, <2>2, <2>5, MemoryFields
  <2>8. /\ mem' \in [Procs -> Memory] /\ mem'[p] = n
        /\ \A q \in Procs : q # p => mem'[q] = mem[q]
    BY <2>1, <2>4, Replaced DEF TypeOK
  <2>9. TypeOK'
    BY <1>1, <1>2, <2>1, <2>2, <2>8 DEF TypeOK
  <2>10. OwnShardsOnly'
    BY <1>1, <2>1, <2>2 DEF OwnShardsOnly
  <2>11. Frame(p)
    BY <1>1, <1>2, <2>8 DEF Frame
  <2>12. Parentage(p)' /\ Registration(p)' /\ Observations(p)' /\ Unopened(p)'
    BY <1>1, <1>2, <2>6, <2>8
    DEF LocalInv, Parentage, Registration, Mine, Observations, OwnObserver, Unopened
  <2>15. Growing
    BY <1>1, <2>1 DEF Growing, TypeOK
  <2>13. Held(p)'
    BY <1>1, <1>2, <2>7, <2>8 DEF LocalInv, Held
  <2>14. FailureCommits(p)'
    BY <1>1, <2>1, <2>3, <2>6, <2>8 DEF FailureCommits
  <2> QED
    BY <2>9, <2>10, <2>11, <2>12, <2>13, <2>14, <2>15, LocalStep DEF LocalInv
<1>6. CASE ~Writable(p, h)
  <2>1. mem' = mem /\ commits' = commits
    BY <1>3, <1>6 DEF CloseHooks
  <2>2. TypeOK' /\ OwnShardsOnly' /\ Frame(p) /\ Growing
    BY <1>1, <1>2, <2>1 DEF TypeOK, OwnShardsOnly, Frame, Growing
  <2>3. Parentage(p)' /\ Registration(p)' /\ Observations(p)' /\ Unopened(p)'
    BY <1>1, <1>2, <2>1
    DEF LocalInv, Parentage, Registration, Mine, Observations, OwnObserver, Unopened
  <2>4. Held(p)'
    BY <1>1, <1>2, <2>1 DEF LocalInv, Held
  <2>5. FailureCommits(p)'
    BY <1>1, <1>4, <1>6, <2>1 DEF FailureCommits
  <2> QED
    BY <2>2, <2>3, <2>4, <2>5, LocalStep DEF LocalInv
<1> QED
  BY <1>5, <1>6

-----------------------------------------------------------------------------
(* The theorems                                                            *)

LEMMA InitEstablishes ==
  ASSUME Init
  PROVE  IInv
<1>1. Fresh \in Memory
  <2>1. NoHooks \in Hooks
    <3>1. NoSink \in Sinks \cup {NoSink}
      OBVIOUS
    <3> QED
      BY <3>1 DEF NoHooks, Hooks
  <2>2. 0 \in 0..Capacity
    BY PluginAssumption
  <2> QED
    BY <2>1, <2>2 DEF Fresh, Memory, Owner
<1>2. /\ Fresh.pid = None /\ Fresh.observer = Nobody /\ Fresh.bus = {} /\ Fresh.observed = 0
      /\ Fresh.factory = Nobody
      /\ \A h \in HookIds : ~Fresh.hooks[h].made /\ ~Fresh.hooks[h].needs
      /\ \A s \in Sinks : ~Fresh.usable[s]
  BY DEF Fresh, NoHooks
<1>3. /\ \A p \in Procs : /\ mem[p] = Fresh /\ at[p] = "idle" /\ resources[p] = 0
                          /\ carried[p] = 0 /\ p # None
      /\ \A h \in HookIds, p \in Procs : opened[<<h, p>>] = 0
  BY SinkPairs, HookFields DEF Init
<1>4. TypeOK
  BY <1>1, PluginAssumption DEF Init, TypeOK
<1>5. OwnShardsOnly
  BY DEF Init, OwnShardsOnly
<1>6. ASSUME NEW p \in Procs PROVE LocalInv(p)
  <2>1. /\ mem[p] = Fresh /\ at[p] = "idle" /\ resources[p] = 0 /\ carried[p] = 0 /\ p # None
    BY <1>3
  <2>2. \A h \in HookIds : opened[<<h, p>>] = 0
    BY <1>3
  <2> HIDE DEF Fresh
  <2>3. Parentage(p) /\ Registration(p) /\ Observations(p)
    BY <1>2, <2>1 DEF Parentage, Registration, Observations
  <2>4. Unopened(p) /\ Held(p) /\ FailureCommits(p)
    BY <1>2, <2>1, <2>2 DEF Unopened, Held, FailureCommits
  <2> QED
    BY <2>3, <2>4 DEF LocalInv
<1> QED
  BY <1>4, <1>5, <1>6 DEF IInv

LEMMA StepKeeps ==
  ASSUME IInv, [Next]_vars
  PROVE  IInv'
<1>1. CASE UNCHANGED vars
  BY <1>1, Stuttering
<1>2. CASE Rest
  BY <1>1, <1>2 DEF Rest
<1>3. ASSUME NEW p \in Procs, NEW q \in Procs, Fork(p, q) PROVE IInv'
  BY <1>3, ForkKeeps
<1>4. ASSUME NEW p \in Procs, RegisterBegin(p) PROVE IInv'
  BY <1>4, RegisterBeginKeeps
<1>5. ASSUME NEW p \in Procs, RegisterNative(p) PROVE IInv'
  BY <1>5, RegisterNativeKeeps
<1>6. ASSUME NEW p \in Procs, RegisterFactory(p) PROVE IInv'
  BY <1>6, RegisterFactoryKeeps
<1>7. ASSUME NEW p \in Procs, RegisterObserver(p) PROVE IInv'
  BY <1>7, RegisterObserverKeeps
<1>8. ASSUME NEW p \in Procs, Reinitialize(p) PROVE IInv'
  BY <1>8, ReinitializeKeeps
<1>9. ASSUME NEW p \in Procs, NativeEvent(p) PROVE IInv'
  BY <1>9, NativeEventKeeps
<1>10. ASSUME NEW p \in Procs, FactoryEvent(p) PROVE IInv'
  BY <1>10, FactoryEventKeeps
<1>11. ASSUME NEW p \in Procs, ResourceTransition(p) PROVE IInv'
  BY <1>11, ResourceTransitionKeeps
<1>12. ASSUME NEW p \in Procs, CloseNative(p) PROVE IInv'
  BY <1>12, CloseNativeKeeps
<1>13. ASSUME NEW p \in Procs, EngineFailure(p) PROVE IInv'
  BY <1>13, EngineFailureKeeps
<1>14. ASSUME NEW p \in Procs, RegisterNativeRaises(p) PROVE IInv'
  BY <1>14, RegisterNativeRaisesKeeps
<1> QED
  BY <1>1, <1>2, <1>3, <1>4, <1>5, <1>6, <1>7, <1>8, <1>9, <1>10, <1>11, <1>12, <1>13, <1>14
  DEF Next

\* Every reachable state of the plugin's processes satisfies the inductive
\* invariant, through forks (_after_fork_child) at any moment of register_plugin.
THEOREM PluginInvariance == Spec => []IInv
<1>1. Init => IInv
  BY InitEstablishes
<1>2. IInv /\ [Next]_vars => IInv'
  BY StepKeeps
<1> QED
  BY <1>1, <1>2, PTL DEF Spec

\* JsonlTraceSink and its facade: a shard is written and committed only by the
\* process that opened it, and a hooks object opens at most one per process,
\* however often reinitialize_after_fork is called.
THEOREM ShardsAreOwned == Spec => []ShardsOwned
<1>1. IInv => ShardsOwned
  <2>1. SUFFICES ASSUME IInv PROVE ShardsOwned
    OBVIOUS
  <2>2. ASSUME NEW s \in Sinks PROVE opened[s] <= 1
    <3>1. s[1] \in HookIds /\ s[2] \in Procs /\ s = <<s[1], s[2]>>
      BY SinkFields
    <3>2. opened[<<s[1], s[2]>>] <= 1
      BY <2>1, <3>1 DEF IInv, LocalInv, Held
    <3> QED
      BY <3>1, <3>2
  <2> QED
    BY <2>1, <2>2 DEF IInv, ShardsOwned, OneShardPerHooks
<1> QED
  BY <1>1, PluginInvariance, PTL

\* Globals of plugin.py: in a process in which register_plugin has ended, the
\* event bus carries at most the native sink of its own last call, also after
\* calls that raised half way; and the number of observations that the observer
\* reports, own or inherited, is what it had counted when the process was forked
\* and one for each record that the process itself has put into a shard.
THEOREM GlobalsExplained == Spec => []InheritanceExplained
<1>1. IInv => InheritanceExplained
  <2>1. SUFFICES ASSUME IInv, NEW p \in alive
                 PROVE  /\ mem[p].pid = p => mem[p].bus \subseteq {Mine(p)}
                        /\ mem[p].observed =
                             resources[p] + (IF OwnObserver(p) THEN 0 ELSE carried[p])
    BY DEF InheritanceExplained, OneNativeSink, SnapshotExplained
  <2>2. p \in Procs
    BY <2>1 DEF IInv, TypeOK
  <2>3. LocalInv(p) /\ resources[p] \in Nat /\ carried[p] \in Nat
    BY <2>1, <2>2 DEF IInv, TypeOK
  <2>4. mem[p].pid = p => mem[p].bus \subseteq {Mine(p)}
    BY <2>3 DEF LocalInv, Registration
  <2>5. /\ mem[p].observed = carried[p] + resources[p]
        /\ OwnObserver(p) => carried[p] = 0
    BY <2>3 DEF LocalInv, Observations
  <2>6. mem[p].observed = resources[p] + (IF OwnObserver(p) THEN 0 ELSE carried[p])
    <3> HIDE DEF OwnObserver
    <3> QED
      BY <2>3, <2>5
  <2> QED
    BY <2>4, <2>6
<1> QED
  BY <1>1, PluginInvariance, PTL

\* close_engine_failure_observers: when the death of an engine is reported, the
\* shard that the hooks of _OBSERVER_FACTORY have opened in this process, made
\* here or inherited and reinitialized, is committed.  Other shards are not.
THEOREM FactoryShardIsCommitted == Spec => []FactoryShardCommitted
<1>1. IInv => FactoryShardCommitted
  <2>1. SUFFICES ASSUME IInv, NEW p \in alive, at[p] = "failed",
                        mem[p].factory # Nobody, opened[<<mem[p].factory, p>>] > 0
                 PROVE  Committed(<<mem[p].factory, p>>)
    BY DEF FactoryShardCommitted
  <2>2. <<p, <<mem[p].factory, p>>>> \in commits
    BY <2>1 DEF IInv, TypeOK, LocalInv, FailureCommits
  <2> QED
    BY <2>2 DEF Committed
<1> QED
  BY <1>1, PluginInvariance, PTL
=============================================================================
