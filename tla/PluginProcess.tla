--------------------------- MODULE PluginProcess ---------------------------
(***************************************************************************)
(* The plugin in the processes that vLLM forks: the module globals of      *)
(* plugin.py, the facade RuntimeLifecycleHooks with its fork handling, the *)
(* native event sink, the observer factory and the lifecycle observer.     *)
(*                                                                         *)
(* A fork copies the memory of a process.  A hooks object is named after   *)
(* the process that created it and that process's call of register_plugin, *)
(* a sink (and its shard) after its hooks object and the process that      *)
(* opened it.  An object that only forwards to its hooks (bridge, factory, *)
(* observer, native sink) is represented by them.  What a sink does inside *)
(* is TraceLedger and ShardCommit.                                         *)
(***************************************************************************)
EXTENDS Naturals, FiniteSets

CONSTANTS Procs,       \* processes
          First,       \* the one that is not forked
          Recovery,    \* whether the KV recovery profile is configured
          Failures,    \* parts of register_plugin that can fail
          Capacity,    \* _capacity of the observer
          MaxTries,    \* bound: calls of register_plugin that a process begins
          MaxEvents    \* bound: records written by a process

ASSUME PluginAssumption ==
    /\ IsFiniteSet(Procs) /\ First \in Procs /\ "none" \notin Procs
    /\ Recovery \in BOOLEAN
    /\ Failures \subseteq {"sink", "native", "factory", "observer"}
    /\ Capacity \in Nat /\ MaxTries \in Nat /\ MaxEvents \in Nat

VARIABLES mem,      \* memory of a process
          alive,    \* processes that run
          at,       \* progress of register_plugin in a process
          tries,    \* the calls of register_plugin that a process has begun
          wrote,    \* <<process, sink>>: records of the sink written by the process
          commits,  \* <<process, sink>>: the process committed the sink's shard
          events,   \* number of records a process has tried to write
          resources,\* resource events in the shards, by process
          carried,  \* what an observer had counted when this process was forked
          opened    \* how often a sink was opened

shardVars == <<wrote, commits, opened>>
countVars == <<events, resources, carried>>
vars == <<mem, alive, at, tries, wrote, commits, events, resources, carried, opened>>

None == "none"
HookIds == Procs \X (1..MaxTries)
Nobody == <<None, 0>>
Sinks == HookIds \X Procs
NoSink == <<Nobody, None>>

\* The hooks object of the latest call of register_plugin in p.
Mine(p) == <<p, tries[p]>>

\* A hooks object: whether it was made, its _sink (NoSink is a NullTraceSink)
\* and _needs_reinitialize_after_fork.
NoHooks == [made |-> FALSE, sink |-> NoSink, needs |-> FALSE]

Fresh ==
    [pid |-> None,          \* _REGISTERED_PID
     current |-> Nobody,    \* _RUNTIME_HOOKS
     native |-> Nobody,     \* _NATIVE_EVENT_SINK, by its hooks
     bus |-> {},            \* sinks registered with vLLM's EventBus (external)
     factory |-> Nobody,    \* _OBSERVER_FACTORY, by its hooks
     registry |-> Nobody,   \* vLLM's recovery observer factory (external)
     observer |-> Nobody,   \* _LIFECYCLE_OBSERVER, by its hooks
     observed |-> 0,        \* its _resource_observations
     hooks |-> [h \in HookIds |-> NoHooks],
     usable |-> [s \in Sinks |-> FALSE]]  \* sink neither closed nor detached here

-----------------------------------------------------------------------------
(* The facade                                                              *)

SinkOf(p, h) == IF h = Nobody THEN NoSink ELSE mem[p].hooks[h].sink
Enabled(p, h) == SinkOf(p, h) # NoSink
Writable(p, h) == Enabled(p, h) /\ mem[p].usable[SinkOf(p, h)]

\* emit_event and its like: a record, if the sink takes it.
Emit(p, h) ==
    /\ events[p] < MaxEvents
    /\ events' = [events EXCEPT ![p] = @ + 1]
    /\ wrote' = IF Writable(p, h) THEN wrote \cup {<<p, SinkOf(p, h)>>} ELSE wrote

\* The memory of p in which hooks h have opened a sink of their own.
WithSink(m, p, h) ==
    [m EXCEPT !.hooks[h] = [made |-> TRUE, sink |-> <<h, p>>, needs |-> FALSE],
              !.usable[<<h, p>>] = TRUE]

\* The same when that failed: a NullTraceSink.
WithoutSink(m, h) ==
    [m EXCEPT !.hooks[h] = [made |-> TRUE, sink |-> NoSink, needs |-> FALSE]]

\* A mistaken variant: the factory closes its observers and leaves the hooks open.
CloseNothing(p, h) == UNCHANGED <<commits, mem>>

\* close: the shard of a sink that is usable here is committed.
CloseHooks(p, h) ==
    IF Writable(p, h)
    THEN /\ commits' = commits \cup {<<p, SinkOf(p, h)>>}
         /\ mem' = [mem EXCEPT ![p].usable[SinkOf(p, h)] = FALSE]
    ELSE UNCHANGED <<commits, mem>>

\* A mistaken variant: the inherited sink is kept until it is reinitialized.
AfterForkKept(m) ==
    [m EXCEPT !.hooks = [h \in HookIds |-> [m.hooks[h] EXCEPT !.needs = m.hooks[h].made]]]

\* _after_fork_child of every hooks object, with detach_after_fork_child of its
\* sink, run in the child before anything else.
AfterForkChild(m) ==
    [m EXCEPT !.hooks = [h \in HookIds |-> [made |-> m.hooks[h].made, sink |-> NoSink,
                                             needs |-> m.hooks[h].made]],
              !.usable = [s \in Sinks |-> FALSE]]

\* A thread of p forks q; a registration under way is not continued there.
Fork(p, q) ==
    /\ p \in alive /\ q \notin alive /\ q # First
    /\ alive' = alive \cup {q}
    /\ mem' = [mem EXCEPT ![q] = AfterForkChild(mem[p])]
    /\ carried' = [carried EXCEPT ![q] = mem[p].observed]
    /\ UNCHANGED <<at, tries, events, resources, shardVars>>

CanReinitialize(p, h) == h # Nobody /\ mem[p].hooks[h].needs

\* reinitialize_after_fork, through the factory that vLLM holds.
Reinitialize(p) ==
    LET h == mem[p].registry
    IN  /\ p \in alive /\ at[p] = "idle" /\ h # Nobody
        /\ IF CanReinitialize(p, h)
           THEN \/ /\ mem' = [mem EXCEPT ![p] = WithSink(mem[p], p, h)]
                   /\ opened' = [opened EXCEPT ![<<h, p>>] = @ + 1]
                \/ /\ "sink" \in Failures
                   /\ mem' = [mem EXCEPT ![p] = WithoutSink(mem[p], h)]
                   /\ UNCHANGED opened
           ELSE UNCHANGED <<mem, opened>>
        /\ UNCHANGED <<alive, at, tries, wrote, commits, countVars>>

-----------------------------------------------------------------------------
(* register_plugin, step by step.                                          *)

\* The guard on the pid, and RuntimeLifecycleHooks.from_env: every call that
\* passes the guard makes new hooks.
RegisterBegin(p) ==
    LET h == <<p, tries[p] + 1>>
    IN  /\ p \in alive /\ at[p] = "idle" /\ mem[p].pid # p
        /\ tries[p] < MaxTries
        /\ at' = [at EXCEPT ![p] = "native"]
        /\ tries' = [tries EXCEPT ![p] = @ + 1]
        /\ \/ /\ mem' = [mem EXCEPT ![p] = WithSink(mem[p], p, h)]
              /\ opened' = [opened EXCEPT ![<<h, p>>] = @ + 1]
           \/ /\ "sink" \in Failures
              /\ mem' = [mem EXCEPT ![p] = WithoutSink(mem[p], h)]
              /\ UNCHANGED opened
        /\ UNCHANGED <<alive, wrote, commits, countVars>>

\* A mistaken variant: the inherited sink stays on the bus.
BusWithInherited(p) == mem[p].bus \cup {Mine(p)}

\* The bus without the inherited sink, and after that made way for the new one.
BusWithout(p) == mem[p].bus \ {mem[p].native}
BusAfter(p) == BusWithout(p) \cup {Mine(p)}

\* The native sink.
RegisterNative(p) ==
    /\ at[p] = "native"
    /\ at' = [at EXCEPT ![p] = "factory"]
    /\ mem' = [mem EXCEPT ![p].bus = BusAfter(p), ![p].native = Mine(p)]
    /\ UNCHANGED <<alive, tries, countVars, shardVars>>

\* Unregistering the inherited sink, making the new one or registering it
\* raises: register_plugin does so too, before it has set any global.  The next
\* call begins anew.
RegisterNativeRaises(p) ==
    /\ at[p] = "native" /\ "native" \in Failures
    /\ at' = [at EXCEPT ![p] = "idle"]
    /\ \E bus \in {mem[p].bus, BusWithout(p)} : mem' = [mem EXCEPT ![p].bus = bus]
    /\ UNCHANGED <<alive, tries, countVars, shardVars>>

\* The observer factory, if recovery is configured; an exception leaves the
\* globals, and vLLM's registry, as they were.
RegisterFactory(p) ==
    LET h == Mine(p)
    IN  /\ at[p] = "factory"
        /\ at' = [at EXCEPT ![p] = "observer"]
        /\ \/ /\ Recovery /\ Enabled(p, h)
              /\ mem' = [mem EXCEPT ![p].factory = h, ![p].registry = h]
           \/ /\ ~(Recovery /\ Enabled(p, h)) \/ "factory" \in Failures
              /\ UNCHANGED mem
        /\ UNCHANGED <<alive, tries, countVars, shardVars>>

\* The lifecycle observer, if tracing is enabled; then pid and hooks are
\* published.
RegisterObserver(p) ==
    LET h == Mine(p)
    IN  /\ at[p] = "observer"
        /\ at' = [at EXCEPT ![p] = "idle"]
        /\ \/ /\ Enabled(p, h)
              /\ mem' = [mem EXCEPT ![p].observer = h, ![p].observed = 0,
                                    ![p].pid = p, ![p].current = h]
              /\ carried' = [carried EXCEPT ![p] = 0]
           \/ /\ ~Enabled(p, h) \/ "observer" \in Failures
              /\ mem' = [mem EXCEPT ![p].pid = p, ![p].current = h]
              /\ UNCHANGED carried
        /\ UNCHANGED <<alive, tries, events, resources, shardVars>>

-----------------------------------------------------------------------------
(* Use by vLLM                                                             *)

\* NativeLifecycleEventSink.emit of one sink on the bus.
NativeEvent(p) ==
    /\ p \in alive
    /\ \E h \in mem[p].bus : Emit(p, h)
    /\ UNCHANGED <<mem, alive, at, tries, commits, resources, carried, opened>>

\* A callback of the scheduler or worker observers of the factory.
FactoryEvent(p) ==
    /\ p \in alive /\ mem[p].registry # Nobody
    /\ Emit(p, mem[p].registry)
    /\ UNCHANGED <<mem, alive, at, tries, commits, resources, carried, opened>>

\* resource_transition keeps an observation only for a record that was taken.
Kept(p) == Writable(p, mem[p].observer)

HasRoom(p) == mem[p].observed < Capacity

\* resource_transition of the observer that get_lifecycle_observer returns;
\* it registers first, so that the pid is the process's own.
ResourceTransition(p) ==
    /\ p \in alive /\ mem[p].pid = p /\ mem[p].observer # Nobody
    /\ HasRoom(p)
    /\ Emit(p, mem[p].observer)
    /\ mem' = IF Kept(p) THEN [mem EXCEPT ![p].observed = @ + 1] ELSE mem
    /\ resources' = IF Writable(p, mem[p].observer)
                    THEN [resources EXCEPT ![p] = @ + 1] ELSE resources
    /\ UNCHANGED <<alive, at, tries, commits, carried, opened>>

\* close_native_event_sink
CloseNative(p) ==
    /\ p \in alive /\ at[p] = "idle" /\ mem[p].native # Nobody
    /\ mem' = [mem EXCEPT ![p].bus = BusWithout(p), ![p].native = Nobody]
    /\ UNCHANGED <<alive, at, tries, countVars, shardVars>>

\* close_for_engine_failure: the factory closes its scheduler observers, which
\* close the same hooks, and its hooks.
CloseForEngineFailure(p) == CloseHooks(p, mem[p].factory)

\* close_engine_failure_observers, before the engine dies, whether or not the
\* plugin is registered in this process.
EngineFailure(p) ==
    /\ p \in alive /\ at[p] = "idle"
    /\ at' = [at EXCEPT ![p] = "failed"]
    /\ CloseForEngineFailure(p)
    /\ UNCHANGED <<alive, tries, wrote, countVars, opened>>

Init ==
    /\ mem = [p \in Procs |-> Fresh]
    /\ alive = {First}
    /\ at = [p \in Procs |-> "idle"]
    /\ tries = [p \in Procs |-> 0]
    /\ wrote = {} /\ commits = {}
    /\ opened = [s \in Sinks |-> 0]
    /\ events = [p \in Procs |-> 0]
    /\ resources = [p \in Procs |-> 0]
    /\ carried = [p \in Procs |-> 0]

\* Nothing more is asked of the processes.
Rest ==
    /\ \A p \in alive : at[p] = "failed" \/ mem[p].pid = p
    /\ UNCHANGED vars

Next ==
    \/ Rest
    \/ \E p, q \in Procs : Fork(p, q)
    \/ \E p \in Procs :
          \/ RegisterBegin(p) \/ RegisterNative(p) \/ RegisterNativeRaises(p)
          \/ RegisterFactory(p) \/ RegisterObserver(p) \/ Reinitialize(p) \/ NativeEvent(p)
          \/ FactoryEvent(p) \/ ResourceTransition(p) \/ CloseNative(p)
          \/ EngineFailure(p)

Spec == Init /\ [][Next]_vars

-----------------------------------------------------------------------------
(* Properties                                                              *)

\* The memory of a process; Nobody, and None for the pid, stand for Python's None.
Owner == HookIds \cup {Nobody}
Hooks == [made : BOOLEAN, sink : Sinks \cup {NoSink}, needs : BOOLEAN]
Memory ==
    [pid : Procs \cup {None}, current : Owner, native : Owner, bus : SUBSET Owner,
     factory : Owner, registry : Owner, observer : Owner, observed : 0..Capacity,
     hooks : [HookIds -> Hooks], usable : [Sinks -> BOOLEAN]]

TypeOK ==
    /\ mem \in [Procs -> Memory]
    /\ alive \subseteq Procs
    /\ at \in [Procs -> {"idle", "native", "factory", "observer", "failed"}]
    /\ tries \in [Procs -> 0..MaxTries]
    /\ wrote \subseteq Procs \X Sinks /\ commits \subseteq Procs \X Sinks
    /\ events \in [Procs -> 0..MaxEvents]
    /\ resources \in [Procs -> Nat]
    /\ carried \in [Procs -> Nat]
    /\ opened \in [Sinks -> Nat]

\* A process writes to and commits only shards that it has opened itself: not
\* a record of a child, whenever it was forked and whichever inherited hooks
\* it goes through, reaches the shard of its parent.
OwnShardsOnly == \A x \in wrote \cup commits : x[1] = x[2][2] /\ opened[x[2]] > 0

\* No hooks object opens two shards in one process: reinitialize_after_fork
\* acts once per fork, however often and in whatever order it is called.
\* (A call of register_plugin after one that raised, or after an inherited
\* factory was reinitialized, opens one more shard, of new hooks.)
OneShardPerHooks == \A s \in Sinks : opened[s] <= 1

\* Once the plugin is registered in a process, the bus has at most one of its
\* sinks and none that was inherited or left by a call that raised, so no event
\* is recorded twice.
OneNativeSink ==
    \A p \in alive : mem[p].pid = p => mem[p].bus \subseteq {Mine(p)}

\* The observer that this process has made, in whichever call.
OwnObserver(p) == mem[p].observer \in {<<p, i>> : i \in 1..MaxTries}

\* The number of observations that the observer of get_lifecycle_observer
\* reports is that of the resource events this process has put into shards; an
\* inherited one, which stays where hooks are disabled or making the observer
\* raised, adds what it had counted when the process was forked, and no more.
SnapshotExplained ==
    \A p \in alive :
        mem[p].observed = resources[p] + (IF OwnObserver(p) THEN 0 ELSE carried[p])

\* "Return the process-local observer" (plugin.py:157).  Not true of the code:
\* see SnapshotExplained for the inherited one.
ObserverIsLocal ==
    \A p \in alive : mem[p].pid = p => OwnObserver(p) \/ mem[p].observer = Nobody

\* The shard that s names is committed by the process that opened it.
Committed(s) == <<s[2], s>> \in commits

\* Before the death of an engine is reported, close_engine_failure_observers
\* commits the shard of the hooks of _OBSERVER_FACTORY, also when these were
\* inherited and reinitialized here.
FactoryShardCommitted ==
    \A p \in alive : at[p] = "failed" /\ mem[p].factory # Nobody =>
        LET s == <<mem[p].factory, p>> IN opened[s] > 0 => Committed(s)

\* "Commit process-local profiler shards before EngineCore death is sent."
\* (plugin.py:164).  Not true of the code where the factory is not the process's
\* own: recovery is not configured, or making the factory raised.
FailureCommitsShards ==
    \A p \in alive : at[p] = "failed" =>
        \A h \in HookIds : opened[<<h, p>>] > 0 => Committed(<<h, p>>)

\* Shards belong to the process that opened them, one for each hooks object.
ShardsOwned == TypeOK /\ OwnShardsOnly /\ OneShardPerHooks

\* What a fork or a failed registration leaves in the globals: no second native
\* sink, and an observer whose number is explained.
InheritanceExplained == OneNativeSink /\ SnapshotExplained
=============================================================================
