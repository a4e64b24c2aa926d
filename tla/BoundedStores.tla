---------------------------- MODULE BoundedStores ----------------------------
(***************************************************************************)
(* The bounded containers of a runtime: AgentInstanceManager,               *)
(* InMemoryRuntimeStateStore and InMemoryRuntimeLogger.  All of them drop   *)
(* what is first in insertion order when they are full; a capacity of 0     *)
(* never is.  Every operation is synchronous or runs in one go.             *)
(***************************************************************************)
EXTENDS Naturals, Sequences, SequencesExt, FiniteSets

CONSTANTS AgentIds, StateKeys,
          MaxInstances, MaxStateEntries, MaxLogEntries, \* capacities
          Severities,   \* LOG_LEVEL_PRIORITY of the levels in use
          MinSeverity,  \* priority of the logger's own level
          Insertions    \* bound of the model: insertions into all three

ASSUME Capacities ==
  /\ {MaxInstances, MaxStateEntries, MaxLogEntries, MinSeverity, Insertions} \subseteq Nat
  /\ Severities \subseteq Nat

VARIABLES instances, \* AgentInstances in the order of their creation
          evictions, \* evictionCount
          state,     \* entries of the state store in the order of the Map
          lines,     \* log entries
          made,      \* the container of every insertion so far
          dropped    \* insertions its users removed on purpose

boundedVars == <<instances, evictions, state, lines, made, dropped>>

\* An entry knows which insertion it stems from; values are left out.
Stamp == 1 .. Insertions
Containers == {"agents", "state", "log"}

BoundedTypeOK ==
  /\ instances \in Seq([id : AgentIds, stamp : Stamp])
  /\ state \in Seq([key : StateKeys, stamp : Stamp])
  /\ lines \in Seq([severity : Severities, stamp : Stamp])
  /\ evictions \in Nat /\ made \in Seq(Containers) /\ dropped \subseteq Stamp

BoundedInit ==
  /\ instances = <<>> /\ state = <<>> /\ lines = <<>>
  /\ evictions = 0 /\ made = <<>> /\ dropped = {}

Full(entries, capacity) == capacity > 0 /\ Len(entries) >= capacity

\* The first entry makes room for one that is added.
Added(entries, e, capacity) == Append(IF Full(entries, capacity) THEN Tail(entries) ELSE entries, e)

Make(c) == Len(made) < Insertions /\ made' = Append(made, c)

StampsOf(entries) == {e.stamp : e \in ToSet(entries)}

-----------------------------------------------------------------------------
\* AgentInstanceManager

Known(a) == \E e \in ToSet(instances) : e.id = a

\* An instance that exists is returned, and keeps its place.
GetOrCreate(a) ==
  /\ ~Known(a)
  /\ Make("agents")
  /\ instances' = Added(instances, [id |-> a, stamp |-> Len(made')], MaxInstances)
  /\ evictions' = IF Full(instances, MaxInstances) THEN evictions + 1 ELSE evictions
  /\ UNCHANGED <<state, lines, dropped>>

\* delete() of the agent whose instance is the i-th; one that is unknown stays so.
DeleteInstance(i) ==
  /\ instances' = RemoveAt(instances, i)
  /\ dropped' = dropped \union {instances[i].stamp}
  /\ UNCHANGED <<evictions, state, lines, made>>

ClearInstances ==
  /\ instances' = <<>>
  /\ dropped' = dropped \union StampsOf(instances)
  /\ UNCHANGED <<evictions, state, lines, made>>

-----------------------------------------------------------------------------
\* InMemoryRuntimeStateStore

Has(k) == \E e \in ToSet(state) : e.key = k

\* Mutation of Put: an overwrite makes room, too.
PutEvicts(k) ==
  /\ IF Has(k) THEN UNCHANGED made ELSE Make("state")
  /\ state' = IF ~Has(k) THEN Added(state, [key |-> k, stamp |-> Len(made')], MaxStateEntries)
              ELSE IF Full(state, MaxStateEntries) THEN Tail(state) ELSE state
  /\ UNCHANGED <<instances, evictions, lines, dropped>>

\* A new key may need room; one that is present is overwritten in its place.
Put(k) ==
  /\ ~Has(k)
  /\ Make("state")
  /\ state' = Added(state, [key |-> k, stamp |-> Len(made')], MaxStateEntries)
  /\ UNCHANGED <<instances, evictions, lines, dropped>>

\* delete() of the i-th key.
DeleteState(i) ==
  /\ state' = RemoveAt(state, i)
  /\ dropped' = dropped \union {state[i].stamp}
  /\ UNCHANGED <<instances, evictions, lines, made>>

ClearState ==
  /\ state' = <<>>
  /\ dropped' = dropped \union StampsOf(state)
  /\ UNCHANGED <<instances, evictions, lines, made>>

-----------------------------------------------------------------------------
\* InMemoryRuntimeLogger

\* A line below the logger's level leaves no trace.
Log(s) ==
  /\ s >= MinSeverity
  /\ Make("log")
  /\ lines' = Added(lines, [severity |-> s, stamp |-> Len(made')], MaxLogEntries)
  /\ UNCHANGED <<instances, evictions, state, dropped>>

ClearLog ==
  /\ lines' = <<>>
  /\ dropped' = dropped \union StampsOf(lines)
  /\ UNCHANGED <<instances, evictions, state, made>>

BoundedNext ==
  \/ \E a \in AgentIds : GetOrCreate(a)
  \/ \E i \in DOMAIN instances : DeleteInstance(i)
  \/ ClearInstances
  \/ \E k \in StateKeys : Put(k)
  \/ \E i \in DOMAIN state : DeleteState(i)
  \/ ClearState
  \/ \E s \in Severities : Log(s)
  \/ ClearLog

BoundedSpec == BoundedInit /\ [][BoundedNext]_boundedVars

-----------------------------------------------------------------------------
(* Properties *)

In(c) == CASE c = "agents" -> instances [] c = "state" -> state [] OTHER -> lines
Held(c) == StampsOf(In(c))
Capacity(c) == CASE c = "agents" -> MaxInstances [] c = "state" -> MaxStateEntries [] OTHER -> MaxLogEntries
Lost(c) == {i \in DOMAIN made : made[i] = c} \ (Held(c) \union dropped)

\* Whatever is inserted stays until its user removes it or as many newer
\* insertions as the container holds have come: overwriting, looking up and
\* removing others never cost an entry its place.  evictionCount tells how many
\* agents were forgotten.
KeptUntilCrowdedOut ==
  /\ \A c \in Containers : \A i \in Lost(c) :
       /\ Capacity(c) > 0
       /\ Cardinality({j \in DOMAIN made : j > i /\ made[j] = c}) >= Capacity(c)
  /\ evictions = Cardinality(Lost("agents"))
=============================================================================
