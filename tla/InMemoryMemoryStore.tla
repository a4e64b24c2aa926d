------------------------- MODULE InMemoryMemoryStore -------------------------
(***************************************************************************)
(* InMemoryMemoryStore: append() finds out from agentCounts, and not from   *)
(* the entries, whether an agent has reached its limit.                     *)
(***************************************************************************)
EXTENDS MemoryEntries

CONSTANTS MaxEntries,        \* maxEntries
          MaxEntriesPerAgent \* maxEntriesPerAgent, 0 for no limit

ASSUME MemoryLimits == MaxEntries \in Nat \ {0} /\ MaxEntriesPerAgent \in Nat

VARIABLES entries,     \* oldest first
          agentCounts, \* 0 for an agent without a key
          appended     \* every entry since the last clear()

memVars == <<entries, agentCounts, appended>>

MemTypeOK ==
  /\ entries \in Seq(Entry) /\ appended \in Seq(Entry)
  /\ agentCounts \in [Agents -> Nat]

MemInit == entries = <<>> /\ appended = <<>> /\ agentCounts = [a \in Agents |-> 0]

AtLimit(a) == MaxEntriesPerAgent > 0 /\ agentCounts[a] >= MaxEntriesPerAgent

\* An agent at its limit gives up its oldest entry.
Evicts(a) == AtLimit(a) /\ PlacesOf(entries, a) # {}
Left(a) == IF Evicts(a) THEN RemoveAt(entries, Min(PlacesOf(entries, a))) ELSE entries

\* decrementAgentCount(): the count never gets negative.
Decremented(counts, a) == [counts EXCEPT ![a] = IF @ > 1 THEN @ - 1 ELSE 0]

\* Mutation of Counted: the entry that makes room for all is not counted out.
CountedAtLimit(a) == IF Evicts(a) THEN Decremented(agentCounts, a) ELSE agentCounts

\* The counts once the agent's entry has gone and, when that did not make room
\* enough, the oldest of all.
Counted(a) ==
  LET counts == IF Evicts(a) THEN Decremented(agentCounts, a) ELSE agentCounts
  IN IF Len(Left(a)) >= MaxEntries THEN Decremented(counts, Left(a)[1].agent) ELSE counts

AppendEntry(e) ==
  LET left == Left(e.agent) IN
  /\ e.id \notin IdsOf(appended)
  /\ entries' = Append(IF Len(left) >= MaxEntries THEN Tail(left) ELSE left, e)
  /\ agentCounts' = [Counted(e.agent) EXCEPT ![e.agent] = @ + 1]
  /\ appended' = Append(appended, e)

Clear ==
  /\ entries' = <<>> /\ appended' = <<>>
  /\ agentCounts' = [a \in Agents |-> 0]

MemNext == Clear \/ \E e \in Entry : AppendEntry(e)

MemSpec == MemInit /\ [][MemNext]_memVars

-----------------------------------------------------------------------------
(* Properties *)

\* Counting instead of looking makes no difference: every append drops exactly
\* the oldest entries the limits demand, and nothing else (ImplementsMemoryLog).
InMemoryLog == INSTANCE MemoryLog WITH
  log <- entries, history <- appended,
  Limits <- {[total |-> MaxEntries, perAgent |-> MaxEntriesPerAgent]}
=============================================================================
