------------------------------ MODULE MemoryLog ------------------------------
(***************************************************************************)
(* What a memory store promises (interface MemoryStore): the results of     *)
(* tasks in the order they were appended, of which each append makes room   *)
(* for its own by dropping the oldest of the agent, then the oldest of all.  *)
(***************************************************************************)
EXTENDS MemoryEntries

CONSTANT Limits \* the [total, perAgent] limits in use; perAgent 0: no limit

VARIABLES log,    \* retained entries, oldest first
          history \* every entry since the last clear()

logVars == <<log, history>>

LastOf(entries, n) == SubSeq(entries, IF Len(entries) > n THEN Len(entries) - n + 1 ELSE 1, Len(entries))

\* An agent that is to have room for one more keeps perAgent - 1 entries, its last.
Crowded(entries, a, perAgent) ==
  {i \in PlacesOf(entries, a) : Cardinality({j \in PlacesOf(entries, a) : j > i}) >= perAgent - 1}

AgentTrimmed(entries, a, perAgent) ==
  IF perAgent = 0 THEN entries ELSE Without(entries, Crowded(entries, a, perAgent))

Appended(entries, e, limits) ==
  Append(LastOf(AgentTrimmed(entries, e.agent, limits.perAgent), limits.total - 1), e)

LogInit == log = <<>> /\ history = <<>>

LogAppend(e, limits) ==
  /\ e.id \notin IdsOf(history)
  /\ log' = Appended(log, e, limits)
  /\ history' = Append(history, e)

LogClear == log' = <<>> /\ history' = <<>>

LogNext == LogClear \/ \E e \in Entry, limits \in Limits : LogAppend(e, limits)

LogSpec == LogInit /\ [][LogNext]_logVars
=============================================================================
