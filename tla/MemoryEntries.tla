---------------------------- MODULE MemoryEntries ----------------------------
(***************************************************************************)
(* What the memory stores keep: MemoryEntry, of which only its agent and    *)
(* what tells it apart matters here.                                        *)
(***************************************************************************)
EXTENDS Naturals, Sequences, FiniteSets, SequencesExt

CONSTANTS Agents,
          Ids \* what tells entries apart; bound of the model: entries between clears

Entry == [agent : Agents, id : Ids]

\* Where the entries of one agent are.
PlacesOf(entries, a) == {i \in DOMAIN entries : entries[i].agent = a}

\* The entries that are left, in order, when those at some places go.
Nth(places, k) == CHOOSE i \in places : Cardinality({j \in places : j <= i}) = k
Without(entries, gone) ==
  LET kept == DOMAIN entries \ gone
  IN [k \in 1 .. Cardinality(kept) |-> entries[Nth(kept, k)]]

IdsOf(entries) == {e.id : e \in ToSet(entries)}
=============================================================================
