---------------------------- MODULE MemoryStores ----------------------------
(***************************************************************************)
(* What MemoryStore promises, of the two implementations of the interface:  *)
(* each is the log of MemoryLog, under its own limits.                      *)
(***************************************************************************)
EXTENDS InMemoryMemoryStore, JsonFileMemoryStore

\* The entries in memory are trimmed as their counts say, those in the file as a
\* count of what was loaded says, and by several processes: every append drops
\* exactly the oldest entries that the limits of whoever appends demand, nothing
\* is dropped else, and no append overwrites another.
ImplementsMemoryLog == InMemoryLog!LogSpec /\ FileLog!LogSpec
=============================================================================
