--------------------------- MODULE TaskClaimStore ---------------------------
(***************************************************************************)
(* What every task claim store promises (interface TaskClaimStore and its  *)
(* in-memory implementation): one claim per task ID, created only where    *)
(* there is none, stamped with a generation nobody used before, removed by *)
(* release(taskId) or by releaseIfMatches(taskId, claimId).  Each operation *)
(* is atomic here; JsonFileTaskClaimStore shows how the file-backed store  *)
(* makes it so.                                                            *)
(***************************************************************************)

CONSTANTS Tasks,   \* task IDs
          Gens,    \* claim generations (claimId, a randomUUID)
          None,    \* no claim
          Legacy   \* a durable record written before claimId existed

ASSUME ClaimValuesDistinct == None # Legacy /\ None \notin Gens /\ Legacy \notin Gens

VARIABLES claims,  \* task ID -> generation holding it, None or Legacy
          issued   \* generations handed out so far

storeVars == <<claims, issued>>

StoreTypeOK == /\ claims \in [Tasks -> Gens \union {None, Legacy}]
               /\ issued \subseteq Gens

\* Any mix of absent and legacy records may be on disk at the first start.
StoreInit == /\ claims \in [Tasks -> {None, Legacy}]
             /\ issued = {}

\* Mutation of Has: a record without a generation counts as no claim.
HasGeneration(t) == claims[t] \in Gens

Has(t) == claims[t] # None

\* claim() answers true: the record is created under a fresh generation.
ClaimAs(t, g) ==
  /\ ~Has(t)
  /\ g \in Gens \ issued
  /\ claims' = [claims EXCEPT ![t] = g]
  /\ issued' = issued \union {g}

\* release() drops whatever record the task has, of any generation.
Release(t) ==
  /\ claims' = [claims EXCEPT ![t] = None]
  /\ UNCHANGED issued

\* Mutation of Matches: any generation will do.
MatchesAny(t, g) == g \in Gens /\ claims[t] \in Gens

Matches(t, g) == g \in Gens /\ claims[t] = g

\* releaseIfMatches() drops the record only in the generation it names.
ReleaseIfMatches(t, g) ==
  /\ Matches(t, g)
  /\ Release(t)

StoreNext == \E t \in Tasks :
  \/ \E g \in Gens : ClaimAs(t, g) \/ ReleaseIfMatches(t, g)
  \/ Release(t)

StoreSpec == StoreInit /\ [][StoreNext]_storeVars
=============================================================================
