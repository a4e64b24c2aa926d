--------------------------- MODULE ActionExecutor ---------------------------
(***************************************************************************)
(* ActionExecutor.execute(): resolve the tool, ask the policy, charge the   *)
(* task's budget, run the tool.  The count is read, compared and written in *)
(* one go after the policy has answered, while any number of executions of  *)
(* the same task may be waiting for their own answers.                      *)
(***************************************************************************)
EXTENDS Naturals, Sequences, FiniteSets, SequencesExt

CONSTANTS Tasks,        \* task IDs
          Execs,        \* slots for concurrent execute() invocations
          None,
          MaxToolCalls, \* maxToolCallsPerTask, where there is one
          MaxTracked,   \* maxTrackedTasks
          CallBound     \* bound of the model: invocations per task between resets

ASSUME BudgetParameters ==
  /\ MaxToolCalls \in Nat /\ CallBound \in Nat
  /\ MaxTracked \in Nat \ {0}
  /\ None \notin Tasks /\ None \notin Execs

VARIABLES quota,   \* TRUE: the executor was built with a maxToolCallsPerTask
          tracked, \* keys of toolCallCounts in insertion order
          counts,  \* toolCallCounts, 0 for a task that is not tracked
          exec,    \* slot -> task and stage of an execute() invocation
          used     \* invocations of a task since its budget was last reset

execVars == <<quota, tracked, counts, exec, used>>

Execution == [pc : {"idle", "policy", "tool"}, task : Tasks \union {None}]
NoExecution == [pc |-> "idle", task |-> None]

ExecTypeOK ==
  /\ quota \in BOOLEAN
  /\ tracked \in Seq(Tasks)
  /\ counts \in [Tasks -> Nat]
  /\ used \in [Tasks -> Nat]
  /\ exec \in [Execs -> Execution]
  /\ \A x \in Execs : exec[x].pc # "idle" => exec[x].task \in Tasks

ExecInit ==
  /\ quota \in BOOLEAN
  /\ tracked = <<>>
  /\ counts = [t \in Tasks |-> 0]
  /\ used = [t \in Tasks |-> 0]
  /\ exec = [x \in Execs |-> NoExecution]

-----------------------------------------------------------------------------
IsTracked(t) == \E i \in DOMAIN tracked : tracked[i] = t

Execute(x, t) ==
  /\ exec[x].pc = "idle"
  /\ exec' = [exec EXCEPT ![x] = [pc |-> "policy", task |-> t]]
  /\ UNCHANGED <<quota, tracked, counts, used>>

Settled(x) == exec' = [exec EXCEPT ![x] = NoExecution]

WithinBudget(t) == quota => counts[t] < MaxToolCalls

\* Mutation of CanTrack: counters are evicted under a quota, too.
CanTrackByEviction(t) == TRUE

\* A new key finds room, or a counter that authorizes nothing can be evicted.
CanTrack(t) == quota /\ ~IsTracked(t) => Len(tracked) < MaxTracked

\* Mutation of Overflow: one key too few makes room.
OverflowTooFew(t) == IF IsTracked(t) \/ Len(tracked) < MaxTracked THEN 0
                     ELSE Len(tracked) - MaxTracked

\* How many of the oldest keys make room for a new one, and which.
Overflow(t) == IF IsTracked(t) \/ Len(tracked) < MaxTracked THEN 0
               ELSE Len(tracked) - MaxTracked + 1
Evicted(t) == {tracked[i] : i \in 1 .. Overflow(t)}

\* The policy allows, the budget is charged and the tool invoked.
Invoke(x) ==
  LET t == exec[x].task IN
  /\ exec[x].pc = "policy"
  /\ used[t] < CallBound
  /\ WithinBudget(t) /\ CanTrack(t)
  /\ tracked' = IF IsTracked(t) THEN tracked
                ELSE Append(SubSeq(tracked, Overflow(t) + 1, Len(tracked)), t)
  /\ counts' = [u \in Tasks |-> CASE u = t -> counts[t] + 1
                                  [] u # t -> IF u \in Evicted(t) THEN 0 ELSE counts[u]]
  /\ used' = [used EXCEPT ![t] = @ + 1]
  /\ exec' = [exec EXCEPT ![x].pc = "tool"]
  /\ UNCHANGED quota

\* The tool is unknown, the policy denies or throws, or the budget is spent.
Refuse(x) ==
  /\ exec[x].pc = "policy"
  /\ Settled(x)
  /\ UNCHANGED <<quota, tracked, counts, used>>

ToolSettles(x) ==
  /\ exec[x].pc = "tool"
  /\ Settled(x)
  /\ UNCHANGED <<quota, tracked, counts, used>>

Forget(S, rest) ==
  /\ tracked' = rest
  /\ counts' = [t \in Tasks |-> IF t \in S THEN 0 ELSE counts[t]]
  /\ used' = [t \in Tasks |-> IF t \in S THEN 0 ELSE used[t]]
  /\ UNCHANGED <<quota, exec>>

Reset(t) == Forget({t}, RemoveFirst(tracked, t))
ResetAll == Forget(Tasks, <<>>)

ExecNext ==
  \/ \E x \in Execs, t \in Tasks : Execute(x, t)
  \/ \E x \in Execs : Invoke(x) \/ Refuse(x) \/ ToolSettles(x)
  \/ \E t \in Tasks : Reset(t)
  \/ ResetAll

ExecSpec == ExecInit /\ [][ExecNext]_execVars

-----------------------------------------------------------------------------
(* Properties *)

\* However many executions of a task wait for their policy at once, the tools
\* invoked for it since its last reset never exceed the quota: no check acts on
\* a count read before another execution charged it, no eviction forgets one.
BudgetRespected == quota => \A t \in Tasks : used[t] <= MaxToolCalls

\* The retained counters stay within their capacity, with and without a quota,
\* and are exactly the tasks that were charged.
TrackingBounded ==
  /\ Len(tracked) <= MaxTracked
  /\ \A t \in Tasks : IsTracked(t) <=> counts[t] > 0
=============================================================================
