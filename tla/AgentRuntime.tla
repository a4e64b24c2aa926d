---------------------------- MODULE AgentRuntime ----------------------------
(***************************************************************************)
(* One AgentRuntime: executeTask() with its reservations, the TaskRunner    *)
(* deadline that ends a call before its tool, the ActionExecutor budgets    *)
(* reset at the end of a task's lifecycle, and the terminal stop() with its *)
(* optional drain.                                                         *)
(*                                                                         *)
(* A step is what runs between two awaits, the events it emits included:   *)
(* what a listener calls back into the runtime is the same as a call just  *)
(* before or just after the step.                                          *)
(***************************************************************************)
EXTENDS ActionExecutor

CONSTANTS HasTimeout  \* TRUE: maxTaskDurationMs is configured

ASSUME HasTimeoutBoolean == HasTimeout \in BOOLEAN

VARIABLES phase,     \* started / stopped flags
          call,      \* slot -> executeTask() invocation
          reserved,  \* inFlightTasks, inFlightPromises: task -> invocation
          active,    \* TaskRunner.activeExecutions: task -> execution
          shutdown   \* stopPromise: stage, drain asked for, what it waits on, outcome

vars == <<execVars, phase, call, reserved, active, shutdown>>

\* An invocation is before its tool ("run"), waits for it ("exec"), records and
\* cleans up ("settle"), has been rejected by the deadline with the tool still
\* running ("late"), or learnt that this tool has settled ("free").
Pcs == {"idle", "run", "exec", "settle", "late", "free"}
Call == [pc : Pcs, task : Tasks \union {None}, custody : Execs \union {None}]
NoCall == [pc |-> "idle", task |-> None, custody |-> None]

Drains == {"none", "zero", "timed"}
Shutdown == [pc : {"running", "draining", "done"}, drain : Drains,
             waits : SUBSET Execs, stranded : SUBSET Tasks]

TypeOK ==
  /\ ExecTypeOK
  /\ phase \in {"new", "started", "stopped"}
  /\ call \in [Execs -> Call]
  /\ \A c \in Execs : call[c].pc # "idle" => call[c].task \in Tasks
  /\ reserved \in [Tasks -> Execs \union {None}]
  /\ active \in [Tasks -> Execs \union {None}]
  /\ shutdown \in Shutdown

Init ==
  /\ ExecInit
  /\ phase = "new"
  /\ call = [c \in Execs |-> NoCall]
  /\ reserved = [t \in Tasks |-> None]
  /\ active = [t \in Tasks |-> None]
  /\ shutdown = [pc |-> "running", drain |-> "none", waits |-> {}, stranded |-> {}]

Busy(c) == call[c].pc # "idle"
InFlight == {t \in Tasks : reserved[t] # None}

-----------------------------------------------------------------------------
Start ==
  /\ phase = "new"
  /\ phase' = "started"
  /\ UNCHANGED <<execVars, call, reserved, active, shutdown>>

\* Mutation of ExecuteTask: a stopped runtime takes new tasks.
ExecuteTaskAnytime(c, t) ==
  /\ phase # "new"
  /\ ~Busy(c)
  /\ t \notin InFlight
  /\ call' = [call EXCEPT ![c] = [pc |-> "run", task |-> t, custody |-> None]]
  /\ reserved' = [reserved EXCEPT ![t] = c]
  /\ UNCHANGED <<execVars, phase, active, shutdown>>

\* executeTask() up to the first await: the task ID is reserved synchronously.
ExecuteTask(c, t) ==
  /\ phase = "started"
  /\ ~Busy(c)
  /\ t \notin InFlight
  /\ call' = [call EXCEPT ![c] = [pc |-> "run", task |-> t, custody |-> None]]
  /\ reserved' = [reserved EXCEPT ![t] = c]
  /\ UNCHANGED <<execVars, phase, active, shutdown>>

\* The run has its claim: the executor starts and is the active execution.
RunExecutes(c) ==
  /\ call[c].pc = "run"
  /\ Execute(c, call[c].task)
  /\ active' = [active EXCEPT ![call[c].task] = c]
  /\ call' = [call EXCEPT ![c].pc = "exec"]
  /\ UNCHANGED <<phase, reserved, shutdown>>

ExecutorInvokes(x) ==
  /\ Invoke(x)
  /\ UNCHANGED <<phase, call, reserved, active, shutdown>>

\* Mutation of ExecutionSettles: nobody tells the deferred releases.
ExecutionSettlesUnheard(x) ==
  /\ Refuse(x) \/ ToolSettles(x)
  /\ active' = [t \in Tasks |-> IF active[t] = x THEN None ELSE active[t]]
  /\ call' = IF call[x].pc = "exec" THEN [call EXCEPT ![x].pc = "settle"] ELSE call
  /\ UNCHANGED <<phase, reserved, shutdown>>

\* The execution settles: run() goes on if it still waits for it, the active
\* entry goes if it is still this one, deferred releases hear of it.
ExecutionSettles(x) ==
  /\ Refuse(x) \/ ToolSettles(x)
  /\ active' = [t \in Tasks |-> IF active[t] = x THEN None ELSE active[t]]
  /\ call' = [c \in Execs |->
                IF c = x /\ call[c].pc = "exec" THEN [call[c] EXCEPT !.pc = "settle"]
                ELSE IF call[c].custody = x THEN [call[c] EXCEPT !.pc = "free", !.custody = None]
                ELSE call[c]]
  /\ UNCHANGED <<phase, reserved, shutdown>>

\* Mutation of ReleaseTask: the guard of the reservation covers the reset, too.
ReleaseTaskIfOurs(c) ==
  LET t == call[c].task IN
  /\ call' = [call EXCEPT ![c] = NoCall]
  /\ IF reserved[t] = c
     THEN /\ tracked' = RemoveFirst(tracked, t)
          /\ counts' = [counts EXCEPT ![t] = 0]
          /\ used' = [used EXCEPT ![t] = 0]
          /\ reserved' = [reserved EXCEPT ![t] = None]
     ELSE UNCHANGED <<tracked, counts, used, reserved>>
  /\ UNCHANGED <<quota, exec>>

\* releaseTask(): the budget is reset; the reservation goes if it is still ours.
ReleaseTask(c) ==
  LET t == call[c].task IN
  /\ tracked' = RemoveFirst(tracked, t)
  /\ counts' = [counts EXCEPT ![t] = 0]
  /\ used' = [used EXCEPT ![t] = 0]
  /\ reserved' = IF reserved[t] = c THEN [reserved EXCEPT ![t] = None] ELSE reserved
  /\ call' = [call EXCEPT ![c] = NoCall]
  /\ UNCHANGED <<quota, exec>>

\* Mutation of Finally: a rejected run is released, tool or no tool.
FinallyReleases(c) == ReleaseTask(c)

\* Mutation of Finally: a late tool keeps its reservation but not its budget.
FinallyResets(c) ==
  IF active[call[c].task] = None
  THEN ReleaseTask(c)
  ELSE /\ call' = [call EXCEPT ![c].pc = "late", ![c].custody = active[call[c].task]]
       /\ Reset(call[c].task)
       /\ UNCHANGED reserved

\* The finally block of executeTask(), once run() has resolved or rejected.
Finally(c) ==
  IF active[call[c].task] = None
  THEN ReleaseTask(c)
  ELSE /\ call' = [call EXCEPT ![c].pc = "late", ![c].custody = active[call[c].task]]
       /\ UNCHANGED <<execVars, reserved>>

\* run() ends before its tool (refused claim, store error) or after the append
\* and the cleanup that follow it.
RunEnds(c) ==
  /\ call[c].pc \in {"run", "settle"}
  /\ Finally(c)
  /\ UNCHANGED <<phase, active, shutdown>>

Deadline(c) ==
  /\ HasTimeout
  /\ call[c].pc = "exec"
  /\ Finally(c)
  /\ UNCHANGED <<phase, active, shutdown>>

DeferredRelease(c) ==
  /\ call[c].pc = "free"
  /\ ReleaseTask(c)
  /\ UNCHANGED <<phase, active, shutdown>>

-----------------------------------------------------------------------------
\* Mutation of FinishStop: the reservations are forgotten before the report.
FinishStopForgetsFirst(drain) ==
  /\ shutdown' = [pc |-> "done", drain |-> drain, waits |-> {}, stranded |-> {}]
  /\ reserved' = [t \in Tasks |-> None]

\* finishStop() after its drain: report, forget the reservations, emit the event.
FinishStop(drain) ==
  /\ shutdown' = [pc |-> "done", drain |-> drain, waits |-> {},
                  stranded |-> IF drain = "none" THEN {} ELSE InFlight]
  /\ reserved' = [t \in Tasks |-> None]

\* Only a positive drain timeout waits, for the invocations in flight now; any
\* later stop() shares the first one's promise.
Stop(drain) ==
  /\ phase = "started"
  /\ phase' = "stopped"
  /\ IF drain = "timed"
     THEN /\ shutdown' = [shutdown EXCEPT !.pc = "draining", !.drain = drain,
                            !.waits = {reserved[t] : t \in InFlight}]
          /\ UNCHANGED reserved
     ELSE FinishStop(drain)
  /\ UNCHANGED <<execVars, call, active>>

\* inFlightPromises settle when their reservation is released.
Drained == \A c \in shutdown.waits : c \notin {reserved[t] : t \in InFlight}

DrainEnds ==
  /\ shutdown.pc = "draining"
  /\ Drained
  /\ FinishStop(shutdown.drain)
  /\ UNCHANGED <<execVars, phase, call, active>>

\* Mutation of DrainTimesOut: the drain waits for the last task.
DrainNeverTimesOut ==
  /\ shutdown.pc = "draining"
  /\ Drained
  /\ FinishStop(shutdown.drain)
  /\ UNCHANGED <<execVars, phase, call, active>>

DrainTimesOut ==
  /\ shutdown.pc = "draining"
  /\ FinishStop(shutdown.drain)
  /\ UNCHANGED <<execVars, phase, call, active>>

CallStep(c) == RunExecutes(c) \/ RunEnds(c) \/ Deadline(c) \/ DeferredRelease(c)

Next ==
  \/ Start
  \/ \E c \in Execs, t \in Tasks : ExecuteTask(c, t)
  \/ \E c \in Execs : CallStep(c) \/ ExecutorInvokes(c) \/ ExecutionSettles(c)
  \/ \E drain \in Drains : Stop(drain)
  \/ DrainEnds \/ DrainTimesOut

Spec == Init /\ [][Next]_vars

\* Claims, appends, timers and promise callbacks come to an end; policies and
\* tools need not settle.
FairSpec == /\ Spec
            /\ \A c \in Execs : WF_vars(RunEnds(c) \/ DeferredRelease(c))
            /\ WF_vars(DrainEnds) /\ WF_vars(DrainTimesOut)

-----------------------------------------------------------------------------
(* Properties *)

Running(t) == {c \in Execs : exec[c].pc # "idle" /\ exec[c].task = t}

\* Until the runtime stops, whoever is inside executeTask() or still has a tool
\* (or its policy) running holds the task ID: no second execution of the task
\* can start next to it, not even after the deadline has rejected the first.
ReservationCovers ==
  phase # "stopped" =>
    /\ \A c \in Execs : Busy(c) => reserved[call[c].task] = c
    /\ \A t \in Tasks : \A c \in Running(t) : reserved[t] = c

\* A task's budget belongs to one lifecycle: it is kept while its tool runs ...
BudgetKept == \A c \in Execs : quota /\ exec[c].pc = "tool" => counts[exec[c].task] > 0

\* ... and given back afterwards, so that tasks that are over never use up the
\* capacity new tasks need.
NoBudgetLeak == \A t \in Tasks : counts[t] > 0 => \E c \in Execs : Busy(c) /\ call[c].task = t

\* A stop with an explicit drain timeout reports exactly the tasks that are
\* still being executed when it emits runtime.stopped.
StoppedEventIsExact ==
  [][shutdown.pc # "done" /\ shutdown'.pc = "done" /\ shutdown'.drain # "none" =>
       shutdown'.stranded = {call[c].task : c \in {d \in Execs : Busy(d)}}]_vars

\* After such a stop nothing else is going on, then or later.
StopIsTerminal ==
  shutdown.pc = "done" /\ shutdown.drain # "none" =>
    \A c \in Execs :
      /\ Busy(c) => call[c].task \in shutdown.stranded
      /\ exec[c].pc # "idle" => exec[c].task \in shutdown.stranded

\* stop() settles even if no tool ever does.
StopSettles == phase = "stopped" ~> shutdown.pc = "done"

\* A reservation outlives everything but its own policy and tool.
CustodyEnds == \A c \in Execs : []<>(~Busy(c) \/ exec[c].pc # "idle")
=============================================================================
