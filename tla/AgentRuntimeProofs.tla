------------------------- MODULE AgentRuntimeProofs -------------------------
(***************************************************************************)
(* The custody of task IDs and budgets by one AgentRuntime, for any number  *)
(* of tasks and invocations.  ReservationCovers alone is not inductive: it  *)
(* needs that the runner's active execution is the one its invocation       *)
(* started (Custody), and that reservations are not cleared before the      *)
(* shutdown is done, which is later than the moment it begins (Covered).    *)
(***************************************************************************)
EXTENDS AgentRuntime, TLAPS

Types ==
  /\ counts \in [Tasks -> Nat]
  /\ exec \in [Execs -> Execution]
  /\ \A c \in Execs : exec[c].pc # "idle" => exec[c].task \in Tasks
  /\ phase \in {"new", "started", "stopped"}
  /\ call \in [Execs -> Call]
  /\ \A c \in Execs : Busy(c) => call[c].task \in Tasks
  /\ reserved \in [Tasks -> Execs \union {None}]
  /\ active \in [Tasks -> Execs \union {None}]
  /\ shutdown \in Shutdown

\* No two invocations share a task, stopped or not.
OneCall == \A c, d \in Execs : Busy(c) /\ Busy(d) /\ call[c].task = call[d].task => c = d

\* An execution belongs to the invocation of its slot, which waits for it, in
\* time or late, and it is the active one of its task.
Custody ==
  \A c \in Execs :
    /\ exec[c].pc # "idle" <=> call[c].pc \in {"exec", "late"}
    /\ exec[c].pc # "idle" => exec[c].task = call[c].task /\ active[exec[c].task] = c
    /\ call[c].custody = (IF call[c].pc = "late" THEN c ELSE None)

ActiveRuns == \A t \in Tasks : active[t] # None =>
                exec[active[t]].pc # "idle" /\ exec[active[t]].task = t

\* Reservations last until the shutdown is done, and only as long as a call.
Covered == shutdown.pc # "done" => \A c \in Execs : Busy(c) => reserved[call[c].task] = c
ReservedIsBusy == \A t \in Tasks : reserved[t] # None =>
                    Busy(reserved[t]) /\ call[reserved[t]].task = t
Phases == phase = "stopped" <=> shutdown.pc # "running"

\* What a stop with a drain left behind is what it reported.
Reported == shutdown.pc = "done" /\ shutdown.drain # "none" =>
              \A c \in Execs : Busy(c) => call[c].task \in shutdown.stranded

AInv == /\ Types /\ OneCall /\ Custody /\ ActiveRuns
        /\ Covered /\ ReservedIsBusy /\ Phases /\ Reported
        /\ BudgetKept /\ NoBudgetLeak

\* Everything the invariant says, for the leaves that need all of it.
LEMMA AInit == Init => AInv
<1> SUFFICES ASSUME Init PROVE AInv
  OBVIOUS
<1>1. \A c \in Execs : call[c] = NoCall /\ exec[c] = NoExecution /\ ~Busy(c)
  BY DEF Init, ExecInit, NoCall, NoExecution, Busy
<1>2. Types
  BY <1>1 DEF Types, Init, ExecInit, Execution, NoExecution, Call, NoCall, Pcs, Shutdown, Drains
<1>3. OneCall /\ Custody /\ ActiveRuns /\ Covered /\ ReservedIsBusy /\ Reported
  BY <1>1 DEF OneCall, Custody, ActiveRuns, Covered, ReservedIsBusy, Reported, Init, NoCall, NoExecution
<1>4. Phases /\ BudgetKept /\ NoBudgetLeak
  BY <1>1 DEF Phases, BudgetKept, NoBudgetLeak, Init, ExecInit, NoExecution
<1>. QED BY <1>2, <1>3, <1>4 DEF AInv

LEMMA StartKeeps == ASSUME AInv, Start PROVE AInv'
  BY DEF AInv, Start, Types, OneCall, Custody, ActiveRuns, Covered, ReservedIsBusy, Phases,
         Reported, BudgetKept, NoBudgetLeak, Busy, execVars

\* A new invocation takes a task ID that no reservation and hence no other
\* invocation holds.
LEMMA ExecuteTaskKeeps ==
  ASSUME AInv, NEW c \in Execs, NEW t \in Tasks, ExecuteTask(c, t)
  PROVE  AInv'
<1> USE DEF AInv
<1>1. /\ call'[c] = [pc |-> "run", task |-> t, custody |-> None]
      /\ \A d \in Execs \ {c} : call'[d] = call[d]
      /\ reserved'[t] = c /\ \A u \in Tasks \ {t} : reserved'[u] = reserved[u]
  BY DEF ExecuteTask, Types
<1>2. \A d \in Execs : Busy(d) => call[d].task # t
  <2>1. shutdown.pc = "running"
    BY DEF ExecuteTask, Phases, Types, Shutdown
  <2>. QED BY <2>1, BudgetParameters DEF Covered, ExecuteTask, InFlight
<1>3. exec[c].pc = "idle"
  BY DEF ExecuteTask, Busy, Custody, Types, Execution
<1>4. Types'
  BY <1>1 DEF Types, ExecuteTask, Call, Pcs, Busy, execVars
<1>5. OneCall' /\ Covered' /\ ReservedIsBusy'
  BY <1>1, <1>2, BudgetParameters DEF OneCall, Covered, ReservedIsBusy, Busy, ExecuteTask, InFlight, Types
<1>6. Custody' /\ ActiveRuns'
  BY <1>1, <1>3 DEF Custody, ActiveRuns, Busy, ExecuteTask, execVars
<1>7. Phases' /\ Reported'
  BY <1>1 DEF Phases, Reported, ExecuteTask, Types, Shutdown
<1>8. BudgetKept' /\ NoBudgetLeak'
  BY <1>1 DEF BudgetKept, NoBudgetLeak, Busy, ExecuteTask, execVars
<1>. QED BY <1>4, <1>5, <1>6, <1>7, <1>8

LEMMA RunExecutesKeeps ==
  ASSUME AInv, NEW c \in Execs, RunExecutes(c)
  PROVE  AInv'
<1> USE DEF AInv
<1> DEFINE t == call[c].task
<1>1. t \in Tasks /\ Busy(c) /\ exec[c].pc = "idle"
  BY DEF RunExecutes, Types, Busy, Execute
<1>2. /\ call'[c].pc = "exec" /\ call'[c].task = t /\ call'[c].custody = call[c].custody
      /\ call'[c] \in Call
      /\ \A d \in Execs \ {c} : call'[d] = call[d]
      /\ exec'[c] = [pc |-> "policy", task |-> t]
      /\ \A d \in Execs \ {c} : exec'[d] = exec[d]
      /\ active'[t] = c /\ \A u \in Tasks \ {t} : active'[u] = active[u]
      /\ UNCHANGED <<counts, quota>>
  BY <1>1 DEF RunExecutes, Execute, Types, Call, Pcs
<1>3. \A d \in Execs : Busy(d)' <=> Busy(d)
  BY <1>1, <1>2 DEF Busy
<1>4. \A d \in Execs : exec[d].pc # "idle" => exec[d].task # t
  BY <1>1 DEF Custody, OneCall, Busy, Types
<1>5. Types'
  BY <1>1, <1>2 DEF Types, RunExecutes, Execute, Busy, Execution
<1>6. OneCall' /\ Covered' /\ ReservedIsBusy' /\ Reported' /\ Phases'
  BY <1>2, <1>3 DEF OneCall, Covered, ReservedIsBusy, Reported, Phases, RunExecutes, Types
<1>7. Custody' /\ ActiveRuns'
  BY <1>1, <1>2, <1>4 DEF Custody, ActiveRuns, RunExecutes, Types
<1>8. BudgetKept' /\ NoBudgetLeak'
  BY <1>2, <1>3 DEF BudgetKept, NoBudgetLeak
<1>. QED BY <1>5, <1>6, <1>7, <1>8

\* Under a quota nobody is evicted to make room for the task that is charged.
LEMMA InvokeKeepsRuntime ==
  ASSUME AInv, NEW x \in Execs, ExecutorInvokes(x)
  PROVE  AInv'
<1> USE DEF AInv
<1> DEFINE t == exec[x].task
<1>1. t \in Tasks /\ exec[x].pc = "policy"
  BY DEF ExecutorInvokes, Invoke, Types
<1>2. /\ exec'[x].pc = "tool" /\ exec'[x].task = t /\ exec' \in [Execs -> Execution]
      /\ \A d \in Execs \ {x} : exec'[d] = exec[d]
      /\ counts'[t] = counts[t] + 1 /\ counts' \in [Tasks -> Nat]
      /\ \A u \in Tasks \ {t} : counts'[u] \in {0, counts[u]}
      /\ quota => \A u \in Tasks \ {t} : counts'[u] = counts[u]
      /\ quota' = quota
  <2>1. exec'[x].pc = "tool" /\ exec'[x].task = t /\ exec' \in [Execs -> Execution]
        /\ \A d \in Execs \ {x} : exec'[d] = exec[d]
    BY DEF ExecutorInvokes, Invoke, Types, Execution
  <2>2. counts'[t] = counts[t] + 1 /\ counts' \in [Tasks -> Nat]
        /\ \A u \in Tasks \ {t} : counts'[u] = IF u \in Evicted(t) THEN 0 ELSE counts[u]
    BY <1>1 DEF ExecutorInvokes, Invoke, Types
  <2>3. (quota => Evicted(t) = {}) /\ quota' = quota
    BY DEF ExecutorInvokes, Invoke, CanTrack, Overflow, Evicted
  <2>. QED BY <2>1, <2>2, <2>3
<1>3. UNCHANGED <<phase, call, reserved, active, shutdown>>
  BY DEF ExecutorInvokes
<1>4. Types'
  BY <1>1, <1>2, <1>3 DEF Types, Busy
<1>5. OneCall' /\ Covered' /\ ReservedIsBusy' /\ Reported' /\ Phases'
  BY <1>3 DEF OneCall, Covered, ReservedIsBusy, Reported, Phases, Busy
<1>6. Custody' /\ ActiveRuns'
  BY <1>1, <1>2, <1>3, BudgetParameters DEF Custody, ActiveRuns, Types
<1>7. BudgetKept'
  BY <1>1, <1>2 DEF BudgetKept, Types
<1>8. NoBudgetLeak'
  <2>1. Busy(x) /\ call[x].task = t
    BY <1>1 DEF Custody, Busy
  <2>. QED BY <1>2, <1>3, <2>1 DEF NoBudgetLeak, Busy, Types
<1>. QED BY <1>4, <1>5, <1>6, <1>7, <1>8

LEMMA SettlesKeeps ==
  ASSUME AInv, NEW x \in Execs, ExecutionSettles(x)
  PROVE  AInv'
<1> USE DEF AInv
<1> DEFINE t == exec[x].task
<1>1. t \in Tasks /\ exec[x].pc # "idle" /\ active[t] = x /\ call[x].pc \in {"exec", "late"}
      /\ call[x].task = t
  BY DEF ExecutionSettles, Refuse, ToolSettles, Types, Custody
<1>2. /\ exec'[x] = NoExecution /\ exec' \in [Execs -> Execution]
      /\ \A d \in Execs \ {x} : exec'[d] = exec[d]
      /\ UNCHANGED <<counts, quota>>
  <2>1. exec' = [exec EXCEPT ![x] = NoExecution] /\ UNCHANGED <<counts, quota>>
    BY DEF ExecutionSettles, Refuse, ToolSettles, Settled
  <2>2. NoExecution \in Execution
    BY DEF NoExecution, Execution
  <2>. QED BY <2>1, <2>2 DEF Types
<1>3. \A d \in Execs \ {x} : call[d].custody # x
  BY BudgetParameters DEF Custody
<1>4. /\ call'[x].pc \in {"settle", "free"} /\ call'[x].task = t /\ call'[x].custody = None
      /\ call' \in [Execs -> Call]
      /\ \A d \in Execs \ {x} : call'[d] = call[d]
  <2>1. \A d \in Execs \ {x} : call'[d] = call[d]
    BY <1>3 DEF ExecutionSettles
  <2>2. call'[x] = IF call[x].pc = "exec" THEN [call[x] EXCEPT !.pc = "settle"]
                   ELSE [call[x] EXCEPT !.pc = "free", !.custody = None]
    BY <1>1, BudgetParameters DEF ExecutionSettles, Custody
  <2>3. call'[x].pc \in {"settle", "free"} /\ call'[x].task = t /\ call'[x].custody = None
        /\ call'[x] \in Call
    <3>1. call[x] \in Call
      BY DEF Types
    <3>2. CASE call[x].pc = "exec"
      BY <1>1, <2>2, <3>1, <3>2 DEF Call, Pcs, Custody
    <3>3. CASE call[x].pc = "late"
      BY <1>1, <2>2, <3>1, <3>3 DEF Call, Pcs
    <3>. QED BY <1>1, <3>2, <3>3
  <2>4. DOMAIN call' = Execs /\ call' = [d \in Execs |-> call'[d]]
    BY DEF ExecutionSettles
  <2>. QED BY <2>1, <2>3, <2>4 DEF Types
<1>5. /\ active'[t] = None /\ active' \in [Tasks -> Execs \union {None}]
      /\ \A u \in Tasks \ {t} : active'[u] = active[u]
  BY <1>1 DEF ExecutionSettles, ActiveRuns, Types
<1>6. UNCHANGED <<phase, reserved, shutdown>>
  BY DEF ExecutionSettles
<1>7. \A d \in Execs : Busy(d)' <=> Busy(d)
  BY <1>1, <1>4 DEF Busy
<1>8. Types'
  BY <1>1, <1>2, <1>4, <1>5, <1>6 DEF Types, Busy, NoExecution
<1>9. OneCall' /\ Covered' /\ ReservedIsBusy' /\ Reported' /\ Phases'
  BY <1>1, <1>4, <1>6, <1>7 DEF OneCall, Covered, ReservedIsBusy, Reported, Phases, Types
<1>10. \A d \in Execs \ {x} : exec[d].pc # "idle" => exec[d].task # t
  BY <1>1 DEF Custody, OneCall, Busy
<1>11. Custody'
  BY <1>1, <1>2, <1>4, <1>5, <1>10, BudgetParameters DEF Custody, Types, NoExecution
<1>12. ActiveRuns'
  BY <1>1, <1>2, <1>4, <1>5, <1>10, BudgetParameters DEF ActiveRuns, Types, NoExecution
<1>13. BudgetKept' /\ NoBudgetLeak'
  BY <1>1, <1>2, <1>4, <1>7 DEF BudgetKept, NoBudgetLeak, NoExecution
<1>. QED BY <1>8, <1>9, <1>11, <1>12, <1>13

\* The end of an invocation that has no execution left.
LEMMA ReleaseKeeps ==
  ASSUME AInv, NEW c \in Execs, call[c].pc \in {"run", "settle", "free"}, ReleaseTask(c),
         UNCHANGED <<phase, active, shutdown>>
  PROVE  AInv'
<1> USE DEF AInv
<1> DEFINE t == call[c].task
<1>1. t \in Tasks /\ Busy(c) /\ exec[c].pc = "idle"
      /\ UNCHANGED <<exec, quota>>
  BY DEF Types, Busy, Custody, ReleaseTask
<1>2. /\ call'[c] = NoCall /\ call' \in [Execs -> Call]
      /\ \A d \in Execs \ {c} : call'[d] = call[d]
  <2>1. call' = [call EXCEPT ![c] = NoCall] /\ NoCall \in Call
    BY DEF ReleaseTask, NoCall, Call, Pcs
  <2>. QED BY <2>1 DEF Types
<1>3. /\ counts'[t] = 0 /\ counts' \in [Tasks -> Nat]
      /\ \A u \in Tasks \ {t} : counts'[u] = counts[u]
  BY <1>1 DEF ReleaseTask, Types
<1>4. reserved' \in [Tasks -> Execs \union {None}]
  BY DEF ReleaseTask, Types
<1>5. \A u \in Tasks : reserved'[u] = IF u = t /\ reserved[t] = c THEN None ELSE reserved[u]
  BY DEF ReleaseTask, Types
<1>6. \A d \in Execs : (Busy(d)' <=> Busy(d) /\ d # c) /\ (Busy(d)' => call[d].task # t)
  BY <1>1, <1>2 DEF Busy, NoCall, OneCall
<1>7. Types'
  BY <1>1, <1>2, <1>3, <1>4, <1>6 DEF Types
<1>8. OneCall' /\ Reported' /\ Phases'
  BY <1>2, <1>6 DEF OneCall, Reported, Phases
<1>9. Covered'
  BY <1>2, <1>5, <1>6 DEF Covered, Types
<1>10. ReservedIsBusy'
  BY <1>1, <1>2, <1>5, <1>6, BudgetParameters DEF ReservedIsBusy, Types
<1>11. Custody'
  BY <1>1, <1>2 DEF Custody, NoCall
<1>12. ActiveRuns'
  BY <1>1 DEF ActiveRuns
<1>13. BudgetKept'
  <2>1. \A d \in Execs : exec[d].pc # "idle" => exec[d].task \in Tasks \ {t}
    BY <1>1 DEF Custody, OneCall, Busy, Types
  <2>. QED BY <1>1, <1>3, <2>1 DEF BudgetKept
<1>14. NoBudgetLeak'
  BY <1>1, <1>2, <1>3, <1>6 DEF NoBudgetLeak, Types
<1>. QED BY <1>7, <1>8, <1>9, <1>10, <1>11, <1>12, <1>13, <1>14

\* The finally block without an active execution releases; the deadline always
\* finds one, and leaves the reservation in its custody.
LEMMA RunEndsKeeps ==
  ASSUME AInv, NEW c \in Execs, RunEnds(c)
  PROVE  AInv'
<1>1. call[c].task \in Tasks /\ Busy(c)
  BY DEF RunEnds, AInv, Types, Busy
<1>2. active[call[c].task] = None
  BY <1>1, BudgetParameters DEF RunEnds, AInv, Types, Custody, ActiveRuns, OneCall, Busy
<1>. QED BY <1>2, ReleaseKeeps DEF RunEnds, Finally

LEMMA DeadlineKeeps ==
  ASSUME AInv, NEW c \in Execs, Deadline(c)
  PROVE  AInv'
<1> USE DEF AInv
<1>1. /\ call[c].task \in Tasks /\ Busy(c) /\ exec[c].pc # "idle"
      /\ active[call[c].task] = c /\ c # None
  BY BudgetParameters DEF Deadline, Types, Busy, Custody
<1>2. /\ call' = [call EXCEPT ![c].pc = "late", ![c].custody = c]
      /\ UNCHANGED <<execVars, phase, reserved, active, shutdown>>
  BY <1>1 DEF Deadline, Finally
<1>3. /\ call' \in [Execs -> Call] /\ call'[c].pc = "late" /\ call'[c].custody = c
      /\ call'[c].task = call[c].task
      /\ \A d \in Execs \ {c} : call'[d] = call[d]
  BY <1>2 DEF Types, Call, Pcs
<1>4. \A d \in Execs : Busy(d)' <=> Busy(d)
  BY <1>1, <1>3 DEF Busy
<1>5. Types'
  BY <1>1, <1>2, <1>3, <1>4 DEF Types, execVars
<1>6. OneCall' /\ Covered' /\ ReservedIsBusy' /\ Reported' /\ Phases'
  BY <1>1, <1>2, <1>3, <1>4 DEF OneCall, Covered, ReservedIsBusy, Reported, Phases, Types
<1>7. Custody' /\ ActiveRuns'
  BY <1>1, <1>2, <1>3 DEF Custody, ActiveRuns, execVars
<1>8. BudgetKept' /\ NoBudgetLeak'
  BY <1>2, <1>3, <1>4 DEF BudgetKept, NoBudgetLeak, execVars
<1>. QED BY <1>5, <1>6, <1>7, <1>8

LEMMA DeferredReleaseKeeps ==
  ASSUME AInv, NEW c \in Execs, DeferredRelease(c)
  PROVE  AInv'
  BY ReleaseKeeps DEF DeferredRelease

\* While a shutdown is not done the reservations are the busy tasks.
LEMMA InFlightIsBusy ==
  ASSUME AInv, shutdown.pc # "done"
  PROVE  InFlight = {call[c].task : c \in {d \in Execs : Busy(d)}}
  BY BudgetParameters DEF AInv, Types, Covered, ReservedIsBusy, InFlight

\* The end of a shutdown, at once or after its drain.
LEMMA FinishKeeps ==
  ASSUME AInv, NEW drain \in Drains, shutdown.pc # "done", FinishStop(drain), phase' = "stopped",
         UNCHANGED <<execVars, call, active>>
  PROVE  AInv'
<1> USE DEF AInv
<1>1. /\ shutdown'.pc = "done" /\ shutdown'.drain = drain /\ shutdown' \in Shutdown
      /\ shutdown'.stranded = (IF drain = "none" THEN {} ELSE InFlight)
      /\ reserved' = [t \in Tasks |-> None]
  BY DEF FinishStop, Shutdown, InFlight
<1>2. Types' /\ OneCall' /\ Custody' /\ ActiveRuns' /\ Covered' /\ ReservedIsBusy' /\ Phases'
  BY <1>1 DEF Types, OneCall, Custody, ActiveRuns, Covered, ReservedIsBusy, Phases, Busy, execVars
<1>3. Reported'
  BY <1>1, InFlightIsBusy DEF Reported, Busy
<1>4. BudgetKept' /\ NoBudgetLeak'
  BY DEF BudgetKept, NoBudgetLeak, Busy, execVars
<1>. QED BY <1>2, <1>3, <1>4

LEMMA StopKeeps ==
  ASSUME AInv, NEW drain \in Drains, Stop(drain)
  PROVE  AInv'
<1>1. shutdown.pc = "running"
  BY DEF Stop, AInv, Types, Phases, Shutdown
<1>2. CASE drain = "timed"
  <2> USE DEF AInv
  <2>1. shutdown'.pc = "draining" /\ shutdown' \in Shutdown /\ phase' = "stopped"
        /\ UNCHANGED <<execVars, call, reserved, active>>
    <3>1. {reserved[t] : t \in InFlight} \subseteq Execs
      BY DEF InFlight, Types
    <3>. QED BY <1>2, <3>1 DEF Stop, Types, Shutdown
  <2>2. Types' /\ OneCall' /\ Custody' /\ ActiveRuns' /\ Covered' /\ ReservedIsBusy' /\ Phases'
    BY <1>1, <2>1 DEF Types, OneCall, Custody, ActiveRuns, Covered, ReservedIsBusy, Phases, Busy,
                      execVars
  <2>3. Reported' /\ BudgetKept' /\ NoBudgetLeak'
    BY <2>1 DEF Reported, BudgetKept, NoBudgetLeak, Busy, execVars
  <2>. QED BY <2>2, <2>3
<1>3. CASE drain # "timed"
  BY <1>1, <1>3, FinishKeeps DEF Stop
<1>. QED BY <1>2, <1>3

LEMMA DrainKeeps ==
  ASSUME AInv, DrainEnds \/ DrainTimesOut
  PROVE  AInv'
<1>1. shutdown.pc = "draining" /\ shutdown.drain \in Drains /\ phase' = "stopped"
      /\ FinishStop(shutdown.drain) /\ UNCHANGED <<execVars, call, active>>
  BY DEF DrainEnds, DrainTimesOut, AInv, Types, Shutdown, Phases
<1>. QED BY <1>1, FinishKeeps

\* The invariant is inductive.
LEMMA AStep == AInv /\ [Next]_vars => AInv'
<1> SUFFICES ASSUME AInv, [Next]_vars PROVE AInv'
  OBVIOUS
<1>1. CASE UNCHANGED vars
  BY <1>1 DEF AInv, vars, execVars, Types, OneCall, Custody, ActiveRuns, Covered, ReservedIsBusy,
              Phases, Reported, BudgetKept, NoBudgetLeak, Busy
<1>2. ASSUME NEW c \in Execs, CallStep(c) PROVE AInv'
  BY <1>2, RunExecutesKeeps, RunEndsKeeps, DeadlineKeeps, DeferredReleaseKeeps DEF CallStep
<1>. QED BY <1>1, <1>2, StartKeeps, ExecuteTaskKeeps, InvokeKeepsRuntime, SettlesKeeps, StopKeeps,
            DrainKeeps DEF Next

\* Until the runtime stops, an invocation and its tool hold the reservation of
\* their task, whichever ends first.
THEOREM ReservationHolds == Spec => []ReservationCovers
<1>1. AInv => ReservationCovers
  BY DEF AInv, ReservationCovers, Running, Covered, Phases, Custody, Busy
<1>. QED BY <1>1, AInit, AStep, PTL DEF Spec

\* A running task's budget is never reset under it ...
THEOREM BudgetsFollowTasks == Spec => []BudgetKept
<1>1. AInv => BudgetKept
  BY DEF AInv
<1>. QED BY <1>1, AInit, AStep, PTL DEF Spec

\* ... and none outlives its task.
THEOREM BudgetsEnd == Spec => []NoBudgetLeak
<1>1. AInv => NoBudgetLeak
  BY DEF AInv
<1>. QED BY <1>1, AInit, AStep, PTL DEF Spec

\* After a stop that had a drain timeout, only the tasks it reported go on.
THEOREM StoppedIsTerminal == Spec => []StopIsTerminal
<1>1. AInv => StopIsTerminal
  BY DEF AInv, StopIsTerminal, Reported, Custody, Busy
<1>. QED BY <1>1, AInit, AStep, PTL DEF Spec

\* The stopped event of such a stop names exactly the tasks still executing.
THEOREM StoppedEventExact == Spec => StoppedEventIsExact
<1>1. ASSUME AInv, Next, shutdown.pc # "done", shutdown'.pc = "done", shutdown'.drain # "none"
      PROVE  shutdown'.stranded = {call[c].task : c \in {d \in Execs : Busy(d)}}
  <2>1. shutdown' # shutdown
    BY <1>1
  <2>2. DrainEnds \/ DrainTimesOut \/ \E drain \in Drains : Stop(drain)
    BY <1>1, <2>1 DEF Next, Start, ExecuteTask, CallStep, RunExecutes, RunEnds, Deadline,
                      DeferredRelease, ExecutorInvokes, ExecutionSettles
  <2>3. ASSUME NEW drain \in Drains, Stop(drain) PROVE FinishStop(drain)
    BY <1>1, <2>3 DEF Stop, AInv, Types, Shutdown
  <2>4. PICK drain : FinishStop(drain)
    BY <2>2, <2>3 DEF DrainEnds, DrainTimesOut
  <2>5. shutdown'.stranded = InFlight
    BY <1>1, <2>4 DEF FinishStop
  <2>. QED BY <1>1, <2>5, InFlightIsBusy
<1>2. AInv /\ [Next]_vars =>
        [shutdown.pc # "done" /\ shutdown'.pc = "done" /\ shutdown'.drain # "none" =>
           shutdown'.stranded = {call[c].task : c \in {d \in Execs : Busy(d)}}]_vars
  BY <1>1
<1>. QED BY <1>2, AInit, AStep, PTL DEF Spec, StoppedEventIsExact

\* The count of the properties is one per task.
Tallied == used \in [Tasks -> Nat]

\* Inside the runtime the executor is still the executor: reservations, late
\* tools, deferred releases and stop() do nothing to it but its operations, so
\* its theorems hold here, too.
THEOREM RuntimeUsesTheExecutor == Spec => ExecSpec
<1>1. Init => ExecInit /\ Tallied
  BY DEF Init, ExecInit, Tallied
<1>2. AInv /\ Tallied /\ [Next]_vars => Tallied'
  <2> SUFFICES ASSUME AInv, Tallied, [Next]_vars PROVE Tallied'
    OBVIOUS
  <2>1. ASSUME NEW c \in Execs, ExecutorInvokes(c) PROVE Tallied'
    <3>1. exec[c].task \in Tasks /\ used[exec[c].task] \in Nat
      BY <2>1 DEF ExecutorInvokes, Invoke, AInv, Types, Tallied
    <3>2. used' = [used EXCEPT ![exec[c].task] = used[exec[c].task] + 1]
      BY <2>1 DEF ExecutorInvokes, Invoke
    <3>. QED BY <3>1, <3>2 DEF Tallied
  <2>2. ASSUME NEW c \in Execs, ReleaseTask(c) PROVE Tallied'
    BY <2>2 DEF ReleaseTask, Tallied
  <2>3. CASE UNCHANGED used
    BY <2>3 DEF Tallied
  <2>4. ASSUME NEW c \in Execs, CallStep(c) PROVE UNCHANGED used \/ ReleaseTask(c)
    BY <2>4 DEF CallStep, RunExecutes, Execute, RunEnds, Deadline, DeferredRelease, Finally, execVars
  <2>5. CASE Next
    BY <2>1, <2>2, <2>3, <2>4, <2>5
       DEF Next, Start, ExecuteTask, ExecutionSettles, Refuse, ToolSettles, Stop, DrainEnds, DrainTimesOut,
           execVars
  <2>. QED BY <2>3, <2>5 DEF vars, execVars
<1>3. AInv /\ Tallied /\ [Next]_vars => [ExecNext]_execVars
  <2> SUFFICES ASSUME AInv, Tallied, Next PROVE ExecNext \/ UNCHANGED execVars
    BY DEF vars
  <2>1. ASSUME NEW c \in Execs, ReleaseTask(c), call[c].task \in Tasks PROVE ExecNext
    <3>1. Reset(call[c].task)
      BY <2>1 DEF ReleaseTask, Reset, Forget, AInv, Types, Tallied
    <3>. QED BY <2>1, <3>1 DEF ExecNext
  <2>2. ASSUME NEW c \in Execs, CallStep(c) PROVE ExecNext \/ UNCHANGED execVars
    <3>1. call[c].task \in Tasks
      BY <2>2 DEF CallStep, RunExecutes, RunEnds, Deadline, DeferredRelease, AInv, Types, Busy
    <3>2. CASE RunExecutes(c)
      BY <3>1, <3>2 DEF RunExecutes, ExecNext
    <3>3. CASE ReleaseTask(c) \/ UNCHANGED execVars
      BY <2>1, <3>1, <3>3
    <3>. QED BY <2>2, <3>2, <3>3 DEF CallStep, RunEnds, Deadline, DeferredRelease, Finally
  <2>3. ASSUME NEW x \in Execs, ExecutorInvokes(x) \/ ExecutionSettles(x) PROVE ExecNext
    BY <2>3 DEF ExecutorInvokes, ExecutionSettles, ExecNext
  <2>. QED BY <2>2, <2>3 DEF Next, Start, ExecuteTask, Stop, DrainEnds, DrainTimesOut
<1>. QED BY <1>1, <1>2, <1>3, AInit, AStep, PTL DEF Spec, ExecSpec
=============================================================================
