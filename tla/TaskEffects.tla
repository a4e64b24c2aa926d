----------------------------- MODULE TaskEffects -----------------------------
(***************************************************************************)
(* What task runners promise about the side effects of a task, without      *)
(* claims, markers, deadlines or processes: an attempt begins only when no  *)
(* earlier attempt of its task may still act and none had an effect whose   *)
(* result is not durable; an attempt that is over stays over; the result of *)
(* an attempt that is over can be recorded, or its effect be ruled out.     *)
(***************************************************************************)
CONSTANTS Tasks, Gens, None

VARIABLES begun,    \* attempts that were started
          task,     \* attempt -> its task
          acting,   \* attempts that may still have their effect
          applied,  \* attempts whose effect happened
          recorded, \* attempts whose result is durable
          refuted   \* attempts a receipt says had no effect

effectVars == <<begun, task, acting, applied, recorded, refuted>>

Init == /\ begun = {} /\ acting = {}
        /\ task = [g \in Gens |-> None]
        /\ applied = {} /\ recorded = {} /\ refuted = {}

\* Another execution of the task would risk a second, uncoordinated effect.
AtRisk == acting \union (applied \ recorded)

Begin(g, t) ==
  /\ g \notin begun
  /\ \A h \in AtRisk : task[h] # t
  /\ begun' = begun \union {g}
  /\ acting' = acting \union {g}
  /\ task' = [task EXCEPT ![g] = t]
  /\ UNCHANGED <<applied, recorded, refuted>>

Happen(g) ==
  /\ g \in acting \ applied
  /\ applied' = applied \union {g}
  /\ UNCHANGED <<begun, task, acting, recorded, refuted>>

\* Tools settle one by one; a process takes all it had not started with it.
Cease(S) ==
  /\ acting' = acting \ S
  /\ UNCHANGED <<begun, task, applied, recorded, refuted>>

Record(g) ==
  /\ g \in begun \ acting
  /\ recorded' = recorded \union {g}
  /\ UNCHANGED <<begun, task, acting, applied, refuted>>

Refute(g) ==
  /\ g \in begun \ (acting \union applied)
  /\ refuted' = refuted \union {g}
  /\ UNCHANGED <<begun, task, acting, applied, recorded>>

Next ==
  \/ \E g \in Gens, t \in Tasks : Begin(g, t)
  \/ \E g \in Gens : Happen(g) \/ Record(g) \/ Refute(g)
  \/ \E S \in SUBSET acting : Cease(S)

Spec == Init /\ [][Next]_effectVars
=============================================================================
