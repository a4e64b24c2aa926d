--------------------------- MODULE RuntimeEventBus ---------------------------
(***************************************************************************)
(* RuntimeEventBus: synchronous dispatch over a snapshot of the listeners,  *)
(* to code that may register, unregister and emit again while it runs, and  *)
(* the reporting of listeners that fail.                                   *)
(*                                                                         *)
(* The JavaScript call stack is the variable stack.  Whoever is on top acts *)
(* (a listener, the error observer, or, when it is empty, any caller);      *)
(* everything below waits for it to return.                                *)
(***************************************************************************)
EXTENDS Naturals, Sequences, FiniteSets, SequencesExt

CONSTANTS Names,        \* event names ...
          Internal,     \* ... runtime.internal.error among them
          Listeners,    \* functions given to on()
          Wraps,        \* wrappers made by once(), one per call
          Nobody,
          MaxListeners, \* per event name
          HasObserver,  \* TRUE: an onListenerError callback is configured
          MaxDepth      \* bound of the model: frames on the call stack

ASSUME BusParameters ==
  /\ Internal \in Names
  /\ Listeners \intersect Wraps = {} /\ Nobody \notin Listeners \union Wraps
  /\ HasObserver \in BOOLEAN /\ MaxListeners \in Nat \ {0}

VARIABLES listeners, \* event name -> registered functions in insertion order
          original,  \* wrapper -> the listener once() wrapped
          fired,     \* wrapper -> times it called its listener
          stack,
          emitting,  \* isEmittingInternalError
          notifying, \* isNotifyingListenerErrorObserver
          pending    \* names with listener promises that may still reject

vars == <<listeners, original, fired, stack, emitting, notifying, pending>>

Registrable == Listeners \union Wraps

\* A dispatch knows what is left of its snapshot and whom it is calling; "own"
\* tells the bus's report of a failure from an emit() by a caller.  The last two
\* are history: who, of the snapshot, was left registered and is not called yet,
\* and who was registered since the dispatch began.
Dispatch == [kind : {"dispatch"}, name : Names, todo : Seq(Registrable),
             running : Registrable \union {Nobody}, own : BOOLEAN,
             owed : SUBSET Registrable, added : SUBSET Registrable]
\* handleListenerError(): first the observer, then the internal event.
Failure == [kind : {"failure"}, name : Names, stage : {"observe", "report"}]
Observer == [kind : {"observer"}]

NewDispatch(n, own) ==
  [kind |-> "dispatch", name |-> n, todo |-> listeners[n], running |-> Nobody, own |-> own,
   owed |-> ToSet(listeners[n]), added |-> {}]
NewFailure(n) == [kind |-> "failure", name |-> n, stage |-> "observe"]

TypeOK ==
  /\ \A n \in Names : /\ listeners[n] \in Seq(Registrable) /\ IsInjective(listeners[n])
                      /\ Len(listeners[n]) <= MaxListeners
  /\ original \in [Wraps -> Listeners \union {Nobody}]
  /\ fired \in [Wraps -> Nat]
  /\ \A i \in DOMAIN stack : stack[i] \in Dispatch \union Failure \union Observer
  /\ emitting \in BOOLEAN /\ notifying \in BOOLEAN
  /\ pending \subseteq Names

Init ==
  /\ listeners = [n \in Names |-> <<>>]
  /\ original = [w \in Wraps |-> Nobody]
  /\ fired = [w \in Wraps |-> 0]
  /\ stack = <<>>
  /\ emitting = FALSE /\ notifying = FALSE
  /\ pending = {}

-----------------------------------------------------------------------------
Top == Head(stack)
Below == Tail(stack)
SetTop(frame) == stack' = <<frame>> \o Below

IsDispatch(f) == f.kind = "dispatch"

\* User code is running: a listener, the observer, or a caller at top level.
UserCode == IF stack = <<>> THEN TRUE
            ELSE \/ Top.kind = "observer"
                 \/ IsDispatch(Top) /\ Top.running # Nobody

\* What the dispatches of n under way remember of a change of its listeners.
Remember(frames, n, removed, added) ==
  [i \in DOMAIN frames |->
     IF IsDispatch(frames[i]) /\ frames[i].name = n
     THEN [frames[i] EXCEPT !.owed = @ \ removed, !.added = @ \union added]
     ELSE frames[i]]

Registered(n, f) == f \in ToSet(listeners[n])
Unregister(n, f) == listeners' = [listeners EXCEPT ![n] = RemoveFirst(@, f)]

Add(n, f) ==
  /\ UserCode
  /\ ~Registered(n, f)
  /\ Len(listeners[n]) < MaxListeners
  /\ listeners' = [listeners EXCEPT ![n] = Append(@, f)]
  /\ stack' = Remember(stack, n, {}, {f})
  /\ UNCHANGED <<fired, emitting, notifying, pending>>

On(n, l) == Add(n, l) /\ UNCHANGED original

Once(n, w, l) == /\ original[w] = Nobody
                 /\ Add(n, w)
                 /\ original' = [original EXCEPT ![w] = l]

\* What off(n, f) removes: f itself, or else the oldest wrapper around it.
Target(n, f) ==
  IF Registered(n, f) THEN {f}
  ELSE LET fs == listeners[n]
           wrapped == {i \in DOMAIN fs : fs[i] \in Wraps /\ original[fs[i]] = f}
       IN IF wrapped = {} THEN {} ELSE {fs[Min(wrapped)]}

\* off(), or the function on() or once() returned, called at any later time.
Off(n, f) ==
  /\ UserCode
  /\ \E g \in Target(n, f) : Unregister(n, g) /\ stack' = Remember(stack, n, {g}, {})
  /\ UNCHANGED <<original, fired, emitting, notifying, pending>>

ClearListeners ==
  /\ UserCode
  /\ listeners' = [n \in Names |-> <<>>]
  /\ stack' = [i \in DOMAIN stack |->
                 IF IsDispatch(stack[i]) THEN [stack[i] EXCEPT !.owed = {}] ELSE stack[i]]
  /\ UNCHANGED <<original, fired, emitting, notifying, pending>>

Emit(n) ==
  /\ UserCode
  /\ Len(stack) < MaxDepth
  /\ listeners[n] # <<>>
  /\ stack' = <<NewDispatch(n, FALSE)>> \o stack
  /\ UNCHANGED <<listeners, original, fired, emitting, notifying, pending>>

-----------------------------------------------------------------------------
\* The dispatch loop.

Upcoming == Head(Top.todo)

\* Mutation of Deliver: a wrapper calls its listener without unregistering.
DeliverAgain ==
  /\ stack # <<>> /\ IsDispatch(Top) /\ Top.running = Nobody /\ Top.todo # <<>>
  /\ Registered(Top.name, Upcoming)
  /\ fired' = IF Upcoming \in Wraps THEN [fired EXCEPT ![Upcoming] = @ + 1] ELSE fired
  /\ SetTop([Top EXCEPT !.todo = Tail(@), !.running = Upcoming, !.owed = @ \ {Upcoming}])
  /\ UNCHANGED <<listeners, original, emitting, notifying, pending>>

\* A wrapper unregisters itself before it calls its listener.
Deliver ==
  /\ stack # <<>> /\ IsDispatch(Top) /\ Top.running = Nobody /\ Top.todo # <<>>
  /\ Registered(Top.name, Upcoming)
  /\ IF Upcoming \in Wraps
     THEN Unregister(Top.name, Upcoming) /\ fired' = [fired EXCEPT ![Upcoming] = @ + 1]
     ELSE UNCHANGED <<listeners, fired>>
  /\ stack' = <<[Top EXCEPT !.todo = Tail(@), !.running = Upcoming, !.owed = @ \ {Upcoming}]>>
              \o Remember(Below, Top.name, {Upcoming} \intersect Wraps, {})
  /\ UNCHANGED <<original, emitting, notifying, pending>>

Skip ==
  /\ stack # <<>> /\ IsDispatch(Top) /\ Top.running = Nobody /\ Top.todo # <<>>
  /\ ~Registered(Top.name, Upcoming)
  /\ SetTop([Top EXCEPT !.todo = Tail(@)])
  /\ UNCHANGED <<listeners, original, fired, emitting, notifying, pending>>

\* The listener returns, perhaps with a promise.
Return ==
  /\ stack # <<>> /\ IsDispatch(Top) /\ Top.running # Nobody
  /\ SetTop([Top EXCEPT !.running = Nobody])
  /\ pending' \in {pending, pending \union {Top.name}}
  /\ UNCHANGED <<listeners, original, fired, emitting, notifying>>

\* Mutation of Throw: a failing listener ends the dispatch.
ThrowAborts ==
  /\ stack # <<>> /\ IsDispatch(Top) /\ Top.running # Nobody
  /\ stack' = <<NewFailure(Top.name), [Top EXCEPT !.running = Nobody, !.todo = <<>>]>> \o Below
  /\ UNCHANGED <<listeners, original, fired, emitting, notifying, pending>>

Throw ==
  /\ stack # <<>> /\ IsDispatch(Top) /\ Top.running # Nobody
  /\ stack' = <<NewFailure(Top.name), [Top EXCEPT !.running = Nobody]>> \o Below
  /\ UNCHANGED <<listeners, original, fired, emitting, notifying, pending>>

DispatchEnds ==
  /\ stack # <<>> /\ IsDispatch(Top) /\ Top.running = Nobody /\ Top.todo = <<>>
  /\ stack' = Below
  /\ emitting' = (emitting /\ ~Top.own)
  /\ UNCHANGED <<listeners, original, fired, notifying, pending>>

-----------------------------------------------------------------------------
\* Failures.

\* A listener's promise rejects, in a microtask of its own.
Reject(n) ==
  /\ stack = <<>>
  /\ n \in pending
  /\ pending' \in {pending, pending \ {n}}
  /\ stack' = <<NewFailure(n)>>
  /\ UNCHANGED <<listeners, original, fired, emitting, notifying>>

Observe ==
  /\ stack # <<>> /\ Top.kind = "failure" /\ Top.stage = "observe"
  /\ LET reporting == <<[Top EXCEPT !.stage = "report"]>> \o Below IN
     IF HasObserver /\ ~notifying
     THEN stack' = <<[kind |-> "observer"]>> \o reporting /\ notifying' = TRUE
     ELSE stack' = reporting /\ UNCHANGED notifying
  /\ UNCHANGED <<listeners, original, fired, emitting, pending>>

\* The observer returns or fails; its own failure is only logged.
ObserverEnds ==
  /\ stack # <<>> /\ Top.kind = "observer"
  /\ stack' = Below
  /\ notifying' = FALSE
  /\ UNCHANGED <<listeners, original, fired, emitting, pending>>

\* Mutation of Reportable: a report may be made while another is emitted.
ReportableAnytime == Top.name # Internal

Reportable == Top.name # Internal /\ ~emitting

\* runtime.internal.error, unless it is what failed or is being emitted.
Report ==
  /\ stack # <<>> /\ Top.kind = "failure" /\ Top.stage = "report"
  /\ IF Reportable /\ listeners[Internal] # <<>>
     THEN SetTop(NewDispatch(Internal, TRUE)) /\ emitting' = TRUE
     ELSE stack' = Below /\ UNCHANGED emitting
  /\ UNCHANGED <<listeners, original, fired, notifying, pending>>

Next ==
  \/ \E n \in Names :
       \/ \E l \in Listeners : On(n, l) \/ \E w \in Wraps : Once(n, w, l)
       \/ \E f \in Registrable : Off(n, f)
       \/ Emit(n) \/ Reject(n)
  \/ ClearListeners
  \/ Deliver \/ Skip \/ Return \/ Throw \/ DispatchEnds
  \/ Observe \/ ObserverEnds \/ Report

Spec == Init /\ [][Next]_vars

-----------------------------------------------------------------------------
(* Properties *)

\* A listener registered with once() is called at most once, however dispatches
\* of its event nest and whatever other listeners do to it.
OnceFiresOnce == \A w \in Wraps : fired[w] <= 1

\* Nobody is forgotten: at the end of a dispatch everyone who was registered when
\* it began and was left alone has been called, failures of others included.
EveryoneHears ==
  \A i \in DOMAIN stack :
    IsDispatch(stack[i]) /\ stack[i].todo = <<>> => stack[i].owed = {}

\* Reporting a failure never recurses: one internal-error report and one observer
\* call at a time, and the flags that suppress the others are up only meanwhile,
\* so that later failures are reported again.
ReportsDoNotRecurse ==
  LET own == {i \in DOMAIN stack : IsDispatch(stack[i]) /\ stack[i].own}
      observing == {i \in DOMAIN stack : stack[i].kind = "observer"}
  IN /\ Cardinality(own) <= 1 /\ Cardinality(observing) <= 1
     /\ emitting <=> own # {}
     /\ notifying <=> observing # {}

\* What the comment in emit() says: listeners added during a dispatch do not
\* fire on it.
AddedDoNotFire ==
  \A i \in DOMAIN stack : IsDispatch(stack[i]) => stack[i].running \notin stack[i].added
=============================================================================
