----------------------- MODULE RuntimeServicesProofs -----------------------
(***************************************************************************)
(* What the services around a runtime promise, for any number of listeners, *)
(* agents, processes, entries and capacities.                              *)
(*                                                                         *)
(* The event bus.  The invariant reads the call stack: at most one frame is *)
(* a report of the bus's own and at most one the observer, the flags say    *)
(* whether there is one, and whoever a dispatch owes its event to is still  *)
(* registered and still in what is left of the snapshot.  Every step takes  *)
(* a frame off the stack, puts some on, or only notes a change of the       *)
(* listeners in the frames; there is a lemma for each.                      *)
(*                                                                         *)
(* The bounded containers.  Everything inserted bears a stamp; what was      *)
(* dropped has at least the capacity's number of later stamps in the         *)
(* container, and evictions counts what is gone of the agents.  The three    *)
(* containers are alike, so one lemma inserts and one removes for all.       *)
(*                                                                         *)
(* The memory stores.  In memory, the counts are the numbers of entries, so  *)
(* that an append removes just the places the limits name.  On file, who     *)
(* loads, flushes or unlocks holds the lock, and has loaded what the file    *)
(* still is; entries of operations under way are in no history yet.          *)
(***************************************************************************)
EXTENDS RuntimeEventBus, BoundedStores, MemoryStores, DataLemmas

-----------------------------------------------------------------------------
(* RuntimeEventBus *)

Frames == Dispatch \union Failure \union Observer
OwnReports == {f \in Dispatch : f.own}

\* No two places of s hold a member of S.
OneOf(s, S) == \A i, j \in DOMAIN s : s[i] \in S /\ s[j] \in S => i = j

Hears(f, ls) == f.owed \subseteq ToSet(f.todo) /\ f.owed \subseteq ToSet(ls[f.name])

StackOK(s, ls) ==
  /\ s \in Seq(Frames)
  /\ \A f \in ToSet(s) \intersect Dispatch : Hears(f, ls)
  /\ OneOf(s, OwnReports) /\ OneOf(s, Observer)

Holds(s, S) == ToSet(s) \intersect S # {}

\* As much of a report and an observer in r as in s.
Alike(r, s) == /\ Holds(r, OwnReports) <=> Holds(s, OwnReports)
               /\ Holds(r, Observer) <=> Holds(s, Observer)

\* A frame is of one kind.
LEMMA Kinds3 ==
  /\ \A f \in Dispatch : f.kind = "dispatch" /\ f \notin Failure /\ f \notin Observer
  /\ \A f \in Failure : f.kind = "failure" /\ f \notin Dispatch /\ f \notin Observer
  /\ \A f \in Observer : f.kind = "observer" /\ f \notin Dispatch /\ f \notin Failure
  /\ \A f \in OwnReports : f \in Dispatch
<1>1. \A f \in Dispatch : f.kind = "dispatch"
  BY DEF Dispatch
<1>2. \A f \in Failure : f.kind = "failure"
  BY DEF Failure
<1>3. \A f \in Observer : f.kind = "observer"
  BY DEF Observer
<1>. QED BY <1>1, <1>2, <1>3 DEF OwnReports

LEMMA PushMembers ==
  ASSUME NEW T, NEW s \in Seq(T), NEW f \in T, NEW r, r = <<f>> \o s
  PROVE  /\ r \in Seq(T) /\ ToSet(r) = {f} \union ToSet(s)
         /\ \A S : OneOf(s, S) /\ (f \in S => ToSet(s) \intersect S = {}) => OneOf(r, S)
<1>1. Len(s) \in Nat /\ DOMAIN s = 1 .. Len(s)
  BY LenProperties
<1>2. <<f>> \in Seq(T) /\ Len(<<f>>) = 1 /\ <<f>>[1] = f
  OBVIOUS
<1>3. /\ r \in Seq(T) /\ Len(r) = 1 + Len(s)
      /\ \A i \in 1 .. 1 + Len(s) : r[i] = IF i <= 1 THEN f ELSE s[i - 1]
  BY <1>2, ConcatProperties
<1>4. DOMAIN r = 1 .. 1 + Len(s)
  BY <1>3, LenProperties
<1>5. r[1] = f /\ 1 \in DOMAIN r
  BY <1>1, <1>3, <1>4
<1>6. \A i \in DOMAIN r : i = 1 \/ (i - 1 \in DOMAIN s /\ r[i] = s[i - 1])
  BY <1>1, <1>3, <1>4
<1>7. \A i \in DOMAIN s : i + 1 \in DOMAIN r /\ r[i + 1] = s[i]
  <2>1. \A i \in DOMAIN s : i + 1 \in 1 .. 1 + Len(s) /\ ~(i + 1 <= 1) /\ (i + 1) - 1 = i
    BY <1>1
  <2>. QED BY <1>3, <1>4, <2>1
<1>8. ToSet(r) = {f} \union ToSet(s)
  <2>1. ToSet(r) \subseteq {f} \union ToSet(s)
    BY <1>5, <1>6 DEF ToSet
  <2>2. {f} \union ToSet(s) \subseteq ToSet(r)
    BY <1>5, <1>7 DEF ToSet
  <2>. QED BY <2>1, <2>2
<1>9. ASSUME NEW S, OneOf(s, S), f \in S => ToSet(s) \intersect S = {},
             NEW i \in DOMAIN r, NEW j \in DOMAIN r, r[i] \in S, r[j] \in S
      PROVE  i = j
  <2>1. CASE i = 1 /\ j = 1
    BY <2>1
  <2>2. CASE i # 1 /\ j # 1
    <3>1. i - 1 = j - 1
      BY <1>6, <1>9, <2>2 DEF OneOf
    <3>. QED BY <1>1, <1>4, <3>1
  <2>3. CASE i = 1 /\ j # 1
    BY <1>5, <1>6, <1>9, <2>3 DEF ToSet
  <2>4. CASE i # 1 /\ j = 1
    BY <1>5, <1>6, <1>9, <2>4 DEF ToSet
  <2>. QED BY <2>1, <2>2, <2>3, <2>4
<1>. QED BY <1>3, <1>8, <1>9 DEF OneOf

LEMMA PopMembers ==
  ASSUME NEW T, NEW s \in Seq(T), s # <<>>
  PROVE  /\ Head(s) \in T /\ Tail(s) \in Seq(T)
         /\ ToSet(s) = {Head(s)} \union ToSet(Tail(s))
         /\ \A S : OneOf(s, S) =>
              OneOf(Tail(s), S) /\ (Head(s) \in S => ToSet(Tail(s)) \intersect S = {})
<1> DEFINE r == Tail(s)
<1>1. Len(s) \in Nat /\ DOMAIN s = 1 .. Len(s) /\ Len(s) # 0 /\ Head(s) = s[1]
  BY LenProperties, EmptySeq
<1>2. /\ Head(s) \in T /\ r \in Seq(T) /\ Len(r) = Len(s) - 1
      /\ \A i \in 1 .. Len(r) : r[i] = s[i + 1]
  BY HeadTailProperties
<1>3. DOMAIN r = 1 .. Len(s) - 1
  BY <1>2, LenProperties
<1>4. \A i \in DOMAIN r : i + 1 \in DOMAIN s /\ r[i] = s[i + 1] /\ i + 1 # 1
  BY <1>1, <1>2, <1>3
<1>5. \A i \in DOMAIN s : i = 1 \/ (i - 1 \in DOMAIN r /\ r[i - 1] = s[i])
  <2>1. \A i \in DOMAIN s : i # 1 => i - 1 \in DOMAIN r /\ (i - 1) + 1 = i
    BY <1>1, <1>3
  <2>. QED BY <1>4, <2>1
<1>6. 1 \in DOMAIN s
  BY <1>1
<1> HIDE DEF r
<1>7. ToSet(s) = {Head(s)} \union ToSet(r)
  <2>1. ToSet(s) \subseteq {Head(s)} \union ToSet(r)
    BY <1>1, <1>5 DEF ToSet
  <2>2. {Head(s)} \union ToSet(r) \subseteq ToSet(s)
    BY <1>1, <1>4, <1>6 DEF ToSet
  <2>. QED BY <2>1, <2>2
<1>8. ASSUME NEW S, OneOf(s, S)
      PROVE  OneOf(r, S) /\ (Head(s) \in S => ToSet(r) \intersect S = {})
  <2>1. ASSUME NEW i \in DOMAIN r, NEW j \in DOMAIN r, r[i] \in S, r[j] \in S PROVE i = j
    <3>1. i + 1 = j + 1
      BY <1>4, <1>8, <2>1 DEF OneOf
    <3>. QED BY <1>1, <1>3, <3>1
  <2>2. ASSUME Head(s) \in S, NEW i \in DOMAIN r, r[i] \in S PROVE FALSE
    BY <1>1, <1>4, <1>6, <1>8, <2>2 DEF OneOf
  <2>. QED BY <2>1, <2>2 DEF OneOf, ToSet
<1>. QED BY <1>2, <1>7, <1>8 DEF r

LEMMA Push ==
  ASSUME NEW s, NEW ls, StackOK(s, ls), NEW f \in Frames,
         f \in Dispatch => Hears(f, ls),
         f \in OwnReports => ~Holds(s, OwnReports), f \in Observer => ~Holds(s, Observer),
         NEW r, r = <<f>> \o s
  PROVE  StackOK(r, ls) /\ \A S : Holds(r, S) <=> f \in S \/ Holds(s, S)
<1>1. s \in Seq(Frames)
  BY DEF StackOK
<1>2. /\ r \in Seq(Frames) /\ ToSet(r) = {f} \union ToSet(s)
      /\ \A S : OneOf(s, S) /\ (f \in S => ToSet(s) \intersect S = {}) => OneOf(r, S)
  BY <1>1, PushMembers
<1>3. OneOf(r, OwnReports) /\ OneOf(r, Observer)
  BY <1>2 DEF StackOK, Holds
<1>4. \A S : Holds(r, S) <=> f \in S \/ Holds(s, S)
  BY <1>2 DEF Holds
<1>. QED BY <1>2, <1>3, <1>4 DEF StackOK

LEMMA Pop ==
  ASSUME NEW s, NEW ls, StackOK(s, ls), s # <<>>
  PROVE  /\ Head(s) \in Frames /\ (Head(s) \in Dispatch => Hears(Head(s), ls))
         /\ StackOK(Tail(s), ls)
         /\ \A S : Holds(s, S) <=> Head(s) \in S \/ Holds(Tail(s), S)
         /\ Head(s) \in OwnReports => ~Holds(Tail(s), OwnReports)
         /\ Head(s) \in Observer => ~Holds(Tail(s), Observer)
<1>1. s \in Seq(Frames)
  BY DEF StackOK
<1>2. /\ Head(s) \in Frames /\ Tail(s) \in Seq(Frames)
      /\ ToSet(s) = {Head(s)} \union ToSet(Tail(s))
      /\ \A S : OneOf(s, S) =>
           OneOf(Tail(s), S) /\ (Head(s) \in S => ToSet(Tail(s)) \intersect S = {})
  BY <1>1, PopMembers
<1>3. /\ OneOf(Tail(s), OwnReports) /\ OneOf(Tail(s), Observer)
      /\ Head(s) \in OwnReports => ToSet(Tail(s)) \intersect OwnReports = {}
      /\ Head(s) \in Observer => ToSet(Tail(s)) \intersect Observer = {}
  BY <1>2 DEF StackOK
<1>4. \A S : Holds(s, S) <=> Head(s) \in S \/ Holds(Tail(s), S)
  BY <1>2 DEF Holds
<1>. QED BY <1>2, <1>3, <1>4 DEF StackOK, Holds

\* What the frames keep when each of them is replaced by one that is as much of
\* a report or an observer, and owes its event only to those it may.
LEMMA Replace ==
  ASSUME NEW s, NEW ls, StackOK(s, ls), NEW ls2,
         NEW r, DOMAIN r = DOMAIN s, r = [i \in DOMAIN s |-> r[i]],
         \A i \in DOMAIN s :
           /\ r[i] \in Frames /\ (r[i] \in Dispatch => Hears(r[i], ls2))
           /\ r[i] \in OwnReports <=> s[i] \in OwnReports
           /\ r[i] \in Observer <=> s[i] \in Observer
  PROVE  StackOK(r, ls2) /\ Alike(r, s)
<1>1. Len(s) \in Nat /\ DOMAIN s = 1 .. Len(s)
  BY LenProperties DEF StackOK
<1>2. r \in Seq(Frames)
  <2>1. r \in [1 .. Len(s) -> Frames]
    BY <1>1
  <2>. QED BY <1>1, <2>1
<1>3. OneOf(r, OwnReports) /\ OneOf(r, Observer)
  BY DEF StackOK, OneOf
<1>4. ASSUME NEW S, \A i \in DOMAIN s : r[i] \in S <=> s[i] \in S
      PROVE  ToSet(r) \intersect S # {} <=> ToSet(s) \intersect S # {}
  BY <1>4 DEF ToSet
<1>5. /\ ToSet(r) \intersect OwnReports # {} <=> ToSet(s) \intersect OwnReports # {}
      /\ ToSet(r) \intersect Observer # {} <=> ToSet(s) \intersect Observer # {}
  BY <1>4
<1>6. \A f \in ToSet(r) \intersect Dispatch : Hears(f, ls2)
  BY DEF ToSet
<1>. QED BY <1>2, <1>3, <1>5, <1>6 DEF StackOK, Alike, Holds

\* The listeners of n change, and the frames remember: nobody who was removed is
\* owed an event any more.
LEMMA RememberKeeps ==
  ASSUME NEW s, NEW ls, StackOK(s, ls), NEW n, NEW ls2,
         NEW removed, NEW added, added \subseteq Registrable,
         \A m : m # n => ls2[m] = ls[m],
         ToSet(ls[n]) \ removed \subseteq ToSet(ls2[n])
  PROVE  StackOK(Remember(s, n, removed, added), ls2) /\ Alike(Remember(s, n, removed, added), s)
<1> DEFINE r == Remember(s, n, removed, added)
<1>1. DOMAIN r = DOMAIN s /\ r = [i \in DOMAIN s |-> r[i]]
  BY DEF Remember
<1>2. ASSUME NEW i \in DOMAIN s
      PROVE  /\ r[i] \in Frames /\ (r[i] \in Dispatch => Hears(r[i], ls2))
             /\ r[i] \in OwnReports <=> s[i] \in OwnReports
             /\ r[i] \in Observer <=> s[i] \in Observer
  <2> DEFINE f == s[i]
  <2>1. f \in Frames /\ (f \in Dispatch => Hears(f, ls))
    BY LenProperties DEF StackOK, ToSet
  <2>2. CASE IsDispatch(f) /\ f.name = n
    <3>1. f \in Dispatch
      BY <2>1, <2>2, Kinds3 DEF Frames, IsDispatch
    <3> DEFINE owed == f.owed \ removed
               more == f.added \union added
    <3>2. r[i] = [f EXCEPT !.owed = owed, !.added = more]
      BY <2>2 DEF Remember
    <3>3. owed \subseteq f.owed /\ more \in SUBSET Registrable
      BY <3>1 DEF Dispatch
    <3> HIDE DEF owed, more, r, f
    <3>4. /\ r[i] \in Dispatch /\ (r[i] \in OwnReports <=> f \in OwnReports)
          /\ r[i].name = f.name /\ r[i].todo = f.todo /\ r[i].owed = owed
      <4>1. /\ r[i].own = f.own /\ r[i].name = f.name /\ r[i].todo = f.todo
            /\ r[i].owed = owed
        BY <3>1, <3>2 DEF Dispatch
      <4>2. r[i] \in Dispatch
        BY <3>1, <3>2, <3>3 DEF Dispatch
      <4>. QED BY <3>1, <4>1, <4>2 DEF OwnReports
    <3>5. Hears(r[i], ls2)
      <4>1. f.owed \subseteq ToSet(f.todo) /\ f.owed \subseteq ToSet(ls[n])
        BY <2>1, <2>2, <3>1 DEF Hears
      <4>2. owed \subseteq ToSet(f.todo) /\ owed \subseteq ToSet(ls2[n])
        BY <4>1 DEF owed
      <4>. QED BY <2>2, <3>4, <4>2 DEF Hears
    <3>. QED BY <3>1, <3>4, <3>5, Kinds3 DEF Frames, f
  <2>3. CASE ~(IsDispatch(f) /\ f.name = n)
    <3>1. r[i] = f
      BY <2>3 DEF Remember
    <3>2. f \in Dispatch => Hears(f, ls2)
      BY <2>1, <2>3, Kinds3 DEF IsDispatch, Hears
    <3>. QED BY <2>1, <3>1, <3>2
  <2>. QED BY <2>2, <2>3
<1> HIDE DEF r
<1>3. StackOK(r, ls2) /\ Alike(r, s)
  BY <1>1, <1>2, Replace
<1>. QED BY <1>3 DEF r

\* clear(): nobody is owed anything.
LEMMA ReleaseKeeps ==
  ASSUME NEW s, NEW ls, StackOK(s, ls), NEW ls2,
         NEW r, r = [i \in DOMAIN s |->
                       IF IsDispatch(s[i]) THEN [s[i] EXCEPT !.owed = {}] ELSE s[i]]
  PROVE  StackOK(r, ls2) /\ Alike(r, s)
<1>1. DOMAIN r = DOMAIN s /\ r = [i \in DOMAIN s |-> r[i]]
  OBVIOUS
<1>2. ASSUME NEW i \in DOMAIN s
      PROVE  /\ r[i] \in Frames /\ (r[i] \in Dispatch => Hears(r[i], ls2))
             /\ r[i] \in OwnReports <=> s[i] \in OwnReports
             /\ r[i] \in Observer <=> s[i] \in Observer
  <2> DEFINE f == s[i]
  <2>1. f \in Frames
    BY LenProperties DEF StackOK, ToSet
  <2>2. CASE IsDispatch(f)
    <3>1. f \in Dispatch
      BY <2>1, <2>2, Kinds3 DEF Frames, IsDispatch
    <3>2. r[i] = [f EXCEPT !.owed = {}]
      BY <2>2
    <3>3. r[i] \in Dispatch /\ r[i].own = f.own /\ r[i].owed = {}
      BY <3>1, <3>2 DEF Dispatch
    <3>. QED BY <3>1, <3>3, Kinds3 DEF Frames, OwnReports, Hears
  <2>3. CASE ~IsDispatch(f)
    BY <2>1, <2>3, Kinds3 DEF IsDispatch
  <2>. QED BY <2>2, <2>3
<1>. QED BY <1>1, <1>2, Replace

\* The frame on top is replaced by one that is as much of a report or an observer.
LEMMA SetTopKeeps ==
  ASSUME NEW s, NEW ls, StackOK(s, ls), s # <<>>, NEW f \in Frames,
         f \in Dispatch => Hears(f, ls),
         f \in OwnReports <=> Head(s) \in OwnReports,
         f \in Observer <=> Head(s) \in Observer,
         NEW r, r = <<f>> \o Tail(s)
  PROVE  StackOK(r, ls) /\ Alike(r, s)
<1>1. /\ StackOK(Tail(s), ls)
      /\ \A S : Holds(s, S) <=> Head(s) \in S \/ Holds(Tail(s), S)
      /\ Head(s) \in OwnReports => ~Holds(Tail(s), OwnReports)
      /\ Head(s) \in Observer => ~Holds(Tail(s), Observer)
  BY Pop
<1>2. StackOK(r, ls) /\ \A S : Holds(r, S) <=> f \in S \/ Holds(Tail(s), S)
  BY <1>1, Push
<1>. QED BY <1>1, <1>2 DEF Alike

-----------------------------------------------------------------------------
\* Everybody a wrapper was registered for is one event name, and it has not
\* fired while it is registered.
Unfired ==
  /\ original \in [Wraps -> Listeners \union {Nobody}]
  /\ fired \in [Wraps -> Nat]
  /\ \A w \in Wraps : fired[w] <= 1 /\ (original[w] = Nobody => fired[w] = 0)
  /\ \A w \in Wraps, n \in Names : w \in ToSet(listeners[n]) =>
       /\ original[w] # Nobody /\ fired[w] = 0
       /\ \A m \in Names : w \in ToSet(listeners[m]) => m = n

Registry ==
  /\ listeners \in [Names -> Seq(Registrable)]
  /\ \A n \in Names : IsInjective(listeners[n])

Flags ==
  /\ emitting \in BOOLEAN /\ (emitting <=> Holds(stack, OwnReports))
  /\ notifying \in BOOLEAN /\ (notifying <=> Holds(stack, Observer))

BusInv == Registry /\ Unfired /\ StackOK(stack, listeners) /\ Flags /\ pending \subseteq Names

LEMMA NobodyIsNoWrapper == Nobody \notin Registrable /\ \A l \in Listeners : l \notin Wraps
  BY BusParameters DEF Registrable

LEMMA BusInit == Init => BusInv
<1> SUFFICES ASSUME Init PROVE BusInv
  OBVIOUS
<1>1. /\ \A n \in Names : ToSet(listeners[n]) = {} /\ IsInjective(listeners[n])
      /\ listeners \in [Names -> Seq(Registrable)]
  BY DEF Init, ToSet, IsInjective
<1>2. stack \in Seq(Frames) /\ ToSet(stack) = {} /\ \A S : OneOf(stack, S)
  BY DEF Init, ToSet, OneOf
<1>3. StackOK(stack, listeners) /\ Flags
  BY <1>2 DEF Init, StackOK, Flags, Holds
<1>4. Unfired
  BY <1>1 DEF Init, Unfired
<1>. QED BY <1>1, <1>3, <1>4 DEF Init, BusInv, Registry

\* Nothing is reported or observed that was not before.
LEMMA AlikeKeeps ==
  ASSUME Flags, Alike(stack', stack), emitting' = emitting, notifying' = notifying
  PROVE  Flags'
  BY DEF Flags, Alike

\* Unregister takes out one function of one event name, and no other.
LEMMA UnregisterOne ==
  ASSUME Registry, NEW n \in Names, NEW f, Unregister(n, f)
  PROVE  /\ Registry'
         /\ ToSet(listeners'[n]) = ToSet(listeners[n]) \ {f}
         /\ \A m : m # n => listeners'[m] = listeners[m]
<1> DEFINE r == RemoveFirst(listeners[n], f)
<1>1. listeners[n] \in Seq(Registrable) /\ IsInjective(listeners[n])
  BY DEF Registry
<1>2. r \in Seq(Registrable) /\ IsInjective(r) /\ ToSet(r) = ToSet(listeners[n]) \ {f}
  BY <1>1, RemoveFirstDistinct
<1>3. listeners' = [listeners EXCEPT ![n] = r]
  BY DEF Unregister
<1> HIDE DEF r
<1>. QED BY <1>2, <1>3 DEF Registry

LEMMA AddKeeps ==
  ASSUME BusInv, NEW n \in Names, NEW f \in Registrable, Add(n, f)
  PROVE  /\ Registry' /\ StackOK(stack', listeners') /\ Flags'
         /\ ToSet(listeners'[n]) = ToSet(listeners[n]) \union {f}
         /\ \A m \in Names \ {n} : listeners'[m] = listeners[m]
<1> DEFINE r == Append(listeners[n], f)
<1>1. listeners[n] \in Seq(Registrable) /\ IsInjective(listeners[n]) /\ f \notin ToSet(listeners[n])
  BY DEF BusInv, Registry, Add, Registered
<1>2. r \in Seq(Registrable) /\ IsInjective(r) /\ ToSet(r) = ToSet(listeners[n]) \union {f}
  <2>1. r \in Seq(Registrable)
    BY <1>1, AppendProperties
  <2> DEFINE s == listeners[n]
  <2>2. s \in Seq(Registrable) /\ IsInjective(s) /\ f \notin ToSet(s) /\ r = Append(s, f)
    BY <1>1
  <2> HIDE DEF s, r
  <2>3. IsInjective(r) /\ ToSet(r) = ToSet(s) \union {f}
    BY <2>2, AppendDistinct
  <2>. QED BY <2>1, <2>3 DEF s
<1>3. listeners' = [listeners EXCEPT ![n] = r]
  BY DEF Add
<1> HIDE DEF r
<1>4. listeners'[n] = r /\ \A m : m # n => listeners'[m] = listeners[m]
  BY <1>3 DEF BusInv, Registry
<1>5. Registry'
  BY <1>2, <1>3 DEF BusInv, Registry
<1>6. /\ StackOK(Remember(stack, n, {}, {f}), listeners')
      /\ Alike(Remember(stack, n, {}, {f}), stack)
  BY <1>2, <1>4, RememberKeeps DEF BusInv
<1>7. StackOK(stack', listeners') /\ Flags'
  BY <1>6, AlikeKeeps DEF Add, BusInv
<1>. QED BY <1>2, <1>4, <1>5, <1>7

\* The frame on top, when it is a dispatch.
LEMMA TopDispatch ==
  ASSUME BusInv, stack # <<>>, IsDispatch(Top)
  PROVE  Top \in Dispatch /\ Hears(Top, listeners) /\ Top.name \in Names
         /\ Top.todo \in Seq(Registrable) /\ Top \notin Observer /\ Top \in Frames
<1>1. Top \in Frames /\ (Top \in Dispatch => Hears(Top, listeners))
  BY Pop DEF BusInv, Top
<1>2. Top \in Dispatch
  BY <1>1, Kinds3 DEF IsDispatch, Frames
<1>. QED BY <1>1, <1>2, Kinds3 DEF Dispatch

LEMMA OnKeeps == ASSUME BusInv, NEW n \in Names, NEW l \in Listeners, On(n, l) PROVE BusInv'
<1>1. l \in Registrable /\ l \notin Wraps
  BY NobodyIsNoWrapper DEF Registrable
<1>2. /\ Registry' /\ StackOK(stack', listeners') /\ Flags'
      /\ ToSet(listeners'[n]) = ToSet(listeners[n]) \union {l}
      /\ \A m \in Names \ {n} : listeners'[m] = listeners[m]
  BY <1>1, AddKeeps DEF On
<1>3. UNCHANGED <<original, fired, emitting, notifying, pending>>
  BY DEF On, Add
<1>4. \A w \in Wraps, m \in Names : w \in ToSet(listeners'[m]) => w \in ToSet(listeners[m])
  BY <1>1, <1>2
<1>5. Unfired'
  BY <1>3, <1>4 DEF BusInv, Unfired
<1>. QED BY <1>2, <1>3, <1>5 DEF BusInv

LEMMA OnceKeeps ==
  ASSUME BusInv, NEW n \in Names, NEW w \in Wraps, NEW l \in Listeners, Once(n, w, l)
  PROVE  BusInv'
<1>1. w \in Registrable /\ original[w] = Nobody /\ l # Nobody
  BY BusParameters DEF Once, Registrable
<1>2. /\ Registry' /\ StackOK(stack', listeners') /\ Flags'
      /\ ToSet(listeners'[n]) = ToSet(listeners[n]) \union {w}
      /\ \A m \in Names \ {n} : listeners'[m] = listeners[m]
  BY <1>1, AddKeeps DEF Once
<1>3. UNCHANGED <<fired, emitting, notifying, pending>> /\ original' = [original EXCEPT ![w] = l]
  BY DEF Once, Add
<1>4. fired[w] = 0 /\ \A m \in Names : w \notin ToSet(listeners[m])
  BY <1>1 DEF BusInv, Unfired
<1>5. \A v \in Wraps, m \in Names : v \in ToSet(listeners'[m]) =>
        v \in ToSet(listeners[m]) \/ (v = w /\ m = n)
  BY <1>2
<1>6. original' \in [Wraps -> Listeners \union {Nobody}] /\ original'[w] # Nobody
      /\ \A v \in Wraps \ {w} : original'[v] = original[v]
  BY <1>1, <1>3 DEF BusInv, Unfired
<1>7. Unfired'
  <2>1. \A v \in Wraps : fired'[v] <= 1 /\ (original'[v] = Nobody => fired'[v] = 0)
    BY <1>3, <1>6 DEF BusInv, Unfired
  <2>2. ASSUME NEW v \in Wraps, NEW m \in Names, v \in ToSet(listeners'[m])
        PROVE  /\ original'[v] # Nobody /\ fired'[v] = 0
               /\ \A k \in Names : v \in ToSet(listeners'[k]) => k = m
    <3>1. CASE v = w
      BY <1>3, <1>4, <1>5, <1>6, <2>2, <3>1
    <3>2. CASE v # w
      BY <1>3, <1>5, <1>6, <2>2, <3>2 DEF BusInv, Unfired
    <3>. QED BY <3>1, <3>2
  <2>. QED BY <1>3, <1>6, <2>1, <2>2 DEF BusInv, Unfired
<1>. QED BY <1>2, <1>3, <1>7 DEF BusInv

LEMMA OffKeeps == ASSUME BusInv, NEW n \in Names, NEW f, Off(n, f) PROVE BusInv'
<1>1. PICK g : Unregister(n, g) /\ stack' = Remember(stack, n, {g}, {})
  BY DEF Off
<1>2. UNCHANGED <<original, fired, emitting, notifying, pending>>
  BY DEF Off
<1>3. /\ Registry' /\ ToSet(listeners'[n]) = ToSet(listeners[n]) \ {g}
      /\ \A m : m # n => listeners'[m] = listeners[m]
  BY <1>1, UnregisterOne DEF BusInv
<1>4. /\ StackOK(Remember(stack, n, {g}, {}), listeners')
      /\ Alike(Remember(stack, n, {g}, {}), stack)
  BY <1>3, RememberKeeps DEF BusInv
<1>5. \A w \in Wraps, m \in Names : w \in ToSet(listeners'[m]) => w \in ToSet(listeners[m])
  BY <1>3
<1>6. Unfired'
  BY <1>2, <1>5 DEF BusInv, Unfired
<1>7. Flags'
  BY <1>1, <1>2, <1>4, AlikeKeeps DEF BusInv
<1>. QED BY <1>1, <1>2, <1>3, <1>4, <1>6, <1>7 DEF BusInv

LEMMA ClearKeeps == ASSUME BusInv, ClearListeners PROVE BusInv'
<1>1. /\ listeners' \in [Names -> Seq(Registrable)]
      /\ \A n \in Names : ToSet(listeners'[n]) = {} /\ IsInjective(listeners'[n])
  BY DEF ClearListeners, ToSet, IsInjective
<1>2. UNCHANGED <<original, fired, emitting, notifying, pending>>
  BY DEF ClearListeners
<1>3. StackOK(stack', listeners') /\ Alike(stack', stack)
  BY ReleaseKeeps DEF BusInv, ClearListeners
<1>4. Unfired'
  BY <1>1, <1>2 DEF BusInv, Unfired
<1>5. Flags'
  BY <1>2, <1>3, AlikeKeeps DEF BusInv
<1>. QED BY <1>1, <1>2, <1>3, <1>4, <1>5 DEF BusInv, Registry

\* A dispatch that has just begun owes its event to all of its snapshot.
LEMMA Beginning ==
  ASSUME BusInv, NEW n \in Names, NEW own \in BOOLEAN
  PROVE  /\ NewDispatch(n, own) \in Dispatch /\ Hears(NewDispatch(n, own), listeners)
         /\ NewDispatch(n, own) \in OwnReports <=> own
<1> DEFINE f == NewDispatch(n, own)
<1>1. /\ f.kind = "dispatch" /\ f.name = n /\ f.todo = listeners[n] /\ f.running = Nobody
      /\ f.own = own /\ f.owed = ToSet(listeners[n]) /\ f.added = {}
  BY DEF NewDispatch
<1>2. listeners[n] \in Seq(Registrable) /\ ToSet(listeners[n]) \subseteq Registrable
  BY LenProperties DEF BusInv, Registry, ToSet
<1>3. f \in Dispatch
  BY <1>2 DEF NewDispatch, Dispatch
<1>. QED BY <1>1, <1>3 DEF Hears, OwnReports

LEMMA EmitKeeps == ASSUME BusInv, NEW n \in Names, Emit(n) PROVE BusInv'
<1> DEFINE f == NewDispatch(n, FALSE)
<1>1. f \in Frames /\ Hears(f, listeners) /\ f \notin OwnReports /\ f \notin Observer
  BY Beginning, Kinds3 DEF Frames
<1>2. stack' = <<f>> \o stack /\ UNCHANGED <<listeners, original, fired, emitting, notifying, pending>>
  BY DEF Emit
<1> HIDE DEF f
<1>3. StackOK(stack', listeners) /\ \A S : Holds(stack', S) <=> f \in S \/ Holds(stack, S)
  BY <1>1, <1>2, Push DEF BusInv
<1>4. Flags'
  BY <1>1, <1>2, <1>3 DEF BusInv, Flags
<1>. QED BY <1>2, <1>3, <1>4 DEF BusInv, Registry, Unfired

\* Steps that change nothing but the frame on top.
LEMMA TopStep ==
  ASSUME BusInv, stack # <<>>, NEW f \in Frames, stack' = <<f>> \o Tail(stack),
         f \in Dispatch => Hears(f, listeners),
         f \in OwnReports <=> Top \in OwnReports, f \in Observer <=> Top \in Observer,
         UNCHANGED <<listeners, original, fired, emitting, notifying>>, pending' \subseteq Names
  PROVE  BusInv'
<1>1. StackOK(stack', listeners) /\ Alike(stack', stack)
  BY SetTopKeeps DEF BusInv, Top
<1>2. Flags'
  BY <1>1, AlikeKeeps DEF BusInv
<1>. QED BY <1>1, <1>2 DEF BusInv, Registry, Unfired

LEMMA SkipKeeps == ASSUME BusInv, Skip PROVE BusInv'
<1> DEFINE f == [Top EXCEPT !.todo = Tail(@)]
<1>1. /\ Top \in Dispatch /\ Hears(Top, listeners) /\ Top.name \in Names
      /\ Top.todo \in Seq(Registrable) /\ Top.todo # <<>> /\ Top \notin Observer
      /\ Upcoming \notin ToSet(listeners[Top.name])
  BY TopDispatch DEF Skip, Registered
<1>2. /\ Tail(Top.todo) \in Seq(Registrable)
      /\ ToSet(Top.todo) = {Upcoming} \union ToSet(Tail(Top.todo))
  BY <1>1, PopMembers DEF Upcoming
<1>3. f.name = Top.name /\ f.owed = Top.owed /\ f.todo = Tail(Top.todo) /\ f.own = Top.own
  BY <1>1 DEF Dispatch
<1>4. f \in Dispatch
  BY <1>1, <1>2 DEF Dispatch
<1>5. stack # <<>> /\ stack' = <<f>> \o Tail(stack) /\ pending' \subseteq Names
      /\ UNCHANGED <<listeners, original, fired, emitting, notifying>>
  BY DEF Skip, SetTop, Below, BusInv
<1> HIDE DEF f
<1>6. Hears(f, listeners)
  BY <1>1, <1>2, <1>3 DEF Hears
<1>. QED BY <1>1, <1>3, <1>4, <1>5, <1>6, TopStep, Kinds3 DEF OwnReports, Frames

LEMMA ReturnKeeps == ASSUME BusInv, Return PROVE BusInv'
<1> DEFINE f == [Top EXCEPT !.running = Nobody]
<1>1. Top \in Dispatch /\ Hears(Top, listeners) /\ Top.name \in Names /\ Top \notin Observer
  BY TopDispatch DEF Return
<1>2. f.name = Top.name /\ f.owed = Top.owed /\ f.todo = Top.todo /\ f.own = Top.own
  BY <1>1 DEF Dispatch
<1>3. f \in Dispatch
  BY <1>1 DEF Dispatch
<1>4. stack # <<>> /\ stack' = <<f>> \o Tail(stack) /\ pending' \subseteq Names
      /\ UNCHANGED <<listeners, original, fired, emitting, notifying>>
  BY <1>1 DEF Return, SetTop, Below, BusInv
<1> HIDE DEF f
<1>5. Hears(f, listeners)
  BY <1>1, <1>2 DEF Hears
<1>. QED BY <1>1, <1>2, <1>3, <1>4, <1>5, TopStep, Kinds3 DEF OwnReports, Frames

\* A failure on top of frames that are as they should be.
LEMMA FailureOnTop ==
  ASSUME NEW s, NEW ls, StackOK(s, ls), NEW n \in Names,
         NEW r, r = <<NewFailure(n)>> \o s
  PROVE  StackOK(r, ls) /\ Alike(r, s)
<1> DEFINE f == NewFailure(n)
<1>1. f \in Failure
  BY DEF NewFailure, Failure
<1>2. f \in Frames /\ f \notin Dispatch /\ f \notin OwnReports /\ f \notin Observer
  BY <1>1, Kinds3 DEF Frames
<1> HIDE DEF f
<1>3. StackOK(r, ls) /\ \A S : Holds(r, S) <=> f \in S \/ Holds(s, S)
  BY <1>2, Push DEF f
<1>. QED BY <1>2, <1>3 DEF Alike

LEMMA ThrowKeeps == ASSUME BusInv, Throw PROVE BusInv'
<1> DEFINE f == [Top EXCEPT !.running = Nobody]
           s == <<f>> \o Below
<1>1. Top \in Dispatch /\ Hears(Top, listeners) /\ Top.name \in Names /\ Top \notin Observer
  BY TopDispatch DEF Throw
<1>2. f.name = Top.name /\ f.owed = Top.owed /\ f.todo = Top.todo /\ f.own = Top.own
  BY <1>1 DEF Dispatch
<1>3. f \in Dispatch
  BY <1>1 DEF Dispatch
<1>4. stack # <<>> /\ stack' = <<NewFailure(Top.name), f>> \o Below
      /\ UNCHANGED <<listeners, original, fired, emitting, notifying, pending>>
  BY DEF Throw
<1> HIDE DEF f
<1>5. Hears(f, listeners)
  BY <1>1, <1>2 DEF Hears
<1>6. f \in Frames /\ f \notin Observer /\ (f \in OwnReports <=> Top \in OwnReports)
  BY <1>1, <1>2, <1>3, Kinds3 DEF OwnReports, Frames
<1>7. StackOK(s, listeners) /\ Alike(s, stack)
  BY <1>1, <1>4, <1>5, <1>6, SetTopKeeps DEF BusInv, Top, Below
<1>8. stack' = <<NewFailure(Top.name)>> \o s
  BY <1>4 DEF Below
<1> HIDE DEF s
<1>9. StackOK(stack', listeners) /\ Alike(stack', s)
  BY <1>1, <1>7, <1>8, FailureOnTop
<1>10. Flags'
  BY <1>4, <1>7, <1>9, AlikeKeeps DEF BusInv, Alike
<1>. QED BY <1>4, <1>9, <1>10 DEF BusInv, Registry, Unfired

LEMMA RejectKeeps == ASSUME BusInv, NEW n \in Names, Reject(n) PROVE BusInv'
<1>1. stack = <<>> /\ stack' = <<NewFailure(n)>> /\ pending' \subseteq Names
      /\ UNCHANGED <<listeners, original, fired, emitting, notifying>>
  BY DEF Reject, BusInv
<1>2. stack' = <<NewFailure(n)>> \o stack
  BY <1>1, ConcatEmptySeq
<1>3. StackOK(stack', listeners) /\ Alike(stack', stack)
  BY <1>2, FailureOnTop DEF BusInv
<1>4. Flags'
  BY <1>1, <1>3, AlikeKeeps DEF BusInv
<1>. QED BY <1>1, <1>3, <1>4 DEF BusInv, Registry, Unfired

LEMMA DispatchEndsKeeps == ASSUME BusInv, DispatchEnds PROVE BusInv'
<1>1. /\ stack # <<>> /\ stack' = Tail(stack) /\ emitting' = (emitting /\ ~Top.own)
      /\ UNCHANGED <<listeners, original, fired, notifying, pending>>
  BY DEF DispatchEnds, Below
<1>2. Top \in Dispatch /\ Top \notin Observer /\ Top.own \in BOOLEAN
  BY TopDispatch DEF DispatchEnds, Dispatch
<1>3. /\ StackOK(Tail(stack), listeners)
      /\ \A S : Holds(stack, S) <=> Top \in S \/ Holds(Tail(stack), S)
      /\ Top \in OwnReports => ~Holds(Tail(stack), OwnReports)
  BY <1>1, Pop DEF BusInv, Top
<1>4. Flags'
  BY <1>1, <1>2, <1>3 DEF BusInv, Flags, OwnReports
<1>. QED BY <1>1, <1>3, <1>4 DEF BusInv, Registry, Unfired

\* The wrapper that fires is out of the registry, and nobody else is.
LEMMA DeliverKeeps == ASSUME BusInv, Deliver PROVE BusInv'
<1> DEFINE f == [Top EXCEPT !.todo = Tail(@), !.running = Upcoming, !.owed = @ \ {Upcoming}]
           n == Top.name
           gone == {Upcoming} \intersect Wraps
           rest == Remember(Below, n, gone, {})
<1>1. /\ stack # <<>> /\ Top.todo # <<>> /\ Upcoming \in ToSet(listeners[n])
      /\ stack' = <<f>> \o rest /\ UNCHANGED <<original, emitting, notifying, pending>>
  BY DEF Deliver, Registered
<1>2. /\ Top \in Dispatch /\ Hears(Top, listeners) /\ n \in Names
      /\ Top.todo \in Seq(Registrable) /\ Top \notin Observer
  BY TopDispatch DEF Deliver
<1>3. /\ Tail(Top.todo) \in Seq(Registrable) /\ Upcoming \in Registrable
      /\ ToSet(Top.todo) = {Upcoming} \union ToSet(Tail(Top.todo))
  BY <1>1, <1>2, PopMembers DEF Upcoming
<1>4. /\ Registry' /\ ToSet(listeners'[n]) = ToSet(listeners[n]) \ gone
      /\ \A m : m # n => listeners'[m] = listeners[m]
      /\ fired' = IF Upcoming \in Wraps THEN [fired EXCEPT ![Upcoming] = @ + 1] ELSE fired
  <2>1. CASE Upcoming \in Wraps
    <3>1. Unregister(n, Upcoming) /\ fired' = [fired EXCEPT ![Upcoming] = @ + 1]
      BY <2>1 DEF Deliver
    <3>2. /\ Registry' /\ ToSet(listeners'[n]) = ToSet(listeners[n]) \ {Upcoming}
          /\ \A m : m # n => listeners'[m] = listeners[m]
      BY <1>2, <3>1, UnregisterOne DEF BusInv
    <3>3. gone = {Upcoming}
      BY <2>1
    <3> HIDE DEF gone
    <3>. QED BY <2>1, <3>1, <3>2, <3>3
  <2>2. CASE Upcoming \notin Wraps
    <3>1. listeners' = listeners /\ fired' = fired /\ gone = {}
      BY <2>2 DEF Deliver
    <3>. QED BY <2>2, <3>1 DEF BusInv, Registry
  <2>. QED BY <2>1, <2>2
<1>5. /\ f.name = n /\ f.todo = Tail(Top.todo) /\ f.owed = Top.owed \ {Upcoming}
      /\ f.own = Top.own
  BY <1>2 DEF Dispatch
<1>6. f \in Dispatch
  BY <1>2, <1>3 DEF Dispatch
<1> HIDE DEF f
<1>7. Hears(f, listeners')
  BY <1>2, <1>3, <1>4, <1>5 DEF Hears
<1>8. /\ StackOK(Below, listeners)
      /\ \A S : Holds(stack, S) <=> Top \in S \/ Holds(Below, S)
      /\ Top \in OwnReports => ~Holds(Below, OwnReports)
  BY <1>1, Pop DEF BusInv, Top, Below
<1>9. StackOK(rest, listeners') /\ Alike(rest, Below)
  BY <1>4, <1>8, RememberKeeps
<1>10. f \in Frames /\ f \notin Observer /\ (f \in OwnReports <=> Top \in OwnReports)
  BY <1>2, <1>5, <1>6, Kinds3 DEF Frames, OwnReports
<1> HIDE DEF rest
<1>11. StackOK(stack', listeners') /\ \A S : Holds(stack', S) <=> f \in S \/ Holds(rest, S)
  BY <1>1, <1>7, <1>8, <1>9, <1>10, Push DEF Alike
<1>12. Alike(stack', stack)
  BY <1>2, <1>8, <1>9, <1>10, <1>11 DEF Alike
<1>13. Flags'
  BY <1>1, <1>12, AlikeKeeps DEF BusInv
<1>14. Unfired'
  <2>1. \A w \in Wraps, m \in Names : w \in ToSet(listeners'[m]) =>
          w \in ToSet(listeners[m]) /\ w # Upcoming
    BY <1>1, <1>2, <1>4 DEF BusInv, Unfired
  <2>2. CASE Upcoming \notin Wraps
    BY <1>1, <1>4, <2>1, <2>2 DEF BusInv, Unfired
  <2>3. CASE Upcoming \in Wraps
    <3>1. fired[Upcoming] = 0 /\ original[Upcoming] # Nobody
      BY <1>1, <1>2, <2>3 DEF BusInv, Unfired
    <3>2. /\ fired' \in [Wraps -> Nat] /\ fired'[Upcoming] = 1
          /\ \A w \in Wraps \ {Upcoming} : fired'[w] = fired[w]
      BY <1>4, <2>3, <3>1 DEF BusInv, Unfired
    <3>3. \A w \in Wraps : fired'[w] <= 1 /\ (original[w] = Nobody => fired'[w] = 0)
      BY <3>1, <3>2 DEF BusInv, Unfired
    <3>4. ASSUME NEW w \in Wraps, NEW m \in Names, w \in ToSet(listeners'[m])
          PROVE  /\ original[w] # Nobody /\ fired'[w] = 0
                 /\ \A k \in Names : w \in ToSet(listeners'[k]) => k = m
      BY <2>1, <3>2, <3>4 DEF BusInv, Unfired
    <3>. QED BY <1>1, <3>2, <3>3, <3>4 DEF BusInv, Unfired
  <2>. QED BY <2>2, <2>3
<1>. QED BY <1>1, <1>4, <1>11, <1>13, <1>14 DEF BusInv

LEMMA TopFailure ==
  ASSUME BusInv, stack # <<>>, Top.kind = "failure"
  PROVE  Top \in Failure /\ Top \notin Dispatch /\ Top \notin OwnReports /\ Top \notin Observer
<1>1. Top \in Frames
  BY Pop DEF BusInv, Top
<1>. QED BY <1>1, Kinds3 DEF Frames

\* The observer is called when none is running, and the flag goes up with it.
LEMMA ObserveKeeps == ASSUME BusInv, Observe PROVE BusInv'
<1> DEFINE f == [Top EXCEPT !.stage = "report"]
           s == <<f>> \o Below
           g == [kind |-> "observer"]
<1>1. stack # <<>> /\ UNCHANGED <<listeners, original, fired, emitting, pending>>
  BY DEF Observe
<1>2. Top \in Failure /\ Top \notin Dispatch /\ Top \notin OwnReports /\ Top \notin Observer
  BY TopFailure DEF Observe
<1>3. f \in Failure
  BY <1>2 DEF Failure
<1>4. f \in Frames /\ f \notin Dispatch /\ f \notin OwnReports /\ f \notin Observer
  BY <1>3, Kinds3 DEF Frames
<1> HIDE DEF f
<1>5. StackOK(s, listeners) /\ Alike(s, stack)
  BY <1>1, <1>2, <1>4, SetTopKeeps DEF BusInv, Top, Below
<1>6. CASE HasObserver /\ ~notifying
  <2>1. stack' = <<g>> \o s /\ notifying' = TRUE
    BY <1>6 DEF Observe, f
  <2>2. g \in Observer
    BY DEF Observer
  <2>3. g \in Frames /\ g \notin Dispatch /\ g \notin OwnReports
    BY <2>2, Kinds3 DEF Frames
  <2>4. ~Holds(s, Observer)
    BY <1>5, <1>6 DEF BusInv, Flags, Alike
  <2> HIDE DEF g, s
  <2>5. StackOK(stack', listeners) /\ \A S : Holds(stack', S) <=> g \in S \/ Holds(s, S)
    BY <1>5, <2>1, <2>3, <2>4, Push
  <2>6. Flags'
    BY <1>1, <1>5, <2>1, <2>2, <2>3, <2>5 DEF BusInv, Flags, Alike
  <2>. QED BY <1>1, <2>5, <2>6 DEF BusInv, Registry, Unfired
<1>7. CASE ~(HasObserver /\ ~notifying)
  <2>1. stack' = s /\ notifying' = notifying
    BY <1>7 DEF Observe, f
  <2>2. Flags'
    BY <1>1, <1>5, <2>1, AlikeKeeps DEF BusInv
  <2>. QED BY <1>1, <1>5, <2>1, <2>2 DEF BusInv, Registry, Unfired
<1>. QED BY <1>6, <1>7

LEMMA ObserverEndsKeeps == ASSUME BusInv, ObserverEnds PROVE BusInv'
<1>1. /\ stack # <<>> /\ Top.kind = "observer" /\ stack' = Tail(stack) /\ notifying' = FALSE
      /\ UNCHANGED <<listeners, original, fired, emitting, pending>>
  BY DEF ObserverEnds, Below
<1>2. /\ Top \in Frames /\ StackOK(Tail(stack), listeners)
      /\ \A S : Holds(stack, S) <=> Top \in S \/ Holds(Tail(stack), S)
      /\ Top \in Observer => ~Holds(Tail(stack), Observer)
  BY <1>1, Pop DEF BusInv, Top
<1>3. Top \in Observer /\ Top \notin OwnReports
  BY <1>1, <1>2, Kinds3 DEF Frames
<1>4. Flags'
  BY <1>1, <1>2, <1>3 DEF BusInv, Flags
<1>. QED BY <1>1, <1>2, <1>4 DEF BusInv, Registry, Unfired

\* A report begins when none is under way, and the flag goes up with it.
LEMMA ReportKeeps == ASSUME BusInv, Report PROVE BusInv'
<1> DEFINE f == NewDispatch(Internal, TRUE)
<1>1. stack # <<>> /\ UNCHANGED <<listeners, original, fired, notifying, pending>>
  BY DEF Report
<1>2. Top \in Failure /\ Top \notin OwnReports /\ Top \notin Observer
  BY TopFailure DEF Report
<1>3. /\ StackOK(Below, listeners)
      /\ \A S : Holds(stack, S) <=> Top \in S \/ Holds(Below, S)
  BY <1>1, Pop DEF BusInv, Top, Below
<1>4. Alike(Below, stack)
  BY <1>2, <1>3 DEF Alike
<1>5. CASE Reportable /\ listeners[Internal] # <<>>
  <2>1. stack' = <<f>> \o Below /\ emitting' = TRUE /\ ~emitting
    BY <1>5 DEF Report, SetTop, Reportable
  <2>2. f \in Dispatch /\ Hears(f, listeners) /\ f \in OwnReports
    BY BusParameters, Beginning
  <2>3. f \in Frames /\ f \notin Observer
    BY <2>2, Kinds3 DEF Frames
  <2>4. ~Holds(Below, OwnReports)
    BY <1>4, <2>1 DEF BusInv, Flags, Alike
  <2> HIDE DEF f
  <2>5. StackOK(stack', listeners) /\ \A S : Holds(stack', S) <=> f \in S \/ Holds(Below, S)
    BY <1>3, <2>1, <2>2, <2>3, <2>4, Push
  <2>6. Flags'
    BY <1>1, <1>4, <2>1, <2>2, <2>3, <2>5 DEF BusInv, Flags, Alike
  <2>. QED BY <1>1, <2>5, <2>6 DEF BusInv, Registry, Unfired
<1>6. CASE ~(Reportable /\ listeners[Internal] # <<>>)
  <2>1. stack' = Below /\ emitting' = emitting
    BY <1>6 DEF Report
  <2>2. Flags'
    BY <1>1, <1>4, <2>1, AlikeKeeps DEF BusInv
  <2>. QED BY <1>1, <1>3, <2>1, <2>2 DEF BusInv, Registry, Unfired
<1>. QED BY <1>5, <1>6

LEMMA BusStep == BusInv /\ [Next]_vars => BusInv'
<1> SUFFICES ASSUME BusInv, [Next]_vars PROVE BusInv'
  OBVIOUS
<1>1. CASE UNCHANGED vars
  BY <1>1 DEF BusInv, Registry, Unfired, Flags, vars
<1>2. CASE Next
  <2>1. ASSUME NEW n \in Names, NEW l \in Listeners, On(n, l) PROVE BusInv'
    BY <2>1, OnKeeps
  <2>2. ASSUME NEW n \in Names, NEW w \in Wraps, NEW l \in Listeners, Once(n, w, l) PROVE BusInv'
    BY <2>2, OnceKeeps
  <2>3. ASSUME NEW n \in Names, NEW f \in Registrable, Off(n, f) PROVE BusInv'
    BY <2>3, OffKeeps
  <2>4. ASSUME NEW n \in Names, Emit(n) \/ Reject(n) PROVE BusInv'
    BY <2>4, EmitKeeps, RejectKeeps
  <2>5. CASE ClearListeners \/ Deliver \/ Skip \/ Return \/ Throw \/ DispatchEnds
    BY <2>5, ClearKeeps, DeliverKeeps, SkipKeeps, ReturnKeeps, ThrowKeeps, DispatchEndsKeeps
  <2>6. CASE Observe \/ ObserverEnds \/ Report
    BY <2>6, ObserveKeeps, ObserverEndsKeeps, ReportKeeps
  <2>. QED BY <1>2, <2>1, <2>2, <2>3, <2>4, <2>5, <2>6 DEF Next
<1>. QED BY <1>1, <1>2

\* A listener registered with once() is called at most once, however deep the
\* dispatches nest and whoever adds, removes or emits from within them.
THEOREM OnceListenersFireOnce == Spec => []OnceFiresOnce
<1>1. BusInv => OnceFiresOnce
  BY DEF BusInv, Unfired, OnceFiresOnce
<1>. QED BY <1>1, BusInit, BusStep, PTL DEF Spec

\* Whoever was registered when a dispatch began and is left alone has been called
\* when it ends: no failure, removal or nested dispatch makes it forget anyone.
THEOREM EverybodyHears == Spec => []EveryoneHears
<1>1. ASSUME BusInv PROVE EveryoneHears
  <2> SUFFICES ASSUME NEW i \in DOMAIN stack, IsDispatch(stack[i]), stack[i].todo = <<>>
               PROVE  stack[i].owed = {}
    BY DEF EveryoneHears
  <2>1. stack[i] \in ToSet(stack) /\ stack[i] \in Frames
    BY <1>1, LenProperties DEF BusInv, StackOK, ToSet
  <2>2. Hears(stack[i], listeners)
    BY <1>1, <2>1, Kinds3 DEF BusInv, StackOK, IsDispatch, Frames
  <2>3. ToSet(<<>>) = {}
    BY DEF ToSet
  <2>. QED BY <2>2, <2>3 DEF Hears
<1>. QED BY <1>1, BusInit, BusStep, PTL DEF Spec

LEMMA AtMostOne ==
  ASSUME NEW S, \A x, y \in S : x = y
  PROVE  Cardinality(S) <= 1
<1>1. CASE S = {}
  BY <1>1, FS_EmptySet
<1>2. CASE S # {}
  <2>1. PICK x \in S : S = {x}
    BY <1>2
  <2>2. Cardinality({x}) = 1
    BY FS_Singleton
  <2>. QED BY <2>1, <2>2
<1>. QED BY <1>1, <1>2

\* Reporting a failure never recurses, for any depth of the call stack: one report
\* and one observer at a time, and the flags are up exactly meanwhile.
THEOREM ReportingDoesNotRecurse == Spec => []ReportsDoNotRecurse
<1>1. ASSUME BusInv PROVE ReportsDoNotRecurse
  <2> DEFINE own == {i \in DOMAIN stack : IsDispatch(stack[i]) /\ stack[i].own}
             observing == {i \in DOMAIN stack : stack[i].kind = "observer"}
  <2>1. \A i \in DOMAIN stack : stack[i] \in Frames
    BY <1>1, LenProperties DEF BusInv, StackOK
  <2>2. /\ \A i \in DOMAIN stack : i \in own <=> stack[i] \in OwnReports
        /\ \A i \in DOMAIN stack : i \in observing <=> stack[i] \in Observer
    BY <2>1, Kinds3 DEF IsDispatch, OwnReports, Frames
  <2>3. (\A i, j \in own : i = j) /\ (\A i, j \in observing : i = j)
    BY <1>1, <2>2 DEF BusInv, StackOK, OneOf
  <2>4. (Holds(stack, OwnReports) <=> own # {}) /\ (Holds(stack, Observer) <=> observing # {})
    BY <2>2 DEF Holds, ToSet
  <2> HIDE DEF own, observing
  <2>5. Cardinality(own) <= 1 /\ Cardinality(observing) <= 1
    BY <2>3, AtMostOne
  <2>. QED BY <1>1, <2>4, <2>5 DEF BusInv, Flags, ReportsDoNotRecurse, own, observing
<1>. QED BY <1>1, BusInit, BusStep, PTL DEF Spec

-----------------------------------------------------------------------------
(* BoundedStores *)

\* What a container holds, of the insertions m and the removals d: its own, in
\* the order they were made.
Marked(s, c, m, d) ==
  /\ \A i \in DOMAIN s : s[i].stamp \in DOMAIN m /\ m[s[i].stamp] = c /\ s[i].stamp \notin d
  /\ \A i, j \in DOMAIN s : i < j => s[i].stamp < s[j].stamp

Gone(s, c, m, d) == {i \in DOMAIN m : m[i] = c} \ (StampsOf(s) \union d)
Later(i, c, m) == {j \in DOMAIN m : j > i /\ m[j] = c}
CrowdedOut(s, c, m, d, capacity) ==
  \A i \in Gone(s, c, m, d) : capacity > 0 /\ Cardinality(Later(i, c, m)) >= capacity

\* Sets that are arguments of the lemmas, under names of their own.
Also(d, X) == d \union X
StampAt(s, i) == {s[i].stamp}
Inserted(X, c, m) == \A x \in X : x \in DOMAIN m /\ m[x] = c
Within(d, m) == d \subseteq DOMAIN m
NextStamp(m) == {Len(m) + 1}
Stamped(e, m) == e.stamp = Len(m) + 1

LEMMA StampsOfPlaces == ASSUME NEW s PROVE StampsOf(s) = {s[i].stamp : i \in DOMAIN s}
  BY DEF StampsOf, ToSet

LEMMA UpTo == ASSUME NEW n \in Nat PROVE IsFiniteSet(1 .. n) /\ Cardinality(1 .. n) = n
<1>1. IsFiniteSet(1 .. n) /\ Cardinality(1 .. n) = IF 1 > n THEN 0 ELSE n - 1 + 1
  BY FS_Interval
<1>. QED BY <1>1

LEMMA StampCount ==
  ASSUME NEW T, NEW s, NEW m, NEW c, NEW d, s \in Seq(T), m \in Seq(Containers),
         Marked(s, c, m, d)
  PROVE  IsFiniteSet(StampsOf(s)) /\ Cardinality(StampsOf(s)) = Len(s)
<1> DEFINE f == [i \in 1 .. Len(s) |-> s[i].stamp]
           S == StampsOf(s)
<1>1. Len(s) \in Nat /\ DOMAIN s = 1 .. Len(s) /\ DOMAIN m \subseteq Nat
  BY LenProperties
<1>2. S = {s[i].stamp : i \in DOMAIN s}
  BY StampsOfPlaces
<1>3. f \in Bijection(1 .. Len(s), S)
  <2>1. f \in [1 .. Len(s) -> S] /\ \A t \in S : \E i \in 1 .. Len(s) : f[i] = t
    BY <1>1, <1>2
  <2>2. ASSUME NEW i \in 1 .. Len(s), NEW j \in 1 .. Len(s), i # j PROVE f[i] # f[j]
    <3>1. /\ f[i] = s[i].stamp /\ f[j] = s[j].stamp
          /\ i \in DOMAIN s /\ j \in DOMAIN s /\ i \in Nat /\ j \in Nat
      BY <1>1
    <3> HIDE DEF f
    <3>2. f[i] \in Nat /\ f[j] \in Nat
      BY <1>1, <3>1 DEF Marked
    <3>3. i < j \/ j < i
      BY <2>2, <3>1
    <3>4. (i < j => s[i].stamp < s[j].stamp) /\ (j < i => s[j].stamp < s[i].stamp)
      BY <3>1 DEF Marked
    <3>5. (i < j => f[i] < f[j]) /\ (j < i => f[j] < f[i])
      BY <3>1, <3>4
    <3>. QED BY <3>2, <3>3, <3>5
  <2> HIDE DEF f, S
  <2>3. f \in Injection(1 .. Len(s), S)
    BY <2>1, <2>2 DEF Injection, IsInjective
  <2>4. f \in Surjection(1 .. Len(s), S)
    BY <2>1, Zenon DEF Surjection
  <2>. QED BY <2>3, <2>4 DEF Bijection
<1>4. IsFiniteSet(1 .. Len(s)) /\ Cardinality(1 .. Len(s)) = Len(s)
  BY <1>1, UpTo
<1> HIDE DEF f, S
<1>5. ExistsBijection(1 .. Len(s), S)
  BY <1>3 DEF ExistsBijection
<1>. QED BY <1>4, <1>5, FS_Bijection DEF S

\* Insertions into other containers, and their removals, are none of its own.
LEMMA OtherInserts ==
  ASSUME NEW s, NEW c, NEW m, NEW d, NEW capacity, NEW k, m \in Seq(Containers),
         Marked(s, c, m, d), CrowdedOut(s, c, m, d, capacity), k \in Containers, k # c
  PROVE  /\ Marked(s, c, Append(m, k), d) /\ Gone(s, c, Append(m, k), d) = Gone(s, c, m, d)
         /\ CrowdedOut(s, c, Append(m, k), d, capacity)
<1> DEFINE m2 == Append(m, k)
<1>1. Len(m) \in Nat /\ DOMAIN m = 1 .. Len(m)
  BY LenProperties
<1>2. /\ m2 \in Seq(Containers) /\ Len(m2) = Len(m) + 1 /\ m2[Len(m) + 1] = k
      /\ \A i \in 1 .. Len(m) : m2[i] = m[i]
  BY AppendProperties
<1> HIDE DEF m2
<1>3. DOMAIN m2 = 1 .. Len(m) + 1
  BY <1>2, LenProperties
<1>4. \A i \in DOMAIN m : i \in DOMAIN m2 /\ m2[i] = m[i]
  BY <1>1, <1>2, <1>3
<1>5. \A i \in DOMAIN m2 : m2[i] = c => i \in DOMAIN m
  BY <1>1, <1>2, <1>3
<1>6. Marked(s, c, m2, d) /\ Gone(s, c, m2, d) = Gone(s, c, m, d)
  BY <1>4, <1>5 DEF Marked, Gone
<1>7. \A i : Later(i, c, m2) = Later(i, c, m)
  BY <1>4, <1>5 DEF Later
<1>. QED BY <1>6, <1>7 DEF CrowdedOut, m2

LEMMA OtherRemoves ==
  ASSUME NEW s, NEW c, NEW m, NEW d, NEW capacity, NEW X, Marked(s, c, m, d),
         CrowdedOut(s, c, m, d, capacity), \A x \in X : m[x] # c
  PROVE  /\ Marked(s, c, m, Also(d, X)) /\ Gone(s, c, m, Also(d, X)) = Gone(s, c, m, d)
         /\ CrowdedOut(s, c, m, Also(d, X), capacity)
<1>1. Marked(s, c, m, Also(d, X)) /\ Gone(s, c, m, Also(d, X)) = Gone(s, c, m, d)
  BY DEF Marked, Gone, Also
<1>. QED BY <1>1 DEF CrowdedOut

\* What its user removes is not crowded out.
LEMMA OwnRemoves ==
  ASSUME NEW s, NEW c, NEW m, NEW d, NEW capacity,
         CrowdedOut(s, c, m, d, capacity),
         NEW r, StampsOf(r) \subseteq StampsOf(s),
         NEW d2, d2 = d \union (StampsOf(s) \ StampsOf(r))
  PROVE  Gone(r, c, m, d2) = Gone(s, c, m, d) /\ CrowdedOut(r, c, m, d2, capacity)
<1>1. Gone(r, c, m, d2) = Gone(s, c, m, d)
  BY DEF Gone
<1>. QED BY <1>1 DEF CrowdedOut

LEMMA DeleteKeepsMarks ==
  ASSUME NEW T, NEW s, NEW c, NEW m, NEW d, NEW p, s \in Seq(T), m \in Seq(Containers),
         Marked(s, c, m, d), p \in DOMAIN s
  PROVE  /\ RemoveAt(s, p) \in Seq(T) /\ StampsOf(RemoveAt(s, p)) = StampsOf(s) \ {s[p].stamp}
         /\ Marked(RemoveAt(s, p), c, m, Also(d, StampAt(s, p)))
<1> DEFINE old(i) == IF i < p THEN i ELSE i + 1
           r == RemoveAt(s, p)
<1>1. Len(s) \in Nat /\ DOMAIN s = 1 .. Len(s) /\ p \in 1 .. Len(s) /\ DOMAIN m \subseteq Nat
  BY LenProperties
<1>2. /\ r \in Seq(T) /\ Len(r) = Len(s) - 1
      /\ \A i \in 1 .. Len(s) - 1 : r[i] = s[old(i)]
  BY RemoveOne
<1> HIDE DEF r
<1>3. DOMAIN r = 1 .. Len(s) - 1
  BY <1>2, LenProperties
<1>4. \A i \in DOMAIN r : old(i) \in DOMAIN s /\ old(i) # p /\ r[i] = s[old(i)]
  BY <1>1, <1>2, <1>3
<1>5. \A i, j \in DOMAIN r : i < j => old(i) < old(j)
  BY <1>1, <1>3
<1>6. \A q \in DOMAIN s : q # p => \E i \in DOMAIN r : old(i) = q
  <2> SUFFICES ASSUME NEW q \in DOMAIN s, q # p PROVE \E i \in DOMAIN r : old(i) = q
    OBVIOUS
  <2>1. CASE q < p
    BY <1>1, <1>3, <2>1
  <2>2. CASE q > p
    <3>1. q - 1 \in DOMAIN r /\ old(q - 1) = q
      BY <1>1, <1>3, <2>2
    <3>. QED BY <3>1
  <2>. QED BY <1>1, <2>1, <2>2
<1> HIDE DEF old
<1>7. \A q \in DOMAIN s : q # p => s[q].stamp # s[p].stamp
  BY <1>1 DEF Marked
<1>8. StampsOf(r) = StampsOf(s) \ {s[p].stamp}
  <2>1. \A i \in DOMAIN r : r[i].stamp \in StampsOf(s) \ {s[p].stamp}
    BY <1>4, <1>7, StampsOfPlaces
  <2>2. \A q \in DOMAIN s : s[q].stamp # s[p].stamp => \E i \in DOMAIN r : r[i].stamp = s[q].stamp
    BY <1>4, <1>6
  <2>. QED BY <2>1, <2>2, StampsOfPlaces
<1>9. Marked(r, c, m, Also(d, StampAt(s, p)))
  BY <1>4, <1>5, <1>7 DEF Marked, Also, StampAt
<1>. QED BY <1>2, <1>8, <1>9 DEF r

LEMMA DropKeepsMarks ==
  ASSUME NEW T, NEW s, NEW c, NEW m, NEW d, NEW r, s \in Seq(T), m \in Seq(Containers),
         Marked(s, c, m, d), Len(s) # 0, r = Tail(s)
  PROVE  /\ r \in Seq(T) /\ Len(r) = Len(s) - 1 /\ Marked(r, c, m, d)
         /\ s[1].stamp \in StampsOf(s) /\ StampsOf(r) = StampsOf(s) \ {s[1].stamp}
         /\ \A i \in DOMAIN r : r[i].stamp > s[1].stamp
<1>1. Len(s) \in Nat /\ DOMAIN s = 1 .. Len(s) /\ 1 \in DOMAIN s /\ DOMAIN m \subseteq Nat
  BY LenProperties
<1>2. r \in Seq(T) /\ Len(r) = Len(s) - 1 /\ \A i \in 1 .. Len(s) - 1 : r[i] = s[i + 1]
  BY <1>1, HeadTailProperties, EmptySeq
<1>3. DOMAIN r = 1 .. Len(s) - 1
  BY <1>2, LenProperties
<1>4. \A i \in DOMAIN r : i + 1 \in DOMAIN s /\ i + 1 > 1 /\ r[i] = s[i + 1]
  BY <1>1, <1>2, <1>3
<1>5. \A q \in DOMAIN s : q # 1 => q - 1 \in DOMAIN r /\ r[q - 1] = s[q]
  BY <1>1, <1>2, <1>3
<1>6. \A q \in DOMAIN s : q # 1 => s[q].stamp # s[1].stamp /\ s[q].stamp > s[1].stamp
  BY <1>1 DEF Marked
<1>7. \A i, j \in DOMAIN r : i < j => i + 1 < j + 1
  BY <1>3
<1>8. Marked(r, c, m, d)
  BY <1>4, <1>7 DEF Marked
<1>9. StampsOf(r) = StampsOf(s) \ {s[1].stamp}
  <2>1. \A i \in DOMAIN r : r[i].stamp \in StampsOf(s) \ {s[1].stamp}
    BY <1>1, <1>4, <1>6, StampsOfPlaces
  <2>2. \A q \in DOMAIN s : s[q].stamp # s[1].stamp => \E i \in DOMAIN r : r[i].stamp = s[q].stamp
    BY <1>5
  <2>3. /\ StampsOf(r) = {r[i].stamp : i \in DOMAIN r}
        /\ StampsOf(s) = {s[i].stamp : i \in DOMAIN s}
    BY StampsOfPlaces
  <2>4. \A x \in StampsOf(s) : x # s[1].stamp => x \in StampsOf(r)
    BY <2>2, <2>3
  <2>5. \A x \in StampsOf(r) : x \in StampsOf(s) \ {s[1].stamp}
    BY <2>1, <2>3
  <2>. QED BY <2>4, <2>5
<1>10. \A i \in DOMAIN r : r[i].stamp > s[1].stamp
  BY <1>1, <1>4, <1>6
<1>. QED BY <1>1, <1>2, <1>8, <1>9, <1>10, StampsOfPlaces

\* A new insertion is the last one.
LEMMA AppendKeepsMarks ==
  ASSUME NEW T, NEW s, NEW c, NEW m, NEW d, NEW e, s \in Seq(T), c \in Containers,
         m \in Seq(Containers), Within(d, m), Marked(s, c, m, d), e \in T,
         Stamped(e, m)
  PROVE  /\ Append(s, e) \in Seq(T) /\ Len(Append(s, e)) = Len(s) + 1
         /\ Marked(Append(s, e), c, Append(m, c), d)
         /\ StampsOf(Append(s, e)) = Also(StampsOf(s), NextStamp(m))
<1> DEFINE m2 == Append(m, c)
           r == Append(s, e)
<1>1. /\ Len(s) \in Nat /\ DOMAIN s = 1 .. Len(s)
      /\ Len(m) \in Nat /\ DOMAIN m = 1 .. Len(m)
  BY LenProperties
<1>2. /\ m2 \in Seq(Containers) /\ Len(m2) = Len(m) + 1 /\ m2[Len(m) + 1] = c
      /\ \A i \in 1 .. Len(m) : m2[i] = m[i]
  BY AppendProperties
<1>3. /\ r \in Seq(T) /\ Len(r) = Len(s) + 1 /\ r[Len(s) + 1] = e
      /\ \A i \in 1 .. Len(s) : r[i] = s[i]
  BY AppendProperties
<1> HIDE DEF m2, r
<1>4. DOMAIN m2 = 1 .. Len(m) + 1 /\ DOMAIN r = 1 .. Len(s) + 1
  BY <1>2, <1>3, LenProperties
<1>e. e.stamp = Len(m) + 1
  BY DEF Stamped
<1>5. \A i \in DOMAIN r : i = Len(s) + 1 \/ (i \in DOMAIN s /\ r[i] = s[i])
  <2> SUFFICES ASSUME NEW i \in DOMAIN r, i # Len(s) + 1 PROVE i \in DOMAIN s /\ r[i] = s[i]
    OBVIOUS
  <2>1. i \in 1 .. Len(s)
    BY <1>1, <1>4
  <2>. QED BY <1>1, <1>3, <2>1
<1>6. \A i \in DOMAIN r : r[i].stamp \in DOMAIN m2 /\ m2[r[i].stamp] = c /\ r[i].stamp \notin d
  <2> SUFFICES ASSUME NEW i \in DOMAIN r
               PROVE  r[i].stamp \in DOMAIN m2 /\ m2[r[i].stamp] = c /\ r[i].stamp \notin d
    OBVIOUS
  <2>1. CASE i = Len(s) + 1
    BY <1>1, <1>2, <1>3, <1>4, <1>e, <2>1 DEF Within
  <2>2. CASE i \in DOMAIN s /\ r[i] = s[i]
    <3>1. s[i].stamp \in DOMAIN m /\ m[s[i].stamp] = c /\ s[i].stamp \notin d
      BY <2>2 DEF Marked
    <3>. QED BY <1>1, <1>2, <1>4, <2>2, <3>1
  <2>. QED BY <1>5, <2>1, <2>2
<1>7. \A i, j \in DOMAIN r : i < j => r[i].stamp < r[j].stamp
  <2> SUFFICES ASSUME NEW i \in DOMAIN r, NEW j \in DOMAIN r, i < j PROVE r[i].stamp < r[j].stamp
    OBVIOUS
  <2>1. i \in DOMAIN s /\ r[i] = s[i] /\ s[i].stamp \in 1 .. Len(m)
    BY <1>1, <1>3, <1>4 DEF Marked
  <2>2. CASE j = Len(s) + 1
    BY <1>1, <1>3, <1>e, <2>1, <2>2
  <2>3. CASE j \in DOMAIN s /\ r[j] = s[j]
    BY <2>1, <2>3 DEF Marked
  <2>. QED BY <1>5, <2>2, <2>3
<1>8. StampsOf(r) = StampsOf(s) \union {Len(m) + 1}
  <2>1. Len(s) + 1 \in DOMAIN r /\ r[Len(s) + 1].stamp = Len(m) + 1
    BY <1>1, <1>3, <1>4, <1>e
  <2>2. \A i \in DOMAIN s : i \in DOMAIN r /\ r[i] = s[i]
    BY <1>1, <1>3, <1>4
  <2>. QED BY <1>5, <2>1, <2>2, StampsOfPlaces
<1>9. Marked(r, c, m2, d)
  BY <1>6, <1>7 DEF Marked
<1>. QED BY <1>3, <1>8, <1>9 DEF m2, r, Also, NextStamp

\* An insertion that makes room: the container is full of later ones than the
\* first, and with its own there are as many as it holds.
LEMMA InsertKeeps ==
  ASSUME NEW T, NEW s, NEW c, NEW m, NEW d, NEW capacity, NEW e, s \in Seq(T), c \in Containers,
         m \in Seq(Containers), Within(d, m), capacity \in Nat, Marked(s, c, m, d),
         CrowdedOut(s, c, m, d, capacity), e \in T, Stamped(e, m)
  PROVE  /\ Added(s, e, capacity) \in Seq(T)
         /\ Marked(Added(s, e, capacity), c, Append(m, c), d)
         /\ CrowdedOut(Added(s, e, capacity), c, Append(m, c), d, capacity)
         /\ Gone(Added(s, e, capacity), c, Append(m, c), d)
              = IF Full(s, capacity) THEN Also(Gone(s, c, m, d), StampAt(s, 1)) ELSE Gone(s, c, m, d)
         /\ Full(s, capacity) => s[1].stamp \notin Gone(s, c, m, d)
<1> DEFINE first == s[1].stamp
           m2 == Append(m, c)
           r == Added(s, e, capacity)
<1>1. /\ Len(s) \in Nat /\ DOMAIN s = 1 .. Len(s)
      /\ Len(m) \in Nat /\ DOMAIN m = 1 .. Len(m)
  BY LenProperties
<1>2. /\ m2 \in Seq(Containers) /\ Len(m2) = Len(m) + 1 /\ m2[Len(m) + 1] = c
      /\ \A i \in 1 .. Len(m) : m2[i] = m[i]
  BY AppendProperties
<1> HIDE DEF m2, r
<1>3. DOMAIN m2 = 1 .. Len(m) + 1
  BY <1>2, LenProperties
<1>4. {i \in DOMAIN m2 : m2[i] = c} = {i \in DOMAIN m : m[i] = c} \union {Len(m) + 1}
  BY <1>1, <1>2, <1>3
<1>5. Len(m) + 1 \notin DOMAIN m /\ Len(m) + 1 \notin d
  BY <1>1 DEF Within
<1>6. Len(m) + 1 \notin StampsOf(s)
  BY <1>5, StampsOfPlaces DEF Marked
<1>7. \A i : Later(i, c, m) \subseteq Later(i, c, m2)
  BY <1>1, <1>2, <1>3 DEF Later
<1>8. \A i : IsFiniteSet(Later(i, c, m2)) /\ Cardinality(Later(i, c, m)) <= Cardinality(Later(i, c, m2))
              /\ Cardinality(Later(i, c, m2)) \in Nat /\ Cardinality(Later(i, c, m)) \in Nat
  <2> SUFFICES ASSUME NEW i
               PROVE  /\ IsFiniteSet(Later(i, c, m2))
                      /\ Cardinality(Later(i, c, m)) <= Cardinality(Later(i, c, m2))
                      /\ Cardinality(Later(i, c, m2)) \in Nat /\ Cardinality(Later(i, c, m)) \in Nat
    OBVIOUS
  <2>1. IsFiniteSet(DOMAIN m2)
    BY <1>1, <1>3, UpTo
  <2>2. IsFiniteSet(Later(i, c, m2))
    BY <2>1, FS_Subset DEF Later
  <2>. QED BY <1>7, <2>2, FS_Subset, FS_CardinalityType
<1>9. CASE ~Full(s, capacity)
  <2>1. r = Append(s, e)
    BY <1>9 DEF Added, r
  <2>2. r \in Seq(T) /\ Marked(r, c, m2, d) /\ StampsOf(r) = StampsOf(s) \union {Len(m) + 1}
    <3>1. /\ Append(s, e) \in Seq(T) /\ Marked(Append(s, e), c, Append(m, c), d)
          /\ StampsOf(Append(s, e)) = Also(StampsOf(s), NextStamp(m))
      BY AppendKeepsMarks
    <3>. QED BY <2>1, <3>1 DEF m2, Also, NextStamp
  <2>3. Gone(r, c, m2, d) = Gone(s, c, m, d)
    BY <1>4, <1>5, <2>2 DEF Gone
  <2>4. CrowdedOut(r, c, m2, d, capacity)
    BY <1>8, <2>3 DEF CrowdedOut
  <2>. QED BY <1>9, <2>2, <2>3, <2>4 DEF m2, r
<1>10. CASE Full(s, capacity)
  <2>1. r = Append(Tail(s), e) /\ Len(s) # 0 /\ Len(s) >= capacity /\ capacity > 0
    BY <1>1, <1>10 DEF Added, Full, r
  <2> DEFINE t == Tail(s)
  <2>2. /\ t \in Seq(T) /\ Len(t) = Len(s) - 1 /\ Marked(t, c, m, d)
        /\ first \in StampsOf(s) /\ StampsOf(t) = StampsOf(s) \ {first}
        /\ \A i \in DOMAIN t : t[i].stamp > first
    BY <2>1, DropKeepsMarks
  <2>3. first \in DOMAIN m /\ m[first] = c /\ first \notin d
    BY <1>1, <2>1 DEF Marked
  <2> HIDE DEF t, first
  <2>4. /\ r \in Seq(T) /\ Len(r) = Len(t) + 1 /\ Marked(r, c, m2, d)
        /\ StampsOf(r) = StampsOf(t) \union {Len(m) + 1}
    <3>1. /\ Append(t, e) \in Seq(T) /\ Len(Append(t, e)) = Len(t) + 1
          /\ Marked(Append(t, e), c, Append(m, c), d)
          /\ StampsOf(Append(t, e)) = Also(StampsOf(t), NextStamp(m))
      <4>1. t \in Seq(T) /\ Marked(t, c, m, d)
        BY <2>2
      <4>. QED BY <4>1, AppendKeepsMarks
    <3>2. r = Append(t, e)
      BY <2>1 DEF t
    <3>. QED BY <3>1, <3>2 DEF m2, Also, NextStamp
  <2>5. Gone(r, c, m2, d) = Gone(s, c, m, d) \union {first}
    BY <1>4, <1>5, <2>2, <2>3, <2>4 DEF Gone
  <2>6. StampsOf(r) \subseteq Later(first, c, m2)
    <3>1. \A i \in DOMAIN t : t[i].stamp \in Later(first, c, m)
      BY <2>2 DEF Marked, Later
    <3>2. Len(m) + 1 \in Later(first, c, m2)
      BY <1>1, <1>2, <1>3, <2>3 DEF Later
    <3>. QED BY <1>7, <2>4, <3>1, <3>2, StampsOfPlaces
  <2>7. Cardinality(StampsOf(r)) = Len(s)
    <3>1. Cardinality(StampsOf(r)) = Len(r)
      BY <1>2, <2>4, StampCount
    <3>. QED BY <1>1, <2>2, <2>4, <3>1
  <2>8. Len(s) <= Cardinality(Later(first, c, m2))
    BY <1>8, <2>6, <2>7, FS_Subset
  <2>9. CrowdedOut(r, c, m2, d, capacity)
    <3> SUFFICES ASSUME NEW i \in Gone(r, c, m2, d)
                 PROVE  capacity > 0 /\ Cardinality(Later(i, c, m2)) >= capacity
      BY DEF CrowdedOut
    <3>1. CASE i = first
      BY <1>1, <1>8, <2>1, <2>8, <3>1
    <3>2. CASE i \in Gone(s, c, m, d)
      <4>1. Cardinality(Later(i, c, m)) >= capacity
        BY <3>2 DEF CrowdedOut
      <4>. QED BY <1>8, <2>1, <4>1
    <3>. QED BY <2>5, <3>1, <3>2
  <2>10. first \notin Gone(s, c, m, d)
    BY <2>2 DEF Gone
  <2>. QED BY <1>10, <2>4, <2>5, <2>9, <2>10 DEF first, m2, r, Also, StampAt
<1>. QED BY <1>9, <1>10

Fine(T, s, c, m, d, capacity) ==
  /\ s \in Seq(T) /\ m \in Seq(Containers)
  /\ Marked(s, c, m, d) /\ CrowdedOut(s, c, m, d, capacity)

InstanceRecords == [id : AgentIds, stamp : Stamp]
StateRecords == [key : StateKeys, stamp : Stamp]
LineRecords == [severity : Severities, stamp : Stamp]

BoundedInv ==
  /\ evictions \in Nat /\ Len(made) <= Insertions /\ dropped \subseteq DOMAIN made
  /\ Fine(InstanceRecords, instances, "agents", made, dropped, MaxInstances)
  /\ Fine(StateRecords, state, "state", made, dropped, MaxStateEntries)
  /\ Fine(LineRecords, lines, "log", made, dropped, MaxLogEntries)
  /\ evictions = Cardinality(Gone(instances, "agents", made, dropped))

LEMMA BoundedStart == BoundedInit => BoundedInv
<1> SUFFICES ASSUME BoundedInit PROVE BoundedInv
  OBVIOUS
<1>1. Len(made) = 0 /\ DOMAIN made = {} /\ Insertions \in Nat
  BY Capacities DEF BoundedInit
<1>2. evictions \in Nat /\ Len(made) <= Insertions /\ dropped \subseteq DOMAIN made
  BY <1>1 DEF BoundedInit
<1>3. \A c : Gone(<<>>, c, made, dropped) = {}
  BY <1>1 DEF Gone
<1>4. \A T, c, capacity : Fine(T, <<>>, c, made, dropped, capacity)
  <2>1. \A c, capacity : Marked(<<>>, c, made, dropped) /\ CrowdedOut(<<>>, c, made, dropped, capacity)
    BY <1>3 DEF Marked, CrowdedOut
  <2>2. made \in Seq(Containers) /\ \A T : <<>> \in Seq(T)
    BY EmptySeq DEF BoundedInit
  <2>. QED BY <2>1, <2>2 DEF Fine
<1>5. evictions = Cardinality({})
  BY FS_EmptySet DEF BoundedInit
<1>. QED BY <1>2, <1>3, <1>4, <1>5 DEF BoundedInit, BoundedInv

LEMMA Contents ==
  ASSUME BoundedInv
  PROVE  /\ made \in Seq(Containers) /\ Len(made) \in Nat /\ DOMAIN made = 1 .. Len(made)
         /\ Fine(InstanceRecords, instances, "agents", made, dropped, MaxInstances)
         /\ Fine(StateRecords, state, "state", made, dropped, MaxStateEntries)
         /\ Fine(LineRecords, lines, "log", made, dropped, MaxLogEntries)
  BY LenProperties DEF BoundedInv, Fine

LEMMA Three == "agents" \in Containers /\ "state" \in Containers /\ "log" \in Containers
  BY DEF Containers

\* An insertion into one container of the three.
LEMMA InsertStep ==
  ASSUME NEW c, BoundedInv, c \in Containers, Make(c), UNCHANGED dropped
  PROVE  /\ made' \in Seq(Containers) /\ Len(made') <= Insertions /\ Len(made') = Len(made) + 1
         /\ Len(made') \in Stamp /\ dropped' \subseteq DOMAIN made' /\ made' = Append(made, c)
         /\ dropped' = dropped
<1>1. made \in Seq(Containers) /\ Len(made) \in Nat /\ DOMAIN made = 1 .. Len(made)
  BY Contents
<1>2. made' = Append(made, c) /\ Len(made) < Insertions /\ Insertions \in Nat
  BY Capacities DEF Make
<1>3. made' \in Seq(Containers) /\ Len(made') = Len(made) + 1
  BY <1>1, <1>2, AppendProperties
<1>4. DOMAIN made' = 1 .. Len(made')
  BY <1>3, LenProperties
<1>5. DOMAIN made \subseteq DOMAIN made' /\ Len(made') \in Stamp /\ Len(made') <= Insertions
  BY <1>1, <1>2, <1>3, <1>4 DEF Stamp
<1>. QED BY <1>2, <1>3, <1>5 DEF BoundedInv

LEMMA OthersKept ==
  ASSUME NEW c, BoundedInv, c \in Containers, made' = Append(made, c), dropped' = dropped
  PROVE  /\ c # "agents" => /\ Fine(InstanceRecords, instances, "agents", made', dropped', MaxInstances)
                            /\ Gone(instances, "agents", made', dropped')
                                 = Gone(instances, "agents", made, dropped)
         /\ c # "state" => Fine(StateRecords, state, "state", made', dropped', MaxStateEntries)
         /\ c # "log" => Fine(LineRecords, lines, "log", made', dropped', MaxLogEntries)
<1>1. made \in Seq(Containers)
  BY Contents
<1>a. made' \in Seq(Containers)
  BY <1>1, AppendProperties
<1>2. ASSUME NEW T, NEW s, NEW k, NEW capacity, k # c, Fine(T, s, k, made, dropped, capacity)
      PROVE  /\ Fine(T, s, k, made', dropped', capacity)
             /\ Gone(s, k, made', dropped') = Gone(s, k, made, dropped)
  <2>1. /\ Marked(s, k, Append(made, c), dropped)
        /\ Gone(s, k, Append(made, c), dropped) = Gone(s, k, made, dropped)
        /\ CrowdedOut(s, k, Append(made, c), dropped, capacity)
    BY <1>1, <1>2, OtherInserts DEF Fine
  <2>. QED BY <1>a, <1>2, <2>1 DEF Fine
<1>. QED BY <1>2 DEF BoundedInv

\* A removal from one container of the three.
LEMMA OthersStay ==
  ASSUME NEW c, NEW X, BoundedInv, c \in Containers,
         Inserted(X, c, made), made' = made, dropped' = Also(dropped, X)
  PROVE  /\ dropped' \subseteq DOMAIN made'
         /\ c # "agents" => /\ Fine(InstanceRecords, instances, "agents", made', dropped', MaxInstances)
                            /\ Gone(instances, "agents", made', dropped')
                                 = Gone(instances, "agents", made, dropped)
         /\ c # "state" => Fine(StateRecords, state, "state", made', dropped', MaxStateEntries)
         /\ c # "log" => Fine(LineRecords, lines, "log", made', dropped', MaxLogEntries)
<1>1. dropped' \subseteq DOMAIN made'
  BY DEF BoundedInv, Also, Inserted
<1>2. ASSUME NEW T, NEW s, NEW k, NEW capacity, k # c, Fine(T, s, k, made, dropped, capacity)
      PROVE  /\ Fine(T, s, k, made', dropped', capacity)
             /\ Gone(s, k, made', dropped') = Gone(s, k, made, dropped)
  <2>1. \A x \in X : made[x] # k
    BY <1>2 DEF Inserted
  <2>2. /\ Marked(s, k, made, Also(dropped, X))
        /\ Gone(s, k, made, Also(dropped, X)) = Gone(s, k, made, dropped)
        /\ CrowdedOut(s, k, made, Also(dropped, X), capacity)
    BY <1>2, <2>1, OtherRemoves DEF Fine
  <2>. QED BY <1>2, <2>2 DEF Fine
<1>. QED BY <1>1, <1>2 DEF BoundedInv

LEMMA RemovalKeeps ==
  ASSUME NEW T, NEW s, NEW c, NEW m, NEW d, NEW capacity, NEW i,
         Fine(T, s, c, m, d, capacity), i \in DOMAIN s
  PROVE  /\ Inserted(StampAt(s, i), c, m)
         /\ Fine(T, RemoveAt(s, i), c, m, Also(d, StampAt(s, i)), capacity)
         /\ Gone(RemoveAt(s, i), c, m, Also(d, StampAt(s, i))) = Gone(s, c, m, d)
<1> DEFINE r == RemoveAt(s, i)
           d2 == Also(d, StampAt(s, i))
<1>1. r \in Seq(T) /\ StampsOf(r) = StampsOf(s) \ {s[i].stamp} /\ Marked(r, c, m, d2)
  <2>1. s \in Seq(T) /\ m \in Seq(Containers) /\ Marked(s, c, m, d)
    BY DEF Fine
  <2>. QED BY <2>1, DeleteKeepsMarks
<1>2. s[i].stamp \in StampsOf(s) /\ s[i].stamp \in DOMAIN m /\ m[s[i].stamp] = c
  BY StampsOfPlaces DEF Fine, Marked
<1>3. d2 = d \union (StampsOf(s) \ StampsOf(r)) /\ StampsOf(r) \subseteq StampsOf(s)
  BY <1>1, <1>2 DEF Also, StampAt
<1> HIDE DEF r, d2
<1>4. Gone(r, c, m, d2) = Gone(s, c, m, d) /\ CrowdedOut(r, c, m, d2, capacity)
  BY <1>3, OwnRemoves DEF Fine
<1>5. Inserted(StampAt(s, i), c, m)
  BY <1>2 DEF StampAt, Inserted
<1>6. Fine(T, r, c, m, d2, capacity)
  BY <1>1, <1>4 DEF Fine
<1>. QED BY <1>4, <1>5, <1>6 DEF r, d2

LEMMA ClearingKeeps ==
  ASSUME NEW T, NEW s, NEW c, NEW m, NEW d, NEW capacity, Fine(T, s, c, m, d, capacity)
  PROVE  /\ Inserted(StampsOf(s), c, m)
         /\ Marked(<<>>, c, m, Also(d, StampsOf(s)))
         /\ CrowdedOut(<<>>, c, m, Also(d, StampsOf(s)), capacity)
         /\ Gone(<<>>, c, m, Also(d, StampsOf(s))) = Gone(s, c, m, d)
<1>1. Inserted(StampsOf(s), c, m)
  BY StampsOfPlaces DEF Fine, Marked, Inserted
<1>2. StampsOf(<<>>) = {}
  BY StampsOfPlaces
<1>3. Also(d, StampsOf(s)) = d \union (StampsOf(s) \ StampsOf(<<>>))
  BY <1>2 DEF Also
<1>4. /\ Gone(<<>>, c, m, Also(d, StampsOf(s))) = Gone(s, c, m, d)
      /\ CrowdedOut(<<>>, c, m, Also(d, StampsOf(s)), capacity)
  BY <1>2, <1>3, OwnRemoves DEF Fine
<1>5. Marked(<<>>, c, m, Also(d, StampsOf(s)))
  BY DEF Marked
<1>. QED BY <1>1, <1>4, <1>5 DEF Fine

LEMMA InsertedKeeps ==
  ASSUME NEW T, NEW s, NEW c, NEW capacity, NEW e, BoundedInv, c \in Containers,
         capacity \in Nat, Fine(T, s, c, made, dropped, capacity), e \in T, e.stamp = Len(made'),
         Make(c), UNCHANGED dropped
  PROVE  /\ Fine(T, Added(s, e, capacity), c, made', dropped', capacity)
         /\ Full(s, capacity) =>
              /\ s[1].stamp \notin Gone(s, c, made, dropped)
              /\ Gone(Added(s, e, capacity), c, made', dropped')
                   = Also(Gone(s, c, made, dropped), StampAt(s, 1))
         /\ ~Full(s, capacity) =>
              Gone(Added(s, e, capacity), c, made', dropped') = Gone(s, c, made, dropped)
<1>1. /\ made \in Seq(Containers) /\ made' = Append(made, c) /\ dropped' = dropped
      /\ Stamped(e, made) /\ Within(dropped, made)
  BY InsertStep, Contents DEF BoundedInv, Within, Stamped
<1>2. s \in Seq(T) /\ Marked(s, c, made, dropped) /\ CrowdedOut(s, c, made, dropped, capacity)
  BY DEF Fine
<1>3. /\ Added(s, e, capacity) \in Seq(T)
      /\ Marked(Added(s, e, capacity), c, Append(made, c), dropped)
      /\ CrowdedOut(Added(s, e, capacity), c, Append(made, c), dropped, capacity)
      /\ Gone(Added(s, e, capacity), c, Append(made, c), dropped)
           = IF Full(s, capacity) THEN Also(Gone(s, c, made, dropped), StampAt(s, 1))
             ELSE Gone(s, c, made, dropped)
      /\ Full(s, capacity) => s[1].stamp \notin Gone(s, c, made, dropped)
  BY <1>1, <1>2, InsertKeeps
<1>4. made' \in Seq(Containers)
  BY InsertStep
<1>. QED BY <1>1, <1>3, <1>4 DEF Fine

LEMMA GetOrCreateKeeps == ASSUME BoundedInv, NEW a \in AgentIds, GetOrCreate(a) PROVE BoundedInv'
<1> DEFINE e == [id |-> a, stamp |-> Len(made')]
           gone == Gone(instances, "agents", made, dropped)
<1>1. /\ Make("agents") /\ UNCHANGED dropped /\ "agents" \in Containers
      /\ instances' = Added(instances, e, MaxInstances)
      /\ evictions' = IF Full(instances, MaxInstances) THEN evictions + 1 ELSE evictions
      /\ state' = state /\ lines' = lines
  BY DEF GetOrCreate, Containers
<1>2. /\ made' \in Seq(Containers) /\ Len(made') <= Insertions /\ Len(made') \in Stamp
      /\ dropped' \subseteq DOMAIN made' /\ made' = Append(made, "agents") /\ dropped' = dropped
  BY <1>1, InsertStep
<1>3. e \in InstanceRecords /\ e.stamp = Len(made') /\ MaxInstances \in Nat
  BY <1>2, Capacities DEF InstanceRecords
<1>4. Fine(InstanceRecords, instances, "agents", made, dropped, MaxInstances)
  BY DEF BoundedInv, Fine
<1> HIDE DEF e
<1>5. /\ Fine(InstanceRecords, instances', "agents", made', dropped', MaxInstances)
      /\ Full(instances, MaxInstances) =>
           /\ instances[1].stamp \notin gone
           /\ Gone(instances', "agents", made', dropped') = Also(gone, StampAt(instances, 1))
      /\ ~Full(instances, MaxInstances) => Gone(instances', "agents", made', dropped') = gone
  BY <1>1, <1>3, <1>4, InsertedKeeps
<1>6. /\ Fine(StateRecords, state', "state", made', dropped', MaxStateEntries)
      /\ Fine(LineRecords, lines', "log", made', dropped', MaxLogEntries)
  BY <1>1, <1>2, OthersKept
<1>7. evictions' \in Nat /\ evictions' = Cardinality(Gone(instances', "agents", made', dropped'))
  <2>1. IsFiniteSet(gone) /\ evictions = Cardinality(gone) /\ evictions \in Nat
    <3>1. made \in Seq(Containers) /\ Len(made) \in Nat /\ DOMAIN made = 1 .. Len(made)
      BY Contents
    <3>2. IsFiniteSet(DOMAIN made) /\ gone \subseteq DOMAIN made
      BY <3>1, UpTo DEF Gone
    <3>. QED BY <3>2, FS_Subset DEF BoundedInv
  <2> HIDE DEF gone
  <2>2. CASE Full(instances, MaxInstances)
    <3> DEFINE x == instances[1].stamp
    <3>1. x \notin gone /\ Gone(instances', "agents", made', dropped') = gone \union {x}
      BY <1>5, <2>2 DEF Also, StampAt
    <3> HIDE DEF x
    <3>2. Cardinality(gone \union {x}) = Cardinality(gone) + 1
      BY <2>1, <3>1, FS_AddElement
    <3>. QED BY <1>1, <2>1, <2>2, <3>1, <3>2
  <2>3. CASE ~Full(instances, MaxInstances)
    <3>1. /\ evictions' = evictions
          /\ Gone(instances', "agents", made', dropped') = gone
      BY <1>1, <1>5, <2>3
    <3>. QED BY <2>1, <3>1
  <2>. QED BY <2>2, <2>3
<1>8. Fine(InstanceRecords, instances', "agents", made', dropped', MaxInstances)
  BY <1>5
<1>. QED BY <1>2, <1>6, <1>7, <1>8 DEF BoundedInv

LEMMA PutKeeps == ASSUME BoundedInv, NEW k \in StateKeys, Put(k) PROVE BoundedInv'
<1> DEFINE e == [key |-> k, stamp |-> Len(made')]
<1>1. /\ Make("state") /\ UNCHANGED dropped /\ "state" \in Containers
      /\ state' = Added(state, e, MaxStateEntries)
      /\ instances' = instances /\ lines' = lines /\ evictions' = evictions
  BY DEF Put, Containers
<1>2. /\ made' \in Seq(Containers) /\ Len(made') <= Insertions /\ Len(made') \in Stamp
      /\ dropped' \subseteq DOMAIN made' /\ made' = Append(made, "state") /\ dropped' = dropped
  BY <1>1, InsertStep
<1>3. e \in StateRecords /\ e.stamp = Len(made') /\ MaxStateEntries \in Nat
  BY <1>2, Capacities DEF StateRecords
<1>4. Fine(StateRecords, state, "state", made, dropped, MaxStateEntries)
  BY DEF BoundedInv, Fine
<1> HIDE DEF e
<1>5. /\ Fine(StateRecords, state', "state", made', dropped', MaxStateEntries)
  BY <1>1, <1>3, <1>4, InsertedKeeps
<1>6. /\ Fine(InstanceRecords, instances', "agents", made', dropped', MaxInstances)
      /\ Fine(LineRecords, lines', "log", made', dropped', MaxLogEntries)
      /\ evictions' = Cardinality(Gone(instances', "agents", made', dropped'))
  BY <1>1, <1>2, OthersKept DEF BoundedInv
<1>. QED BY <1>1, <1>2, <1>5, <1>6 DEF BoundedInv

LEMMA LogKeeps == ASSUME BoundedInv, NEW v \in Severities, Log(v) PROVE BoundedInv'
<1> DEFINE e == [severity |-> v, stamp |-> Len(made')]
<1>1. /\ Make("log") /\ UNCHANGED dropped /\ "log" \in Containers
      /\ lines' = Added(lines, e, MaxLogEntries)
      /\ instances' = instances /\ state' = state /\ evictions' = evictions
  BY DEF Log, Containers
<1>2. /\ made' \in Seq(Containers) /\ Len(made') <= Insertions /\ Len(made') \in Stamp
      /\ dropped' \subseteq DOMAIN made' /\ made' = Append(made, "log") /\ dropped' = dropped
  BY <1>1, InsertStep
<1>3. e \in LineRecords /\ e.stamp = Len(made') /\ MaxLogEntries \in Nat
  BY <1>2, Capacities DEF LineRecords
<1>4. Fine(LineRecords, lines, "log", made, dropped, MaxLogEntries)
  BY DEF BoundedInv, Fine
<1> HIDE DEF e
<1>5. /\ Fine(LineRecords, lines', "log", made', dropped', MaxLogEntries)
  BY <1>1, <1>3, <1>4, InsertedKeeps
<1>6. /\ Fine(InstanceRecords, instances', "agents", made', dropped', MaxInstances)
      /\ Fine(StateRecords, state', "state", made', dropped', MaxStateEntries)
      /\ evictions' = Cardinality(Gone(instances', "agents", made', dropped'))
  BY <1>1, <1>2, OthersKept DEF BoundedInv
<1>. QED BY <1>1, <1>2, <1>5, <1>6 DEF BoundedInv

LEMMA DeleteInstanceKeeps == ASSUME BoundedInv, NEW i \in DOMAIN instances, DeleteInstance(i) PROVE BoundedInv'
<1>1. /\ instances' = RemoveAt(instances, i) /\ dropped' = Also(dropped, StampAt(instances, i))
      /\ evictions' = evictions /\ state' = state /\ lines' = lines /\ made' = made
  BY DEF DeleteInstance, Also, StampAt
<1>2. /\ Inserted(StampAt(instances, i), "agents", made)
      /\ Fine(InstanceRecords, instances', "agents", made', dropped', MaxInstances)
      /\ Gone(instances', "agents", made', dropped') = Gone(instances, "agents", made, dropped)
  <2>1. /\ Inserted(StampAt(instances, i), "agents", made)
        /\ Fine(InstanceRecords, RemoveAt(instances, i), "agents", made, Also(dropped, StampAt(instances, i)), MaxInstances)
        /\ Gone(RemoveAt(instances, i), "agents", made, Also(dropped, StampAt(instances, i)))
             = Gone(instances, "agents", made, dropped)
    <3>1. Fine(InstanceRecords, instances, "agents", made, dropped, MaxInstances)
      BY Contents
    <3>. QED BY <3>1, RemovalKeeps
  <2>. QED BY <1>1, <2>1, Contents, EmptySeq DEF Fine
<1>3. /\ dropped' \subseteq DOMAIN made'
      /\ Fine(StateRecords, state', "state", made', dropped', MaxStateEntries)
      /\ Fine(LineRecords, lines', "log", made', dropped', MaxLogEntries)
  BY Three, <1>1, <1>2, OthersStay
<1>. QED BY <1>1, <1>2, <1>3 DEF BoundedInv

LEMMA ClearInstancesKeeps == ASSUME BoundedInv, ClearInstances PROVE BoundedInv'
<1>1. /\ instances' = <<>> /\ dropped' = Also(dropped, StampsOf(instances))
      /\ evictions' = evictions /\ state' = state /\ lines' = lines /\ made' = made
  BY DEF ClearInstances, Also
<1>2. /\ Inserted(StampsOf(instances), "agents", made)
      /\ Fine(InstanceRecords, instances', "agents", made', dropped', MaxInstances)
      /\ Gone(instances', "agents", made', dropped') = Gone(instances, "agents", made, dropped)
  <2>1. /\ Inserted(StampsOf(instances), "agents", made)
        /\ Marked(<<>>, "agents", made, Also(dropped, StampsOf(instances)))
        /\ CrowdedOut(<<>>, "agents", made, Also(dropped, StampsOf(instances)), MaxInstances)
        /\ Gone(<<>>, "agents", made, Also(dropped, StampsOf(instances))) = Gone(instances, "agents", made, dropped)
    <3>1. Fine(InstanceRecords, instances, "agents", made, dropped, MaxInstances)
      BY Contents
    <3>. QED BY <3>1, ClearingKeeps
  <2>. QED BY <1>1, <2>1, Contents, EmptySeq DEF Fine
<1>3. /\ dropped' \subseteq DOMAIN made'
      /\ Fine(StateRecords, state', "state", made', dropped', MaxStateEntries)
      /\ Fine(LineRecords, lines', "log", made', dropped', MaxLogEntries)
  BY Three, <1>1, <1>2, OthersStay
<1>. QED BY <1>1, <1>2, <1>3 DEF BoundedInv

LEMMA DeleteStateKeeps == ASSUME BoundedInv, NEW i \in DOMAIN state, DeleteState(i) PROVE BoundedInv'
<1>1. /\ state' = RemoveAt(state, i) /\ dropped' = Also(dropped, StampAt(state, i))
      /\ evictions' = evictions /\ instances' = instances /\ lines' = lines /\ made' = made
  BY DEF DeleteState, Also, StampAt
<1>2. /\ Inserted(StampAt(state, i), "state", made)
      /\ Fine(StateRecords, state', "state", made', dropped', MaxStateEntries)
  <2>1. /\ Inserted(StampAt(state, i), "state", made)
        /\ Fine(StateRecords, RemoveAt(state, i), "state", made, Also(dropped, StampAt(state, i)), MaxStateEntries)
        /\ Gone(RemoveAt(state, i), "state", made, Also(dropped, StampAt(state, i)))
             = Gone(state, "state", made, dropped)
    <3>1. Fine(StateRecords, state, "state", made, dropped, MaxStateEntries)
      BY Contents
    <3>. QED BY <3>1, RemovalKeeps
  <2>. QED BY <1>1, <2>1, Contents, EmptySeq DEF Fine
<1>3. /\ dropped' \subseteq DOMAIN made'
      /\ Fine(InstanceRecords, instances', "agents", made', dropped', MaxInstances)
      /\ Gone(instances', "agents", made', dropped') = Gone(instances, "agents", made, dropped)
      /\ Fine(LineRecords, lines', "log", made', dropped', MaxLogEntries)
  BY Three, <1>1, <1>2, OthersStay
<1>. QED BY <1>1, <1>2, <1>3 DEF BoundedInv

LEMMA ClearStateKeeps == ASSUME BoundedInv, ClearState PROVE BoundedInv'
<1>1. /\ state' = <<>> /\ dropped' = Also(dropped, StampsOf(state))
      /\ evictions' = evictions /\ instances' = instances /\ lines' = lines /\ made' = made
  BY DEF ClearState, Also
<1>2. /\ Inserted(StampsOf(state), "state", made)
      /\ Fine(StateRecords, state', "state", made', dropped', MaxStateEntries)
  <2>1. /\ Inserted(StampsOf(state), "state", made)
        /\ Marked(<<>>, "state", made, Also(dropped, StampsOf(state)))
        /\ CrowdedOut(<<>>, "state", made, Also(dropped, StampsOf(state)), MaxStateEntries)
        /\ Gone(<<>>, "state", made, Also(dropped, StampsOf(state))) = Gone(state, "state", made, dropped)
    <3>1. Fine(StateRecords, state, "state", made, dropped, MaxStateEntries)
      BY Contents
    <3>. QED BY <3>1, ClearingKeeps
  <2>. QED BY <1>1, <2>1, Contents, EmptySeq DEF Fine
<1>3. /\ dropped' \subseteq DOMAIN made'
      /\ Fine(InstanceRecords, instances', "agents", made', dropped', MaxInstances)
      /\ Gone(instances', "agents", made', dropped') = Gone(instances, "agents", made, dropped)
      /\ Fine(LineRecords, lines', "log", made', dropped', MaxLogEntries)
  BY Three, <1>1, <1>2, OthersStay
<1>. QED BY <1>1, <1>2, <1>3 DEF BoundedInv

LEMMA ClearLogKeeps == ASSUME BoundedInv, ClearLog PROVE BoundedInv'
<1>1. /\ lines' = <<>> /\ dropped' = Also(dropped, StampsOf(lines))
      /\ evictions' = evictions /\ instances' = instances /\ state' = state /\ made' = made
  BY DEF ClearLog, Also
<1>2. /\ Inserted(StampsOf(lines), "log", made)
      /\ Fine(LineRecords, lines', "log", made', dropped', MaxLogEntries)
  <2>1. /\ Inserted(StampsOf(lines), "log", made)
        /\ Marked(<<>>, "log", made, Also(dropped, StampsOf(lines)))
        /\ CrowdedOut(<<>>, "log", made, Also(dropped, StampsOf(lines)), MaxLogEntries)
        /\ Gone(<<>>, "log", made, Also(dropped, StampsOf(lines))) = Gone(lines, "log", made, dropped)
    <3>1. Fine(LineRecords, lines, "log", made, dropped, MaxLogEntries)
      BY Contents
    <3>. QED BY <3>1, ClearingKeeps
  <2>. QED BY <1>1, <2>1, Contents, EmptySeq DEF Fine
<1>3. /\ dropped' \subseteq DOMAIN made'
      /\ Fine(InstanceRecords, instances', "agents", made', dropped', MaxInstances)
      /\ Gone(instances', "agents", made', dropped') = Gone(instances, "agents", made, dropped)
      /\ Fine(StateRecords, state', "state", made', dropped', MaxStateEntries)
  BY Three, <1>1, <1>2, OthersStay
<1>. QED BY <1>1, <1>2, <1>3 DEF BoundedInv

LEMMA BoundedStep == BoundedInv /\ [BoundedNext]_boundedVars => BoundedInv'
<1> SUFFICES ASSUME BoundedInv, [BoundedNext]_boundedVars PROVE BoundedInv'
  OBVIOUS
<1>1. CASE UNCHANGED boundedVars
  BY <1>1 DEF boundedVars, BoundedInv, Fine
<1>. QED BY <1>1, GetOrCreateKeeps, PutKeeps, LogKeeps, DeleteInstanceKeeps,
             ClearInstancesKeeps, DeleteStateKeeps, ClearStateKeeps, ClearLogKeeps DEF BoundedNext

\* Whatever the capacities: what is no longer held was removed on purpose, or as
\* many newer insertions as the container holds have come, and evictionCount is
\* the number of agents that were crowded out.
THEOREM CrowdedOutOnly == BoundedSpec => []KeptUntilCrowdedOut
<1>1. ASSUME BoundedInv PROVE KeptUntilCrowdedOut
  <2>1. \A c \in Containers : Lost(c) = Gone(In(c), c, made, dropped)
    BY DEF Lost, Held, Gone
  <2>2. \A c \in Containers : CrowdedOut(In(c), c, made, dropped, Capacity(c))
    BY <1>1 DEF BoundedInv, Fine, In, Capacity, Containers
  <2>3. ASSUME NEW c \in Containers, NEW i \in Lost(c)
        PROVE  /\ Capacity(c) > 0
               /\ Cardinality({j \in DOMAIN made : j > i /\ made[j] = c}) >= Capacity(c)
    BY <2>1, <2>2 DEF CrowdedOut, Later
  <2>4. evictions = Cardinality(Lost("agents"))
    BY <1>1, <2>1 DEF BoundedInv, In, Containers
  <2>. QED BY <2>3, <2>4 DEF KeptUntilCrowdedOut
<1>. QED BY <1>1, BoundedStart, BoundedStep, PTL DEF BoundedSpec

\* Whatever was set, deleted and evicted, the containers hold entries of their
\* kinds with stamps of insertions, and so does the set of what callers dropped.
THEOREM BoundedTypeCorrect == BoundedSpec => []BoundedTypeOK
<1>1. ASSUME BoundedInv PROVE BoundedTypeOK
  <2>1. made \in Seq(Containers) /\ Insertions \in Nat
    BY <1>1, Capacities DEF BoundedInv, Fine
  <2>2. Len(made) \in Nat /\ DOMAIN made = 1 .. Len(made)
    BY <2>1, LenProperties
  <2>3. dropped \subseteq Stamp
    BY <1>1, <2>1, <2>2 DEF BoundedInv, Stamp
  <2>. QED BY <1>1, <2>3 DEF BoundedInv, Fine, BoundedTypeOK,
                             InstanceRecords, StateRecords, LineRecords
<1>. QED BY <1>1, BoundedStart, BoundedStep, PTL DEF BoundedSpec

-----------------------------------------------------------------------------
(* MemoryEntries *)

PlacesUpto(P, i) == {j \in P : j <= i}
PlacesBelow(P, i) == {j \in P : j < i}
PlacesAbove(P, i) == {j \in P : j > i}

\* A finite set of places, and what is before and after one of them.
LEMMA Sides ==
  ASSUME NEW P, NEW i, P \subseteq Nat, IsFiniteSet(P), i \in P
  PROVE  /\ Cardinality(PlacesBelow(P, i)) \in Nat /\ Cardinality(PlacesAbove(P, i)) \in Nat
         /\ Cardinality(PlacesBelow(P, i)) + 1 + Cardinality(PlacesAbove(P, i)) = Cardinality(P)
<1> DEFINE B == PlacesBelow(P, i)
           A == PlacesAbove(P, i)
<1>1. IsFiniteSet(B) /\ IsFiniteSet(A)
  BY FS_Subset DEF PlacesBelow, PlacesAbove
<1>2. Cardinality(B) \in Nat /\ Cardinality(A) \in Nat
  BY <1>1, FS_CardinalityType
<1> DEFINE U == B \union A
           C == B \cap A
<1>3. C = {} /\ i \notin U /\ P = U \union {i}
  <2>1. \A j \in P : j \in Nat /\ i \in Nat /\ (j < i => ~(j > i)) /\ (j < i \/ j > i \/ j = i)
    OBVIOUS
  <2>2. ~(i < i) /\ ~(i > i)
    OBVIOUS
  <2>3. \A j : j \in B <=> j \in P /\ j < i
    BY DEF PlacesBelow
  <2>4. \A j : j \in A <=> j \in P /\ j > i
    BY DEF PlacesAbove
  <2> HIDE DEF A, B
  <2>. QED BY <2>1, <2>2, <2>3, <2>4
<1> HIDE DEF A, B
<1>4. IsFiniteSet(U) /\ Cardinality(U) = Cardinality(B) + Cardinality(A) - Cardinality(C)
  BY <1>1, FS_Union
<1>5. IsFiniteSet(U) => Cardinality(U \union {i}) = IF i \in U THEN Cardinality(U) ELSE Cardinality(U) + 1
  <2> HIDE DEF U
  <2>. QED BY FS_AddElement
<1> HIDE DEF U, C
<1>6. Cardinality(C) = 0
  BY <1>3, FS_EmptySet
<1>7. Cardinality(U) = Cardinality(B) + Cardinality(A)
  BY <1>2, <1>4, <1>6
<1>8. Cardinality(P) = Cardinality(U) + 1
  BY <1>3, <1>4, <1>5
<1>. QED BY <1>2, <1>7, <1>8 DEF A, B

\* Places are told apart by how many there are up to each.
LEMMA UptoGrows ==
  ASSUME NEW P, NEW i, NEW j, P \subseteq Nat, IsFiniteSet(P), i \in P, j \in P, i < j
  PROVE  Cardinality(PlacesUpto(P, i)) < Cardinality(PlacesUpto(P, j))
<1>1. PlacesUpto(P, i) \subseteq PlacesUpto(P, j) /\ j \in PlacesUpto(P, j) /\ j \notin PlacesUpto(P, i)
  <2>1. i \in Nat /\ j \in Nat /\ \A k \in P : k \in Nat
    OBVIOUS
  <2>2. (\A k \in P : k <= i => k <= j) /\ j <= j /\ ~(j <= i)
    BY <2>1
  <2>. QED BY <2>2 DEF PlacesUpto
<1>2. IsFiniteSet(PlacesUpto(P, j))
  BY FS_Subset DEF PlacesUpto
<1>3. /\ IsFiniteSet(PlacesUpto(P, i))
      /\ Cardinality(PlacesUpto(P, i)) <= Cardinality(PlacesUpto(P, j))
      /\ Cardinality(PlacesUpto(P, j)) = Cardinality(PlacesUpto(P, i)) => PlacesUpto(P, j) = PlacesUpto(P, i)
  BY <1>1, <1>2, FS_Subset
<1>4. Cardinality(PlacesUpto(P, i)) \in Nat /\ Cardinality(PlacesUpto(P, j)) \in Nat
  BY <1>2, <1>3, FS_CardinalityType
<1>. QED BY <1>1, <1>3, <1>4

LEMMA NthPlace ==
  ASSUME NEW P, NEW k, P \subseteq Nat, IsFiniteSet(P), k \in 1 .. Cardinality(P)
  PROVE  /\ Nth(P, k) \in P /\ Cardinality(PlacesUpto(P, Nth(P, k))) = k
         /\ \A i \in P : Cardinality(PlacesUpto(P, i)) = k => i = Nth(P, k)
<1> DEFINE n == Cardinality(P)
           f == [i \in P |-> Cardinality(PlacesUpto(P, i))]
<1>1. n \in Nat
  BY FS_CardinalityType
<1>2. \A i \in P : Cardinality(PlacesUpto(P, i)) \in 1 .. n
  <2> SUFFICES ASSUME NEW i \in P PROVE Cardinality(PlacesUpto(P, i)) \in 1 .. n
    OBVIOUS
  <2>1. PlacesUpto(P, i) \subseteq P /\ i \in PlacesUpto(P, i)
    BY DEF PlacesUpto
  <2>2. IsFiniteSet(PlacesUpto(P, i)) /\ Cardinality(PlacesUpto(P, i)) <= n
    BY <2>1, FS_Subset
  <2>3. Cardinality(PlacesUpto(P, i)) \in Nat /\ Cardinality(PlacesUpto(P, i)) # 0
    BY <2>1, <2>2, FS_CardinalityType, FS_EmptySet
  <2>. QED BY <1>1, <2>2, <2>3
<1>3. \A i, j \in P : Cardinality(PlacesUpto(P, i)) = Cardinality(PlacesUpto(P, j)) => i = j
  <2> SUFFICES ASSUME NEW i \in P, NEW j \in P, i # j
               PROVE  Cardinality(PlacesUpto(P, i)) # Cardinality(PlacesUpto(P, j))
    OBVIOUS
  <2>1. i < j \/ j < i
    OBVIOUS
  <2>2. Cardinality(PlacesUpto(P, i)) \in Nat /\ Cardinality(PlacesUpto(P, j)) \in Nat
    BY <1>2
  <2>3. i < j => Cardinality(PlacesUpto(P, i)) < Cardinality(PlacesUpto(P, j))
    BY UptoGrows
  <2>4. j < i => Cardinality(PlacesUpto(P, j)) < Cardinality(PlacesUpto(P, i))
    BY UptoGrows
  <2>. QED BY <2>1, <2>2, <2>3, <2>4
<1>4. f \in [P -> 1 .. n] /\ \A i, j \in P : f[i] = f[j] => i = j
  BY <1>2, <1>3
<1>5. IsFiniteSet(1 .. n) /\ Cardinality(1 .. n) = n
  BY <1>1, UpTo
<1> HIDE DEF f
<1>6. f \in Injection(P, 1 .. n)
  BY <1>4 DEF Injection, IsInjective
<1>7. f \in Surjection(P, 1 .. n)
  BY <1>5, <1>6, FS_Injection
<1>8. \E i \in P : f[i] = k
  BY <1>7 DEF Surjection
<1>9. \E i \in P : Cardinality(PlacesUpto(P, i)) = k
  BY <1>8 DEF f
<1>10. Nth(P, k) = CHOOSE i \in P : Cardinality(PlacesUpto(P, i)) = k
  BY DEF Nth, PlacesUpto
<1>11. Nth(P, k) \in P /\ Cardinality(PlacesUpto(P, Nth(P, k))) = k
  BY <1>9, <1>10
<1>. QED BY <1>3, <1>11

\* Dropping entries leaves a sequence of what is left.
Remaining(s, G) == DOMAIN s \ G

LEMMA WithoutType ==
  ASSUME NEW T, NEW s, NEW G, s \in Seq(T)
  PROVE  /\ Without(s, G) \in Seq(T) /\ IsFiniteSet(Remaining(s, G))
         /\ Len(Without(s, G)) = Cardinality(Remaining(s, G))
         /\ \A k \in 1 .. Cardinality(Remaining(s, G)) : Without(s, G)[k] = s[Nth(Remaining(s, G), k)]
<1> DEFINE K == DOMAIN s \ G
           n == Cardinality(K)
           w == [k \in 1 .. n |-> s[Nth(K, k)]]
<1>1. Len(s) \in Nat /\ DOMAIN s = 1 .. Len(s) /\ s \in [DOMAIN s -> T]
  BY LenProperties
<1>2. K \subseteq Nat /\ IsFiniteSet(K) /\ n \in Nat
  BY <1>1, UpTo, FS_Subset, FS_CardinalityType
<1>3. \A k \in 1 .. n : Nth(K, k) \in DOMAIN s
  <2> HIDE DEF K
  <2>1. \A k \in 1 .. n : Nth(K, k) \in K
    BY <1>2, NthPlace
  <2>. QED BY <2>1 DEF K
<1>4. Without(s, G) = w
  BY DEF Without
<1> HIDE DEF K, n, Remaining
<1>5. w \in [1 .. n -> T]
  BY <1>1, <1>3
<1>6. w \in Seq(T) /\ Len(w) = n
  BY <1>2, <1>5
<1>. QED BY <1>2, <1>4, <1>6 DEF K, n, Remaining

\* The k-th place, when k places are not beyond it.
LEMMA NthIs ==
  ASSUME NEW P, NEW k, NEW i,
         P \subseteq Nat, IsFiniteSet(P), k \in 1 .. Cardinality(P), i \in P,
         Cardinality(PlacesUpto(P, i)) = k
  PROVE  Nth(P, k) = i
  BY NthPlace

LEMMA WithoutNone ==
  ASSUME NEW T, NEW s, NEW G, s \in Seq(T), G = {}
  PROVE  Without(s, G) = s
<1> DEFINE n == Len(s)
           K == Remaining(s, G)
<1>1. n \in Nat /\ DOMAIN s = 1 .. n /\ K = 1 .. n
  BY LenProperties DEF Remaining
<1>2. IsFiniteSet(K) /\ Cardinality(K) = n /\ K \subseteq Nat
  BY <1>1, UpTo
<1>3. ASSUME NEW k \in 1 .. n PROVE Nth(K, k) = k
  <2> HIDE DEF K, n
  <2>1. PlacesUpto(K, k) = 1 .. k
    BY <1>1 DEF PlacesUpto
  <2>2. k \in Nat /\ Cardinality(1 .. k) = k
    BY <1>1, UpTo
  <2>. QED BY <1>1, <1>2, <2>1, <2>2, NthIs
<1>4. /\ Without(s, G) \in Seq(T) /\ Len(Without(s, G)) = Cardinality(K)
      /\ \A k \in 1 .. Cardinality(K) : Without(s, G)[k] = s[Nth(K, k)]
  BY WithoutType
<1> HIDE DEF K
<1>5. \A k \in 1 .. n : Without(s, G)[k] = s[k]
  BY <1>2, <1>3, <1>4
<1>. QED BY <1>1, <1>2, <1>4, <1>5, SeqEqual

LEMMA WithoutOne ==
  ASSUME NEW T, NEW s, NEW G, NEW p, s \in Seq(T), p \in DOMAIN s, G = {p}
  PROVE  Without(s, G) = RemoveAt(s, p)
<1> DEFINE n == Len(s)
           D == DOMAIN s
           K == Remaining(s, G)
           old(k) == IF k < p THEN k ELSE k + 1
<1>1. n \in Nat /\ D = 1 .. n /\ p \in 1 .. n /\ n - 1 \in Nat
  BY LenProperties
<1>2. K = D \ {p} /\ K \subseteq Nat /\ \A i : i \in K <=> i \in 1 .. n /\ i # p
  BY <1>1 DEF Remaining
<1>3. IsFiniteSet(K) /\ Cardinality(K) = n - 1
  <2>1. IsFiniteSet(D) /\ Cardinality(D) = n
    BY <1>1, UpTo
  <2>2. IsFiniteSet(D \ {p}) /\ Cardinality(D \ {p}) = IF p \in D THEN n - 1 ELSE n
    <3> HIDE DEF D, n
    <3>. QED BY <2>1, FS_RemoveElement
  <2> HIDE DEF K, D
  <2>. QED BY <1>1, <1>2, <2>2
<1> HIDE DEF K, D
<1>4. ASSUME NEW k \in 1 .. n - 1 PROVE Nth(K, k) = old(k)
  <2>1. k \in Nat /\ old(k) \in K
    BY <1>1, <1>2
  <2>2. CASE k < p
    <3>1. \A i : i \in K /\ i <= k <=> i \in 1 .. k
      BY <1>1, <1>2, <2>1, <2>2
    <3>2. PlacesUpto(K, k) = 1 .. k
      BY <3>1 DEF PlacesUpto
    <3>3. Cardinality(1 .. k) = k
      BY <2>1, UpTo
    <3>. QED BY <1>1, <1>2, <1>3, <2>1, <2>2, <3>2, <3>3, NthIs
  <2>3. CASE ~(k < p)
    <3> DEFINE E == 1 .. k + 1
               F == E \ {p}
    <3>1. \A i : i \in K /\ i <= k + 1 <=> i \in 1 .. k + 1 /\ i # p
      BY <1>1, <1>2, <2>1, <2>3
    <3>2. PlacesUpto(K, k + 1) = F
      BY <3>1 DEF PlacesUpto
    <3>3. IsFiniteSet(E) /\ Cardinality(E) = k + 1
      BY <2>1, UpTo
    <3>4. Cardinality(F) = IF p \in E THEN Cardinality(E) - 1 ELSE Cardinality(E)
      <4> HIDE DEF E
      <4>. QED BY <3>3, FS_RemoveElement
    <3>5. p \in E
      BY <1>1, <2>1, <2>3
    <3> HIDE DEF E, F
    <3>6. Cardinality(PlacesUpto(K, k + 1)) = k
      BY <2>1, <3>2, <3>3, <3>4, <3>5
    <3>. QED BY <1>1, <1>2, <1>3, <2>1, <2>3, <3>6, NthIs
  <2>. QED BY <2>2, <2>3
<1>5. /\ Without(s, G) \in Seq(T) /\ Len(Without(s, G)) = Cardinality(K)
      /\ \A k \in 1 .. Cardinality(K) : Without(s, G)[k] = s[Nth(K, k)]
  BY WithoutType DEF K
<1>6. /\ RemoveAt(s, p) \in Seq(T) /\ Len(RemoveAt(s, p)) = n - 1
      /\ \A k \in 1 .. n - 1 : RemoveAt(s, p)[k] = s[old(k)]
  BY RemoveOne
<1> HIDE DEF old, n
<1>7. \A k \in 1 .. n - 1 : Without(s, G)[k] = RemoveAt(s, p)[k]
  BY <1>3, <1>4, <1>5, <1>6
<1>8. Len(Without(s, G)) = n - 1
  BY <1>3, <1>5
<1>. QED BY <1>5, <1>6, <1>7, <1>8, SeqEqual

LEMMA FileLogEntries ==
  /\ \A S : FileLog!Cardinality(S) = Cardinality(S)
  /\ \A es, a : FileLog!PlacesOf(es, a) = PlacesOf(es, a)
  /\ \A es, G : FileLog!Without(es, G) = Without(es, G)
  /\ \A es : FileLog!IdsOf(es) = IdsOf(es)
  /\ FileLog!Entry = Entry
<1>1. \A S : FileLog!Cardinality(S) = Cardinality(S)
  BY DEF FileLog!Cardinality, Cardinality
<1>2. \A es, a : FileLog!PlacesOf(es, a) = PlacesOf(es, a)
  BY DEF FileLog!PlacesOf, PlacesOf
<1>3. \A P, k : FileLog!Nth(P, k) = Nth(P, k)
  BY <1>1 DEF FileLog!Nth, Nth
<1>4. \A es, G : FileLog!Without(es, G) = Without(es, G)
  BY <1>1, <1>3 DEF FileLog!Without, Without
<1>5. \A es : FileLog!IdsOf(es) = IdsOf(es)
  BY DEF FileLog!IdsOf, IdsOf, FileLog!ToSet, ToSet
<1>6. FileLog!Entry = Entry
  BY DEF FileLog!Entry, Entry
<1>. QED BY <1>1, <1>2, <1>4, <1>5, <1>6

\* To keep the agent's last perAgent - 1 entries is to drop the surplus of its
\* first ones.
LEMMA SameSurplus ==
  ASSUME NEW es, NEW a, NEW limit, es \in Seq(Entry), limit \in Nat \ {0}
  PROVE  /\ AgentSurplus(es, a, limit) = FileLog!Crowded(es, a, limit)
         /\ IsFiniteSet(PlacesOf(es, a)) /\ PlacesOf(es, a) \subseteq DOMAIN es
<1> DEFINE P == PlacesOf(es, a)
           n == Cardinality(P)
<1>1. P \subseteq DOMAIN es /\ DOMAIN es \subseteq Nat /\ IsFiniteSet(DOMAIN es)
  BY LenProperties, UpTo DEF PlacesOf
<1>2. IsFiniteSet(P) /\ P \subseteq Nat
  BY <1>1, FS_Subset
<1>3. n \in Nat
  BY <1>2, FS_CardinalityType
<1> HIDE DEF P
<1>4. ASSUME NEW i \in P
      PROVE  Cardinality(PlacesBelow(P, i)) < Surplus(n, limit) <=> Cardinality(PlacesAbove(P, i)) >= limit - 1
  <2>1. /\ Cardinality(PlacesBelow(P, i)) \in Nat /\ Cardinality(PlacesAbove(P, i)) \in Nat
        /\ Cardinality(PlacesBelow(P, i)) + 1 + Cardinality(PlacesAbove(P, i)) = n
    BY <1>2, Sides
  <2> HIDE DEF n
  <2>. QED BY <1>3, <2>1 DEF Surplus
<1>5. AgentSurplus(es, a, limit) = {i \in P : Cardinality(PlacesBelow(P, i)) < Surplus(n, limit)}
  BY DEF AgentSurplus, PlacesBelow, P
<1>6. FileLog!Crowded(es, a, limit) = {i \in P : Cardinality(PlacesAbove(P, i)) >= limit - 1}
  BY FileLogEntries DEF FileLog!Crowded, PlacesAbove, P
<1> HIDE DEF n
<1>7. AgentSurplus(es, a, limit) = FileLog!Crowded(es, a, limit)
  BY <1>4, <1>5, <1>6
<1>. QED BY <1>1, <1>2, <1>7 DEF P

\* An append to the file does what an append to the log does.
LEMMA FileAppends ==
  ASSUME NEW es, NEW e, NEW p, es \in Seq(Entry), e \in Entry, p \in Procs
  PROVE  /\ WithEntry(es, e, LimitsOf[p]) = FileLog!Appended(es, e, LimitsOf[p])
         /\ WithEntry(es, e, LimitsOf[p]) \in Seq(Entry)
         /\ Last(WithEntry(es, e, LimitsOf[p])) = e
<1> DEFINE total == LimitsOf[p].total
           perAgent == LimitsOf[p].perAgent
           left == FileLog!AgentTrimmed(es, e.agent, perAgent)
           n == Len(left)
<1>1. total \in Nat \ {0} /\ perAgent \in Nat
  BY FileValues
<1>2. (IF perAgent > 0 THEN Without(es, AgentSurplus(es, e.agent, perAgent)) ELSE es) = left
  <2>1. CASE perAgent = 0
    BY <2>1 DEF FileLog!AgentTrimmed
  <2>2. CASE perAgent # 0
    <3>1. perAgent \in Nat \ {0} /\ perAgent > 0
      BY <1>1, <2>2
    <3> HIDE DEF perAgent
    <3>2. AgentSurplus(es, e.agent, perAgent) = FileLog!Crowded(es, e.agent, perAgent)
      BY <3>1, SameSurplus
    <3>. QED BY <2>2, <3>1, <3>2, FileLogEntries DEF FileLog!AgentTrimmed
  <2>. QED BY <2>1, <2>2
<1>3. left \in Seq(Entry)
  <2>1. CASE perAgent = 0
    BY <2>1 DEF FileLog!AgentTrimmed
  <2>2. CASE perAgent # 0
    <3>1. left = Without(es, FileLog!Crowded(es, e.agent, perAgent))
      BY <2>2, FileLogEntries DEF FileLog!AgentTrimmed
    <3> HIDE DEF left
    <3>. QED BY <3>1, WithoutType
  <2>. QED BY <2>1, <2>2
<1> HIDE DEF left
<1>4. n \in Nat
  BY <1>3, LenProperties
<1> DEFINE rest == SubSeq(left, Surplus(n, total) + 1, n)
<1>5. WithEntry(es, e, LimitsOf[p]) = Append(rest, e)
  BY <1>2 DEF WithEntry
<1>6. FileLog!Appended(es, e, LimitsOf[p]) = Append(FileLog!LastOf(left, total - 1), e)
  BY DEF FileLog!Appended, left
<1>7. FileLog!LastOf(left, total - 1) = rest
  <2>1. Surplus(n, total) + 1 = IF n > total - 1 THEN n - (total - 1) + 1 ELSE 1
    <3> HIDE DEF n, total
    <3>. QED BY <1>1, <1>4 DEF Surplus
  <2>. QED BY <2>1 DEF FileLog!LastOf
<1>8. rest \in Seq(Entry)
  <2>1. Surplus(n, total) \in 0 .. n
    <3> HIDE DEF n, total
    <3>. QED BY <1>1, <1>4 DEF Surplus
  <2>. QED BY <1>3, <2>1, DropFirst
<1> HIDE DEF rest
<1>9. /\ Append(rest, e) \in Seq(Entry) /\ Len(Append(rest, e)) = Len(rest) + 1
      /\ Append(rest, e)[Len(rest) + 1] = e
  BY <1>8, AppendProperties
<1>10. Last(Append(rest, e)) = e
  BY <1>9 DEF Last
<1>. QED BY <1>5, <1>6, <1>7, <1>9, <1>10

-----------------------------------------------------------------------------
(* JsonFileMemoryStore *)

\* What operation o, being r, may rely on while the lock, the file and the
\* history of the log are l, f and h.
OperationOK(r, o, l, f, h) ==
  /\ r.pc # "idle" => r.proc \in Procs
  /\ r.kind = "append" => r.entry \in Entry
  /\ r.pc \in {"load", "flush", "unlock"} => l = o
  /\ r.ok => r.pc = "unlock"
  /\ r.pc = "load" => r.kind = "append"
  /\ r.pc = "flush" /\ r.kind = "append" => r.base = f
  /\ r.entry # None /\ ~r.ok => r.entry.id \notin IdsOf(h)
  /\ r.pc = "unlock" /\ r.kind = "append" /\ r.ok => r.entry \in ToSet(h) /\ Last(f) = r.entry

OwnEntries ==
  \A o, o2 \in Ops : o # o2 /\ op[o].entry # None /\ op[o2].entry # None
                       => op[o].entry.id # op[o2].entry.id

FileInv ==
  /\ file \in Seq(Entry) /\ history \in Seq(Entry) /\ op \in [Ops -> Operation]
  /\ \A o \in Ops : OperationOK(op[o], o, lock, file, history)
  /\ OwnEntries

LEMMA NoOpType == NoOp \in Operation /\ NoOp.pc = "idle" /\ NoOp.entry = None /\ NoOp.ok = FALSE
                  /\ NoOp.kind = "read" /\ NoOp.proc = None
<1>1. <<>> \in Seq(Entry)
  OBVIOUS
<1>. QED BY <1>1 DEF NoOp, Operation, Kinds

LEMMA NoOpOK == ASSUME NEW o, NEW l, NEW f, NEW h PROVE OperationOK(NoOp, o, l, f, h)
  BY NoOpType DEF OperationOK

LEMMA FileStart == FileInit => FileInv
<1> SUFFICES ASSUME FileInit PROVE FileInv
  OBVIOUS
<1>1. \A o \in Ops : op[o] = NoOp
  BY DEF FileInit
<1>2. \A o \in Ops : OperationOK(op[o], o, lock, file, history)
  BY <1>1, NoOpOK
<1>3. op \in [Ops -> Operation]
  BY NoOpType DEF FileInit
<1>4. OwnEntries
  BY <1>1, NoOpType DEF OwnEntries
<1>. QED BY <1>2, <1>3, <1>4 DEF FileInv, FileInit

\* A step of one operation that leaves the file alone: the others go on relying
\* on what they did, unless the lock was theirs.
LEMMA OneMoves ==
  ASSUME FileInv, NEW o \in Ops, NEW r \in Operation,
         op' = [op EXCEPT ![o] = r], file' = file, history' = history,
         lock' = lock \/ lock = None \/ lock = o,
         OperationOK(r, o, lock', file, history),
         \A o2 \in Ops : o2 # o /\ r.entry # None /\ op[o2].entry # None
                           => r.entry.id # op[o2].entry.id
  PROVE  FileInv'
<1>1. /\ op' \in [Ops -> Operation] /\ op'[o] = r
      /\ \A o2 \in Ops : o2 # o => op'[o2] = op[o2]
  BY DEF FileInv
<1>2. ASSUME NEW o2 \in Ops PROVE OperationOK(op'[o2], o2, lock', file, history)
  <2>1. CASE o2 = o
    BY <1>1, <2>1
  <2>2. CASE o2 # o
    <3>1. OperationOK(op[o2], o2, lock, file, history) /\ op'[o2] = op[o2]
      BY <1>1, <2>2 DEF FileInv
    <3>2. lock = o2 => lock' = lock
      BY <2>2, FileValues
    <3>. QED BY <3>1, <3>2 DEF OperationOK
  <2>. QED BY <2>1, <2>2
<1>3. OwnEntries'
  <2> SUFFICES ASSUME NEW o1 \in Ops, NEW o2 \in Ops, o1 # o2,
                      op'[o1].entry # None, op'[o2].entry # None
               PROVE  op'[o1].entry.id # op'[o2].entry.id
    BY DEF OwnEntries
  <2>. QED BY <1>1 DEF FileInv, OwnEntries
<1>. QED BY <1>1, <1>2, <1>3 DEF FileInv

LEMMA Settles ==
  ASSUME FileInv, NEW o \in Ops, Settle(o), file' = file, history' = history,
         lock' = lock \/ lock = None \/ lock = o
  PROVE  FileInv'
  BY OneMoves, NoOpType, NoOpOK DEF Settle

\* A step of one operation after which it differs in its place only.
LEMMA FieldsOf ==
  ASSUME FileInv, NEW o \in Ops
  PROVE  /\ op[o] \in Operation /\ op[o].entry \in Entry \union {None} /\ op[o].proc \in Procs \union {None}
         /\ op[o].kind \in Kinds /\ op[o].ok \in BOOLEAN /\ op[o].base \in Seq(Entry)
         /\ OperationOK(op[o], o, lock, file, history)
         /\ \A o2 \in Ops : o2 # o /\ op[o].entry # None /\ op[o2].entry # None
                              => op[o].entry.id # op[o2].entry.id
<1>1. op[o] \in Operation
  BY DEF FileInv
<1>2. /\ op[o].entry \in Entry \union {None} /\ op[o].proc \in Procs \union {None}
      /\ op[o].kind \in Kinds /\ op[o].ok \in BOOLEAN /\ op[o].base \in Seq(Entry)
  BY <1>1 DEF Operation
<1>. QED BY <1>1, <1>2 DEF FileInv, OwnEntries

LEMMA SubmitKeeps ==
  ASSUME FileInv, NEW o \in Ops, NEW p \in Procs, NEW k \in Kinds, NEW e \in Entry \union {None},
         Submit(o, p, k, e)
  PROVE  FileInv'
<1> DEFINE r == [NoOp EXCEPT !.pc = "queued", !.kind = k, !.proc = p, !.entry = e]
<1>1. /\ op' = [op EXCEPT ![o] = r] /\ file' = file /\ history' = history /\ lock' = lock
      /\ IF k = "append" THEN e \in Entry /\ e.id \notin IdsInUse ELSE e = None
  BY DEF Submit
<1>2. /\ r \in Operation /\ r.pc = "queued" /\ r.kind = k /\ r.proc = p /\ r.entry = e
      /\ r.ok = FALSE
  <2>1. <<>> \in Seq(Entry)
    OBVIOUS
  <2>. QED BY <2>1 DEF NoOp, Operation, Kinds
<1> HIDE DEF r
<1>3. e # None => e.id \notin IdsOf(history)
  BY <1>1 DEF IdsInUse
<1>4. \A o2 \in Ops : e # None /\ op[o2].entry # None => e.id # op[o2].entry.id
  BY <1>1 DEF IdsInUse
<1>5. OperationOK(r, o, lock', file, history)
  BY <1>1, <1>2, <1>3 DEF OperationOK
<1>. QED BY <1>1, <1>2, <1>4, <1>5, OneMoves

LEMMA AcquireLockKeeps == ASSUME FileInv, NEW o \in Ops, AcquireLock(o) PROVE FileInv'
<1> DEFINE q == IF op[o].kind = "append" THEN "load" ELSE "flush"
           r == [op[o] EXCEPT !.pc = q]
<1>1. /\ op' = [op EXCEPT ![o] = r] /\ file' = file /\ history' = history
      /\ lock = None /\ lock' = o /\ op[o].pc = "queued"
  BY DEF AcquireLock, First
<1>2. /\ r \in Operation /\ r.pc = q /\ r.kind = op[o].kind /\ r.proc = op[o].proc
      /\ r.entry = op[o].entry /\ r.ok = op[o].ok
  BY FieldsOf DEF Operation
<1> HIDE DEF r
<1>3. OperationOK(r, o, lock', file, history)
  BY <1>1, <1>2, FieldsOf DEF OperationOK
<1>4. \A o2 \in Ops : o2 # o /\ r.entry # None /\ op[o2].entry # None
                        => r.entry.id # op[o2].entry.id
  BY <1>2, FieldsOf
<1>. QED BY <1>1, <1>2, <1>3, <1>4, OneMoves

LEMMA LoadKeeps == ASSUME FileInv, NEW o \in Ops, Load(o) PROVE FileInv'
<1> DEFINE r == [op[o] EXCEPT !.pc = "flush", !.base = file]
<1>1. /\ op' = [op EXCEPT ![o] = r] /\ file' = file /\ history' = history
      /\ lock' = lock /\ op[o].pc = "load"
  BY FieldsOf DEF Load, Operation
<1>2. /\ r \in Operation /\ r.pc = "flush" /\ r.kind = op[o].kind /\ r.proc = op[o].proc
      /\ r.entry = op[o].entry /\ r.ok = op[o].ok /\ r.base = file
  BY FieldsOf DEF Operation, FileInv
<1> HIDE DEF r
<1>3. OperationOK(r, o, lock', file, history)
  BY <1>1, <1>2, FieldsOf DEF OperationOK
<1>4. \A o2 \in Ops : o2 # o /\ r.entry # None /\ op[o2].entry # None
                        => r.entry.id # op[o2].entry.id
  BY <1>2, FieldsOf
<1>. QED BY <1>1, <1>2, <1>3, <1>4, OneMoves

LEMMA FailKeeps == ASSUME FileInv, NEW o \in Ops, Fail(o) PROVE FileInv'
<1> DEFINE r == [op[o] EXCEPT !.pc = "unlock", !.base = <<>>]
<1>1. /\ op' = [op EXCEPT ![o] = r] /\ file' = file /\ history' = history
      /\ lock' = lock /\ op[o].pc \in {"load", "flush"}
  BY FieldsOf DEF Fail, Operation
<1>2. /\ r \in Operation /\ r.pc = "unlock" /\ r.kind = op[o].kind /\ r.proc = op[o].proc
      /\ r.entry = op[o].entry /\ r.ok = op[o].ok
  <2>1. <<>> \in Seq(Entry)
    OBVIOUS
  <2>. QED BY <2>1, FieldsOf DEF Operation
<1> HIDE DEF r
<1>3. OperationOK(r, o, lock', file, history)
  BY <1>1, <1>2, FieldsOf DEF OperationOK
<1>4. \A o2 \in Ops : o2 # o /\ r.entry # None /\ op[o2].entry # None
                        => r.entry.id # op[o2].entry.id
  BY <1>2, FieldsOf
<1>. QED BY <1>1, <1>2, <1>3, <1>4, OneMoves

LEMMA UnlockKeeps == ASSUME FileInv, NEW o \in Ops, Unlock(o) PROVE FileInv'
<1>1. lock = o
  BY FieldsOf DEF Unlock, OperationOK
<1>. QED BY <1>1, Settles DEF Unlock

LEMMA CrashKeeps == ASSUME FileInv, NEW p \in Procs, Crash(p) PROVE FileInv'
<1>1. /\ file' = file /\ history' = history
      /\ \A o \in Ops : op'[o] = IF op[o].proc = p THEN NoOp ELSE op[o]
      /\ \A o \in Ops : lock = o /\ op[o].proc # p => lock' = o
  BY DEF Crash
<1>2. op' \in [Ops -> Operation]
  BY FieldsOf, NoOpType DEF Crash
<1>3. ASSUME NEW o \in Ops PROVE OperationOK(op'[o], o, lock', file, history)
  <2>1. CASE op[o].proc = p
    BY <1>1, <2>1, NoOpOK
  <2>2. CASE op[o].proc # p
    <3>1. op'[o] = op[o] /\ (lock = o => lock' = o)
      BY <1>1, <2>2
    <3>. QED BY <3>1, FieldsOf DEF OperationOK
  <2>. QED BY <2>1, <2>2
<1>4. OwnEntries'
  <2> SUFFICES ASSUME NEW o1 \in Ops, NEW o2 \in Ops, o1 # o2,
                      op'[o1].entry # None, op'[o2].entry # None
               PROVE  op'[o1].entry.id # op'[o2].entry.id
    BY DEF OwnEntries
  <2>1. op'[o1] = op[o1] /\ op'[o2] = op[o2]
    BY <1>1, NoOpType
  <2>. QED BY <2>1 DEF FileInv, OwnEntries
<1>. QED BY <1>1, <1>2, <1>3, <1>4 DEF FileInv

LEMMA OperatorClearsLockKeeps == ASSUME FileInv, OperatorClearsLock PROVE FileInv'
<1>1. /\ \A o \in Ops : op[o] = NoOp
      /\ op' = op /\ file' = file /\ history' = history
  BY DEF OperatorClearsLock
<1>2. ASSUME NEW o \in Ops PROVE OperationOK(op'[o], o, lock', file, history)
  BY <1>1, NoOpOK
<1>. QED BY <1>1, <1>2 DEF FileInv, OwnEntries

LEMMA IdsGrow ==
  ASSUME NEW h, NEW e, h \in Seq(Entry), e \in Entry
  PROVE  /\ Append(h, e) \in Seq(Entry) /\ e \in ToSet(Append(h, e))
         /\ \A i : i \in IdsOf(Append(h, e)) => i \in IdsOf(h) \/ i = e.id
<1>1. Len(h) \in Nat /\ DOMAIN h = 1 .. Len(h)
  BY LenProperties
<1>2. /\ Append(h, e) \in Seq(Entry) /\ Len(Append(h, e)) = Len(h) + 1
      /\ Append(h, e)[Len(h) + 1] = e
      /\ \A i \in 1 .. Len(h) : Append(h, e)[i] = h[i]
  BY AppendProperties
<1>3. DOMAIN Append(h, e) = 1 .. Len(h) + 1 /\ Len(h) + 1 \in DOMAIN Append(h, e)
  BY <1>1, <1>2, LenProperties
<1>4. ToSet(Append(h, e)) = ToSet(h) \union {e}
  <2>1. \A i \in 1 .. Len(h) + 1 : i \in 1 .. Len(h) \/ i = Len(h) + 1
    BY <1>1
  <2>2. \A i \in 1 .. Len(h) : i \in 1 .. Len(h) + 1
    BY <1>1
  <2> HIDE <1>1
  <2>. QED BY <1>1, <1>2, <1>3, <2>1, <2>2 DEF ToSet
<1>. QED BY <1>2, <1>4 DEF IdsOf

LEMMA FlushKeeps == ASSUME FileInv, NEW o \in Ops, Flush(o) PROVE FileInv'
<1> DEFINE r == [op[o] EXCEPT !.pc = "unlock", !.base = <<>>, !.ok = TRUE]
           e == op[o].entry
<1>1. /\ op' = [op EXCEPT ![o] = r] /\ lock' = lock /\ op[o].pc = "flush"
      /\ IF op[o].kind = "append"
         THEN /\ file' = WithEntry(op[o].base, op[o].entry, LimitsOf[op[o].proc])
              /\ history' = Append(history, op[o].entry)
         ELSE file' = <<>> /\ history' = <<>>
  BY FieldsOf DEF Flush, Operation
<1>2. /\ r \in Operation /\ r.pc = "unlock" /\ r.kind = op[o].kind /\ r.proc = op[o].proc
      /\ r.entry = op[o].entry /\ r.ok = TRUE
  <2>1. <<>> \in Seq(Entry)
    OBVIOUS
  <2>. QED BY <2>1, FieldsOf DEF Operation
<1> HIDE DEF r
<1>3. /\ op' \in [Ops -> Operation] /\ op'[o] = r
      /\ \A o2 \in Ops : o2 # o => op'[o2] = op[o2]
  BY <1>1, <1>2 DEF FileInv
<1>4. lock = o /\ op[o].proc \in Procs /\ op[o].ok = FALSE
      /\ (op[o].kind = "append" => e \in Entry /\ op[o].base = file)
  BY <1>1, FieldsOf DEF OperationOK
<1>5. /\ file' \in Seq(Entry) /\ history' \in Seq(Entry)
      /\ op[o].kind = "append" => e \in ToSet(history') /\ Last(file') = e
      /\ \A i : i \in IdsOf(history') => i \in IdsOf(history) \/ (op[o].kind = "append" /\ i = e.id)
  <2>1. CASE op[o].kind = "append"
    <3> DEFINE q == op[o].proc
    <3>1. /\ file' = WithEntry(file, e, LimitsOf[q]) /\ q \in Procs
          /\ file \in Seq(Entry) /\ e \in Entry
      BY <1>1, <1>4, <2>1 DEF FileInv
    <3> HIDE DEF e, q
    <3>2. /\ file' \in Seq(Entry) /\ Last(file') = e
      BY <3>1, FileAppends
    <3>3. history \in Seq(Entry) /\ e \in Entry /\ history' = Append(history, e)
      BY <1>1, <1>4, <2>1 DEF FileInv, e
    <3>4. /\ Append(history, e) \in Seq(Entry) /\ e \in ToSet(Append(history, e))
          /\ \A i : i \in IdsOf(Append(history, e)) => i \in IdsOf(history) \/ i = e.id
      BY <3>3, IdsGrow
    <3>. QED BY <2>1, <3>2, <3>3, <3>4 DEF e
  <2>2. CASE op[o].kind # "append"
    <3>1. ToSet(<<>>) = {}
      BY DEF ToSet
    <3>. QED BY <1>1, <2>2, <3>1 DEF IdsOf
  <2>. QED BY <2>1, <2>2
<1>6. ASSUME NEW o2 \in Ops PROVE OperationOK(op'[o2], o2, lock', file', history')
  <2>1. CASE o2 = o
    BY <1>1, <1>2, <1>3, <1>4, <1>5, <2>1, FieldsOf DEF OperationOK
  <2>2. CASE o2 # o
    <3>1. OperationOK(op[o2], o2, lock, file, history) /\ op'[o2] = op[o2]
      BY <1>3, <2>2 DEF FileInv
    <3>2. op[o2].pc \notin {"load", "flush", "unlock"}
      BY <1>4, <2>2, <3>1 DEF OperationOK
    <3>3. op[o2].entry # None /\ op[o].kind = "append" => op[o2].entry.id # e.id
      BY <1>4, <2>2, FieldsOf, FileValues
    <3>4. op[o2].entry # None /\ ~op[o2].ok => op[o2].entry.id \notin IdsOf(history')
      BY <1>5, <3>1, <3>3 DEF OperationOK
    <3>. QED BY <1>1, <3>1, <3>2, <3>4 DEF OperationOK
  <2>. QED BY <2>1, <2>2
<1>7. OwnEntries'
  <2> SUFFICES ASSUME NEW o1 \in Ops, NEW o2 \in Ops, o1 # o2,
                      op'[o1].entry # None, op'[o2].entry # None
               PROVE  op'[o1].entry.id # op'[o2].entry.id
    BY DEF OwnEntries
  <2>1. op'[o1].entry = op[o1].entry /\ op'[o2].entry = op[o2].entry
    BY <1>2, <1>3
  <2>. QED BY <2>1 DEF FileInv, OwnEntries
<1>. QED BY <1>3, <1>5, <1>6, <1>7 DEF FileInv

LEMMA FileStep == FileInv /\ [FileNext]_fileVars => FileInv'
<1> SUFFICES ASSUME FileInv, [FileNext]_fileVars PROVE FileInv'
  OBVIOUS
<1>1. CASE \E o \in Ops, p \in Procs, k \in Kinds, e \in Entry \union {None} : Submit(o, p, k, e)
  BY <1>1, SubmitKeeps
<1>2. CASE \E o \in Ops : Read(o) \/ GiveUp(o)
  BY <1>2, Settles DEF Read, GiveUp
<1>3. CASE \E o \in Ops : AcquireLock(o) \/ Load(o) \/ Flush(o) \/ Fail(o) \/ Unlock(o)
  BY <1>3, AcquireLockKeeps, LoadKeeps, FlushKeeps, FailKeeps, UnlockKeeps
<1>4. CASE \E p \in Procs : Crash(p)
  BY <1>4, CrashKeeps
<1>5. CASE OperatorClearsLock
  BY <1>5, OperatorClearsLockKeeps
<1>6. CASE UNCHANGED fileVars
  BY <1>6 DEF fileVars, FileInv, OwnEntries
<1>. QED BY <1>1, <1>2, <1>3, <1>4, <1>5, <1>6 DEF FileNext

LEMMA FileAlways == FileSpec => []FileInv
  BY FileStart, FileStep, PTL DEF FileSpec

\* When append() of the file store is about to answer, its entry is the last of
\* the file if it resolves, and nowhere in the file if it rejects, whatever
\* other operations, processes and crashes did meanwhile: what TaskRunner's
\* answer on an unknown outcome rests on.
THEOREM AnswersAreTrue == FileSpec => []AppendsAnswerTruly
<1>1. FileInv => AppendsAnswerTruly
  <2> SUFFICES ASSUME FileInv, NEW o \in Ops, op[o].pc = "unlock", op[o].kind = "append"
               PROVE  op[o].ok <=> op[o].entry \in ToSet(history) /\ Last(file) = op[o].entry
    BY DEF AppendsAnswerTruly
  <2>1. /\ op[o].entry \in Entry /\ op[o].entry # None
        /\ ~op[o].ok => op[o].entry.id \notin IdsOf(history)
        /\ op[o].ok => op[o].entry \in ToSet(history) /\ Last(file) = op[o].entry
    BY FieldsOf, FileValues DEF OperationOK
  <2>. QED BY <2>1 DEF IdsOf
<1>. QED BY <1>1, FileAlways, PTL

\* A flush is the append or the clear of the log, everything else leaves it alone.
LEMMA FileStepsAreLogSteps ==
  FileInv /\ [FileNext]_fileVars => [FileLog!LogNext]_(FileLog!logVars)
<1> SUFFICES ASSUME FileInv, [FileNext]_fileVars PROVE [FileLog!LogNext]_(FileLog!logVars)
  OBVIOUS
<1>1. CASE \E o \in Ops : Flush(o)
  <2>1. PICK o \in Ops : Flush(o)
    BY <1>1
  <2>2. /\ op[o].pc = "flush" /\ op[o].ok = FALSE /\ op[o].proc \in Procs
        /\ op[o].kind = "append" => op[o].entry \in Entry /\ op[o].base = file
    BY <2>1, FieldsOf DEF Flush, OperationOK
  <2>3. CASE op[o].kind = "append"
    <3> DEFINE e == op[o].entry
               limits == LimitsOf[op[o].proc]
    <3>1. e \in Entry /\ e # None /\ e.id \notin IdsOf(history)
      BY <2>2, <2>3, FieldsOf, FileValues DEF OperationOK
    <3>2. file' = FileLog!Appended(file, e, limits) /\ history' = Append(history, e)
      <4> DEFINE p == op[o].proc
      <4>1. /\ file' = WithEntry(file, e, LimitsOf[p]) /\ history' = Append(history, e)
            /\ file \in Seq(Entry) /\ p \in Procs
        BY <2>1, <2>2, <2>3 DEF Flush, FileInv
      <4> HIDE DEF e, p
      <4>2. WithEntry(file, e, LimitsOf[p]) = FileLog!Appended(file, e, LimitsOf[p])
        BY <3>1, <4>1, FileAppends
      <4>. QED BY <4>1, <4>2 DEF p
    <3>3. FileLog!LogAppend(e, limits)
      BY <3>1, <3>2, FileLogEntries DEF FileLog!LogAppend
    <3>4. limits \in {LimitsOf[p] : p \in Procs} /\ e \in FileLog!Entry
      BY <2>2, <3>1, FileLogEntries
    <3> HIDE DEF e, limits
    <3>. QED BY <3>3, <3>4 DEF FileLog!LogNext
  <2>4. CASE op[o].kind # "append"
    BY <2>1, <2>4 DEF Flush, FileLog!LogNext, FileLog!LogClear
  <2>. QED BY <2>3, <2>4
<1>2. CASE ~ \E o \in Ops : Flush(o)
  <2>1. file' = file /\ history' = history
    BY <1>2 DEF FileNext, fileVars, Submit, Read, AcquireLock, GiveUp, Load, Fail, Unlock, Crash,
                OperatorClearsLock
  <2>. QED BY <2>1 DEF FileLog!logVars
<1>. QED BY <1>1, <1>2

LEMMA FileImplements == FileSpec => FileLog!LogSpec
<1>1. FileInit => FileLog!LogInit
  BY DEF FileInit, FileLog!LogInit
<1>. QED BY <1>1, FileAlways, FileStepsAreLogSteps, PTL DEF FileSpec, FileLog!LogSpec

-----------------------------------------------------------------------------
(* InMemoryMemoryStore *)

LEMMA InMemoryLogEntries ==
  /\ \A S : InMemoryLog!Cardinality(S) = Cardinality(S)
  /\ \A es, a : InMemoryLog!PlacesOf(es, a) = PlacesOf(es, a)
  /\ \A es, G : InMemoryLog!Without(es, G) = Without(es, G)
  /\ \A es : InMemoryLog!IdsOf(es) = IdsOf(es)
  /\ InMemoryLog!Entry = Entry
<1>1. \A S : InMemoryLog!Cardinality(S) = Cardinality(S)
  BY DEF InMemoryLog!Cardinality, Cardinality
<1>2. \A es, a : InMemoryLog!PlacesOf(es, a) = PlacesOf(es, a)
  BY DEF InMemoryLog!PlacesOf, PlacesOf
<1>3. \A P, k : InMemoryLog!Nth(P, k) = Nth(P, k)
  BY <1>1 DEF InMemoryLog!Nth, Nth
<1>4. \A es, G : InMemoryLog!Without(es, G) = Without(es, G)
  BY <1>1, <1>3 DEF InMemoryLog!Without, Without
<1>5. \A es : InMemoryLog!IdsOf(es) = IdsOf(es)
  BY DEF InMemoryLog!IdsOf, IdsOf, InMemoryLog!ToSet, ToSet
<1>6. InMemoryLog!Entry = Entry
  BY DEF InMemoryLog!Entry, Entry
<1>. QED BY <1>1, <1>2, <1>4, <1>5, <1>6

\* How many entries each agent has.
CountOf(s, b) == Cardinality(PlacesOf(s, b))

LEMMA CountType ==
  ASSUME NEW s, NEW b, s \in Seq(Entry)
  PROVE  /\ CountOf(s, b) \in Nat /\ IsFiniteSet(PlacesOf(s, b))
         /\ PlacesOf(s, b) \subseteq DOMAIN s /\ DOMAIN s \subseteq Nat
         /\ CountOf(s, b) = 0 <=> PlacesOf(s, b) = {}
<1>1. PlacesOf(s, b) \subseteq DOMAIN s /\ DOMAIN s \subseteq Nat /\ IsFiniteSet(DOMAIN s)
  BY LenProperties, UpTo DEF PlacesOf
<1>2. IsFiniteSet(PlacesOf(s, b))
  BY <1>1, FS_Subset
<1>. QED BY <1>1, <1>2, FS_CardinalityType, FS_EmptySet DEF CountOf

LEMMA CountAppended ==
  ASSUME NEW s, NEW e, NEW b, s \in Seq(Entry), e \in Entry
  PROVE  CountOf(Append(s, e), b) = CountOf(s, b) + (IF e.agent = b THEN 1 ELSE 0)
<1> DEFINE n == Len(s)
           r == Append(s, e)
           P == PlacesOf(s, b)
           Q == PlacesOf(r, b)
<1>1. n \in Nat /\ DOMAIN s = 1 .. n
  BY LenProperties
<1>2. r \in Seq(Entry) /\ Len(r) = n + 1 /\ r[n + 1] = e /\ \A i \in 1 .. n : r[i] = s[i]
  BY AppendProperties
<1>3. DOMAIN r = 1 .. n + 1
  BY <1>2, LenProperties
<1>4. IsFiniteSet(P) /\ Cardinality(P) \in Nat
  BY CountType DEF CountOf
<1> HIDE DEF n, r
<1>5. \A i \in 1 .. n : i \in P <=> i \in Q
  BY <1>1, <1>2, <1>3 DEF PlacesOf
<1>6. n + 1 \notin P /\ (n + 1 \in Q <=> e.agent = b)
  BY <1>1, <1>2, <1>3 DEF PlacesOf
<1>7. P \subseteq 1 .. n /\ Q \subseteq 1 .. n + 1
  BY <1>1, <1>3 DEF PlacesOf
<1>8. \A i \in 1 .. n + 1 : i \in 1 .. n \/ i = n + 1
  BY <1>1
<1> HIDE DEF P, Q
<1>9. CASE e.agent = b
  <2>1. Q = P \union {n + 1}
    BY <1>1, <1>5, <1>6, <1>7, <1>8, <1>9
  <2>2. Cardinality(P \union {n + 1}) = IF n + 1 \in P THEN Cardinality(P) ELSE Cardinality(P) + 1
    BY <1>4, FS_AddElement
  <2>3. Cardinality(Q) = Cardinality(P) + 1
    BY <1>6, <2>1, <2>2
  <2>. QED BY <1>9, <2>3 DEF CountOf, P, Q, r
<1>10. CASE e.agent # b
  <2>1. Q = P
    BY <1>5, <1>6, <1>7, <1>8, <1>10
  <2>. QED BY <1>4, <1>10, <2>1 DEF CountOf, P, Q, r
<1>. QED BY <1>9, <1>10

LEMMA CountRemoved ==
  ASSUME NEW s, NEW p, NEW b, s \in Seq(Entry), p \in DOMAIN s
  PROVE  CountOf(RemoveAt(s, p), b) = CountOf(s, b) - (IF s[p].agent = b THEN 1 ELSE 0)
<1> DEFINE n == Len(s)
           r == RemoveAt(s, p)
           P == PlacesOf(s, b)
           Q == PlacesOf(r, b)
           R == P \ {p}
           old(i) == IF i < p THEN i ELSE i + 1
           f == [i \in Q |-> old(i)]
<1>1. n \in Nat /\ DOMAIN s = 1 .. n /\ p \in 1 .. n
  BY LenProperties
<1>2. r \in Seq(Entry) /\ Len(r) = n - 1 /\ \A i \in 1 .. n - 1 : r[i] = s[old(i)]
  BY RemoveOne
<1>3. DOMAIN r = 1 .. n - 1
  BY <1>2, LenProperties
<1>4. IsFiniteSet(P) /\ Cardinality(P) \in Nat
  BY CountType DEF CountOf
<1>5. IsFiniteSet(Q)
  BY <1>2, CountType
<1>6. \A i : i \in P <=> i \in 1 .. n /\ s[i].agent = b
  BY <1>1 DEF PlacesOf
<1>7. \A i : i \in Q <=> i \in 1 .. n - 1 /\ s[old(i)].agent = b
  <2> HIDE DEF old, r
  <2>. QED BY <1>2, <1>3 DEF PlacesOf
<1> HIDE DEF P, Q, r, n
<1>8. /\ \A i \in 1 .. n - 1 : old(i) \in 1 .. n /\ old(i) # p
      /\ \A i, j \in 1 .. n - 1 : old(i) = old(j) => i = j
  BY <1>1
<1>9. ASSUME NEW j \in 1 .. n, j # p PROVE \E i \in 1 .. n - 1 : old(i) = j
  <2>1. CASE j < p
    BY <1>1, <2>1
  <2>2. CASE ~(j < p)
    <3>1. j - 1 \in 1 .. n - 1 /\ old(j - 1) = j
      BY <1>1, <1>9, <2>2
    <3>. QED BY <3>1
  <2>. QED BY <2>1, <2>2
<1> HIDE DEF old
<1>10. /\ f \in [Q -> R] /\ \A i, j \in Q : f[i] = f[j] => i = j
       /\ \A j \in R : \E i \in Q : f[i] = j
  <2>1. \A i \in Q : old(i) \in R
    BY <1>6, <1>7, <1>8
  <2>2. \A i, j \in Q : old(i) = old(j) => i = j
    BY <1>7, <1>8
  <2>3. \A j \in R : \E i \in Q : old(i) = j
    BY <1>6, <1>7, <1>9
  <2>. QED BY <2>1, <2>2, <2>3
<1> HIDE DEF f, R
<1>11. f \in Injection(Q, R) /\ f \in Surjection(Q, R)
  BY <1>10 DEF Injection, IsInjective, Surjection
<1>12. Cardinality(R) = Cardinality(Q)
  BY <1>5, <1>11, FS_Surjection
<1>13. Cardinality(P \ {p}) = IF p \in P THEN Cardinality(P) - 1 ELSE Cardinality(P)
  BY <1>4, FS_RemoveElement
<1>14. Cardinality(Q) = IF p \in P THEN Cardinality(P) - 1 ELSE Cardinality(P)
  BY <1>12, <1>13 DEF R
<1>. QED BY <1>1, <1>4, <1>6, <1>14 DEF CountOf, P, Q, r

LEMMA TailRemoves ==
  ASSUME NEW T, NEW s, s \in Seq(T), Len(s) > 0
  PROVE  1 \in DOMAIN s /\ Tail(s) = RemoveAt(s, 1)
<1>1. Len(s) \in Nat /\ DOMAIN s = 1 .. Len(s) /\ 1 \in DOMAIN s /\ s # <<>>
  BY LenProperties
<1>2. /\ Tail(s) \in Seq(T) /\ Len(Tail(s)) = Len(s) - 1
      /\ \A i \in 1 .. Len(Tail(s)) : Tail(s)[i] = s[i + 1]
  BY <1>1, HeadTailProperties
<1>3. /\ RemoveAt(s, 1) \in Seq(T) /\ Len(RemoveAt(s, 1)) = Len(s) - 1
      /\ \A i \in 1 .. Len(s) - 1 : RemoveAt(s, 1)[i] = s[IF i < 1 THEN i ELSE i + 1]
  BY <1>1, RemoveOne
<1>4. \A i \in 1 .. Len(s) - 1 : RemoveAt(s, 1)[i] = s[i + 1]
  BY <1>1, <1>3
<1>. QED BY <1>1, <1>2, <1>3, <1>4, SeqEqual

\* The counts say how many entries each agent has, and nobody has too many.
CountsTell ==
  /\ entries \in Seq(Entry) /\ appended \in Seq(Entry) /\ agentCounts \in [Agents -> Nat]
  /\ \A b \in Agents : agentCounts[b] = CountOf(entries, b)
  /\ MaxEntriesPerAgent > 0 => \A b \in Agents : agentCounts[b] <= MaxEntriesPerAgent
  /\ Len(entries) <= MaxEntries

\* The oldest of the agent's places is the only one with none before it.
LEMMA OldestPlace ==
  ASSUME NEW P, P \subseteq Nat, IsFiniteSet(P), P # {}
  PROVE  Min(P) \in P /\ \A i \in P : Cardinality(PlacesBelow(P, i)) = 0 <=> i = Min(P)
<1>1. \E i \in P : \A j \in P : i <= j
  <2>1. Cardinality(P) \in Nat /\ Cardinality(P) # 0
    BY FS_CardinalityType, FS_EmptySet
  <2> DEFINE m == Nth(P, 1)
  <2>2. m \in P /\ Cardinality(PlacesUpto(P, m)) = 1
    <3>1. 1 \in 1 .. Cardinality(P)
      BY <2>1
    <3>. QED BY <3>1, NthPlace
  <2> HIDE DEF m
  <2>3. ASSUME NEW j \in P, ~(m <= j) PROVE FALSE
    <3>1. j < m
      BY <2>2, <2>3
    <3>2. Cardinality(PlacesUpto(P, j)) < 1
      BY <2>2, <3>1, UptoGrows
    <3>3. IsFiniteSet(PlacesUpto(P, j)) /\ j \in PlacesUpto(P, j)
      BY FS_Subset DEF PlacesUpto
    <3>4. Cardinality(PlacesUpto(P, j)) \in Nat /\ Cardinality(PlacesUpto(P, j)) # 0
      BY <3>3, FS_CardinalityType, FS_EmptySet
    <3>. QED BY <3>2, <3>4
  <2>. QED BY <2>2, <2>3
<1>2. Min(P) \in P /\ \A j \in P : Min(P) <= j
  BY <1>1 DEF Min
<1> DEFINE m == Min(P)
<1> HIDE DEF m
<1>3. m \in P /\ \A j \in P : m <= j
  BY <1>2 DEF m
<1>4. ASSUME NEW i \in P PROVE Cardinality(PlacesBelow(P, i)) = 0 <=> i = m
  <2>1. IsFiniteSet(PlacesBelow(P, i))
    BY FS_Subset DEF PlacesBelow
  <2>2. Cardinality(PlacesBelow(P, i)) = 0 <=> PlacesBelow(P, i) = {}
    BY <2>1, FS_EmptySet
  <2>3. PlacesBelow(P, i) = {} <=> \A j \in P : ~(j < i)
    BY DEF PlacesBelow
  <2>4. (\A j \in P : ~(j < i)) <=> i = m
    BY <1>3
  <2>. QED BY <2>2, <2>3, <2>4
<1>. QED BY <1>3, <1>4 DEF m

LEMMA LeftIsTrimmed ==
  ASSUME CountsTell, NEW a \in Agents
  PROVE  Left(a) = InMemoryLog!AgentTrimmed(entries, a, MaxEntriesPerAgent)
<1> DEFINE P == PlacesOf(entries, a)
           G == InMemoryLog!Crowded(entries, a, MaxEntriesPerAgent)
           n == Cardinality(P)
           L == MaxEntriesPerAgent
<1>1. /\ entries \in Seq(Entry) /\ agentCounts[a] = n
      /\ L \in Nat /\ (L > 0 => n <= L)
  BY MemoryLimits DEF CountsTell, CountOf
<1>2. /\ n \in Nat /\ IsFiniteSet(P) /\ P \subseteq Nat /\ P \subseteq DOMAIN entries
      /\ n = 0 <=> P = {}
  BY <1>1, CountType DEF CountOf
<1>3. G = {i \in P : Cardinality(PlacesAbove(P, i)) >= L - 1}
  BY InMemoryLogEntries DEF InMemoryLog!Crowded, PlacesAbove
<1>4. AtLimit(a) <=> L > 0 /\ n >= L
  BY <1>1 DEF AtLimit
<1>5. InMemoryLog!AgentTrimmed(entries, a, L) = IF L = 0 THEN entries ELSE Without(entries, G)
  BY InMemoryLogEntries DEF InMemoryLog!AgentTrimmed
<1>6. Left(a) = IF AtLimit(a) /\ P # {} THEN RemoveAt(entries, Min(P)) ELSE entries
  BY DEF Left, Evicts
<1> HIDE DEF P, G, n, L
<1>7. ASSUME NEW i \in P
      PROVE  /\ Cardinality(PlacesBelow(P, i)) \in Nat /\ Cardinality(PlacesAbove(P, i)) \in Nat
             /\ Cardinality(PlacesBelow(P, i)) + 1 + Cardinality(PlacesAbove(P, i)) = n
  BY <1>2, Sides DEF n
<1>8. CASE L = 0
  BY <1>4, <1>5, <1>6, <1>8 DEF L
<1>9. CASE L > 0 /\ n < L
  <2>1. \A i \in P : ~(Cardinality(PlacesAbove(P, i)) >= L - 1)
    BY <1>1, <1>2, <1>7, <1>9
  <2>2. G = {}
    BY <1>3, <2>1
  <2>3. Without(entries, G) = entries
    BY <1>1, <2>2, WithoutNone
  <2>4. ~AtLimit(a)
    BY <1>1, <1>2, <1>4, <1>9
  <2>. QED BY <1>5, <1>6, <1>9, <2>3, <2>4 DEF L
<1>10. CASE L > 0 /\ n >= L
  <2>1. n = L /\ n # 0 /\ AtLimit(a)
    BY <1>1, <1>2, <1>4, <1>10
  <2>2. P # {}
    BY <1>2, <2>1
  <2>3. Min(P) \in P /\ \A i \in P : Cardinality(PlacesBelow(P, i)) = 0 <=> i = Min(P)
    BY <1>2, <2>2, OldestPlace
  <2>4. \A i \in P : Cardinality(PlacesAbove(P, i)) >= L - 1 <=> Cardinality(PlacesBelow(P, i)) = 0
    BY <1>2, <1>7, <2>1
  <2> DEFINE m == Min(P)
  <2>5. m \in P /\ \A i \in P : i \in G <=> i = m
    BY <1>3, <2>3, <2>4
  <2>6. \A i \in G : i \in P
    BY <1>3
  <2> HIDE DEF m
  <2>7. G = {m} /\ m \in DOMAIN entries
    BY <1>2, <2>5, <2>6
  <2>8. Without(entries, G) = RemoveAt(entries, m)
    BY <1>1, <2>7, WithoutOne
  <2>. QED BY <1>5, <1>6, <1>10, <2>1, <2>2, <2>8 DEF L, m
<1>. QED BY <1>1, <1>2, <1>8, <1>9, <1>10

CountsLeft(a) == IF Evicts(a) THEN Decremented(agentCounts, a) ELSE agentCounts

\* The agent that appends has room, and the counts tell what is left.
LEMMA CountsOfLeft ==
  ASSUME CountsTell, NEW a \in Agents
  PROVE  /\ Left(a) \in Seq(Entry) /\ Len(Left(a)) <= MaxEntries
         /\ CountsLeft(a) \in [Agents -> Nat]
         /\ \A b \in Agents : /\ CountsLeft(a)[b] = CountOf(Left(a), b)
                              /\ CountsLeft(a)[b] <= agentCounts[b]
         /\ MaxEntriesPerAgent > 0 => CountsLeft(a)[a] < MaxEntriesPerAgent
<1> DEFINE P == PlacesOf(entries, a)
           m == Min(P)
<1>1. /\ entries \in Seq(Entry) /\ agentCounts \in [Agents -> Nat]
      /\ \A b \in Agents : agentCounts[b] = CountOf(entries, b)
      /\ MaxEntriesPerAgent > 0 => agentCounts[a] <= MaxEntriesPerAgent
      /\ Len(entries) <= MaxEntries
      /\ MaxEntries \in Nat /\ MaxEntriesPerAgent \in Nat
  BY MemoryLimits DEF CountsTell
<1>2. Len(entries) \in Nat
  BY <1>1, LenProperties
<1>3. /\ IsFiniteSet(P) /\ P \subseteq Nat /\ P \subseteq DOMAIN entries
      /\ CountOf(entries, a) = 0 <=> P = {}
  BY <1>1, CountType
<1>4. CASE Evicts(a)
  <2>1. P # {} /\ Left(a) = RemoveAt(entries, m) /\ CountsLeft(a) = Decremented(agentCounts, a)
    BY <1>4 DEF Evicts, Left, CountsLeft
  <2> HIDE DEF P
  <2>2. m \in P
    BY <1>3, <2>1, OldestPlace
  <2> HIDE DEF m
  <2>3. m \in DOMAIN entries /\ entries[m].agent = a
    BY <2>2 DEF P, PlacesOf
  <2>4. Left(a) \in Seq(Entry) /\ Len(Left(a)) = Len(entries) - 1
    BY <1>1, <2>1, <2>3, RemoveOne
  <2>5. \A b \in Agents : CountOf(Left(a), b) = CountOf(entries, b) - (IF b = a THEN 1 ELSE 0)
    BY <1>1, <2>1, <2>3, CountRemoved
  <2>6. agentCounts[a] \in Nat /\ agentCounts[a] # 0
    BY <1>1, <1>3, <2>1
  <2>7. /\ CountsLeft(a) \in [Agents -> Nat] /\ CountsLeft(a)[a] = agentCounts[a] - 1
        /\ \A b \in Agents : b # a => CountsLeft(a)[b] = agentCounts[b]
    BY <1>1, <2>1, <2>6 DEF Decremented
  <2>8. ASSUME NEW b \in Agents
        PROVE  CountsLeft(a)[b] = CountOf(Left(a), b) /\ CountsLeft(a)[b] <= agentCounts[b]
    <3>1. agentCounts[b] = CountOf(entries, b) /\ agentCounts[b] \in Nat
      BY <1>1
    <3>. QED BY <2>5, <2>7, <3>1
  <2>. QED BY <1>1, <1>2, <2>4, <2>6, <2>7, <2>8
<1>5. CASE ~Evicts(a)
  <2>1. Left(a) = entries /\ CountsLeft(a) = agentCounts
    BY <1>5 DEF Left, CountsLeft
  <2>2. agentCounts[a] \in Nat /\ agentCounts[a] = CountOf(entries, a)
    BY <1>1
  <2>3. MaxEntriesPerAgent > 0 => agentCounts[a] < MaxEntriesPerAgent
    <3> SUFFICES ASSUME MaxEntriesPerAgent > 0, ~(agentCounts[a] < MaxEntriesPerAgent) PROVE FALSE
      OBVIOUS
    <3>1. AtLimit(a)
      BY <1>1, <2>2 DEF AtLimit
    <3>2. P = {}
      BY <1>5, <3>1 DEF Evicts
    <3>. QED BY <1>1, <1>3, <2>2, <3>2
  <2>4. \A b \in Agents : agentCounts[b] \in Nat
    BY <1>1
  <2>. QED BY <1>1, <2>1, <2>3, <2>4
<1>. QED BY <1>4, <1>5

RestOf(a) == IF Len(Left(a)) >= MaxEntries THEN Tail(Left(a)) ELSE Left(a)

\* So does the store, and they still do.
LEMMA CountsOfRest ==
  ASSUME CountsTell, NEW a \in Agents
  PROVE  /\ RestOf(a) \in Seq(Entry) /\ Len(RestOf(a)) < MaxEntries
         /\ RestOf(a) = InMemoryLog!LastOf(Left(a), MaxEntries - 1)
         /\ Counted(a) \in [Agents -> Nat]
         /\ \A b \in Agents : /\ Counted(a)[b] = CountOf(RestOf(a), b)
                              /\ Counted(a)[b] <= agentCounts[b]
         /\ MaxEntriesPerAgent > 0 => Counted(a)[a] < MaxEntriesPerAgent
<1> DEFINE s == Left(a)
           c == CountsLeft(a)
           n == Len(s)
           o == s[1].agent
<1>1. /\ s \in Seq(Entry) /\ n <= MaxEntries /\ n \in Nat /\ MaxEntries \in Nat \ {0}
      /\ c \in [Agents -> Nat] /\ agentCounts \in [Agents -> Nat] /\ MaxEntriesPerAgent \in Nat
      /\ \A b \in Agents : c[b] = CountOf(s, b) /\ c[b] <= agentCounts[b]
      /\ MaxEntriesPerAgent > 0 => c[a] < MaxEntriesPerAgent
  BY CountsOfLeft, LenProperties, MemoryLimits DEF CountsTell
<1>2. Counted(a) = IF n >= MaxEntries THEN Decremented(c, o) ELSE c
  BY DEF Counted, CountsLeft
<1>3. RestOf(a) = IF n >= MaxEntries THEN Tail(s) ELSE s
  BY DEF RestOf
<1> HIDE DEF s, c
<1>4. InMemoryLog!LastOf(s, MaxEntries - 1)
        = SubSeq(s, IF n > MaxEntries - 1 THEN n - (MaxEntries - 1) + 1 ELSE 1, n)
  BY DEF InMemoryLog!LastOf
<1>5. CASE n >= MaxEntries
  <2>1. n = MaxEntries /\ n > 0 /\ s # <<>>
    BY <1>1, <1>5
  <2>2. 1 \in DOMAIN s /\ Tail(s) = RemoveAt(s, 1)
    BY <1>1, <2>1, TailRemoves
  <2>3. Tail(s) \in Seq(Entry) /\ Len(Tail(s)) = n - 1
    BY <1>1, <2>1, HeadTailProperties
  <2>4. o \in Agents /\ \A b \in Agents : CountOf(Tail(s), b) = CountOf(s, b) - (IF o = b THEN 1 ELSE 0)
    <3>1. s[1] \in Entry
      BY <1>1, <2>2
    <3>2. o \in Agents
      BY <3>1 DEF Entry
    <3> HIDE DEF n
    <3>3. \A b \in Agents : CountOf(RemoveAt(s, 1), b) = CountOf(s, b) - (IF s[1].agent = b THEN 1 ELSE 0)
      BY <1>1, <2>2, CountRemoved
    <3>. QED BY <2>2, <3>2, <3>3
  <2>5. c[o] \in Nat /\ c[o] # 0
    <3>1. CountOf(Tail(s), o) \in Nat
      BY <2>3, CountType
    <3>2. CountOf(Tail(s), o) = c[o] - 1 /\ c[o] \in Nat
      BY <1>1, <2>4
    <3>. QED BY <3>1, <3>2
  <2> HIDE DEF o
  <2>6. /\ Decremented(c, o) \in [Agents -> Nat] /\ Decremented(c, o)[o] = c[o] - 1
        /\ \A b \in Agents : b # o => Decremented(c, o)[b] = c[b]
    BY <1>1, <2>4, <2>5 DEF Decremented
  <2>7. Counted(a) = Decremented(c, o) /\ RestOf(a) = Tail(s)
    BY <1>2, <1>3, <1>5
  <2>8. ASSUME NEW b \in Agents
        PROVE  /\ Counted(a)[b] = CountOf(RestOf(a), b)
               /\ Counted(a)[b] <= c[b] /\ Counted(a)[b] <= agentCounts[b]
    <3>1. /\ c[b] = CountOf(s, b) /\ c[b] <= agentCounts[b] /\ c[b] \in Nat
          /\ agentCounts[b] \in Nat
      BY <1>1
    <3>2. CASE b = o
      BY <2>4, <2>5, <2>6, <2>7, <3>1, <3>2
    <3>3. CASE b # o
      BY <2>4, <2>6, <2>7, <3>1, <3>3
    <3>. QED BY <3>2, <3>3
  <2>9. MaxEntriesPerAgent > 0 => Counted(a)[a] < MaxEntriesPerAgent
    <3>1. Counted(a)[a] \in Nat /\ c[a] \in Nat /\ Counted(a)[a] <= c[a]
      BY <1>1, <2>6, <2>7, <2>8
    <3>. QED BY <1>1, <3>1
  <2>10. Tail(s) = SubSeq(s, 2, n)
    BY <1>1, <2>1, TailIsSubSeq
  <2>11. InMemoryLog!LastOf(s, MaxEntries - 1) = Tail(s)
    <3>1. (IF n > MaxEntries - 1 THEN n - (MaxEntries - 1) + 1 ELSE 1) = 2
      BY <1>1, <2>1
    <3>. QED BY <1>4, <2>10, <3>1
  <2>12. Len(RestOf(a)) < MaxEntries
    BY <1>1, <2>1, <2>3, <2>7
  <2>. QED BY <2>3, <2>6, <2>7, <2>8, <2>9, <2>11, <2>12 DEF s
<1>6. CASE ~(n >= MaxEntries)
  <2>1. Counted(a) = c /\ RestOf(a) = s /\ Len(s) < MaxEntries
    BY <1>1, <1>2, <1>3, <1>6
  <2>2. InMemoryLog!LastOf(s, MaxEntries - 1) = SubSeq(s, 1, n)
    <3>1. (IF n > MaxEntries - 1 THEN n - (MaxEntries - 1) + 1 ELSE 1) = 1
      BY <1>1, <1>6
    <3>. QED BY <1>4, <3>1
  <2>3. SubSeq(s, 1, n) = s
    <3>1. 0 \in 0 .. n /\ 0 + 1 = 1 /\ n - 0 = n /\ \A i \in 1 .. n : i + 0 = i
      BY <1>1
    <3>2. /\ SubSeq(s, 0 + 1, n) \in Seq(Entry) /\ Len(SubSeq(s, 0 + 1, n)) = n - 0
          /\ \A i \in 1 .. n - 0 : SubSeq(s, 0 + 1, n)[i] = s[i + 0]
      BY <1>1, <3>1, DropFirst
    <3>3. /\ SubSeq(s, 1, n) \in Seq(Entry) /\ Len(SubSeq(s, 1, n)) = n
          /\ \A i \in 1 .. n : SubSeq(s, 1, n)[i] = s[i]
      BY <3>1, <3>2
    <3>. QED BY <1>1, <3>3, SeqEqual
  <2>. QED BY <1>1, <2>1, <2>2, <2>3 DEF s
<1>. QED BY <1>5, <1>6

LEMMA MemoryStep ==
  ASSUME CountsTell, [MemNext]_memVars
  PROVE  CountsTell' /\ [InMemoryLog!LogNext]_(InMemoryLog!logVars)
<1>1. CASE \E e \in Entry : AppendEntry(e)
  <2>1. PICK e \in Entry : AppendEntry(e)
    BY <1>1
  <2> DEFINE a == e.agent
             limits == [total |-> MaxEntries, perAgent |-> MaxEntriesPerAgent]
  <2>2. /\ e.id \notin IdsOf(appended)
        /\ entries' = Append(RestOf(a), e)
        /\ agentCounts' = [Counted(a) EXCEPT ![a] = @ + 1]
        /\ appended' = Append(appended, e)
    BY <2>1 DEF AppendEntry, RestOf
  <2>3. a \in Agents
    BY DEF Entry
  <2>4. /\ RestOf(a) \in Seq(Entry) /\ Len(RestOf(a)) < MaxEntries
        /\ RestOf(a) = InMemoryLog!LastOf(Left(a), MaxEntries - 1)
        /\ Counted(a) \in [Agents -> Nat]
        /\ \A b \in Agents : Counted(a)[b] = CountOf(RestOf(a), b) /\ Counted(a)[b] <= agentCounts[b]
        /\ MaxEntriesPerAgent > 0 => Counted(a)[a] < MaxEntriesPerAgent
    BY <2>3, CountsOfRest
  <2>5. Left(a) = InMemoryLog!AgentTrimmed(entries, a, MaxEntriesPerAgent)
    BY <2>3, LeftIsTrimmed
  <2>6. InMemoryLog!LogAppend(e, limits)
    <3>1. entries' = InMemoryLog!Appended(entries, e, limits)
      BY <2>2, <2>4, <2>5 DEF InMemoryLog!Appended
    <3>. QED BY <2>2, <3>1, InMemoryLogEntries DEF InMemoryLog!LogAppend
  <2>7. InMemoryLog!LogNext
    <3> HIDE DEF limits
    <3>1. e \in InMemoryLog!Entry /\ limits \in {[total |-> MaxEntries, perAgent |-> MaxEntriesPerAgent]}
      BY InMemoryLogEntries DEF limits
    <3>. QED BY <2>6, <3>1 DEF InMemoryLog!LogNext
  <2> HIDE DEF a
  <2>8. entries' \in Seq(Entry) /\ Len(entries') <= MaxEntries
    <3>1. Len(RestOf(a)) \in Nat /\ Len(Append(RestOf(a), e)) = Len(RestOf(a)) + 1
          /\ Append(RestOf(a), e) \in Seq(Entry)
      BY <2>4, AppendProperties, LenProperties
    <3>. QED BY <2>2, <2>4, <3>1, MemoryLimits
  <2>9. appended' \in Seq(Entry)
    BY <2>2, AppendProperties DEF CountsTell
  <2>10. /\ agentCounts' \in [Agents -> Nat] /\ agentCounts'[a] = Counted(a)[a] + 1
         /\ \A b \in Agents : b # a => agentCounts'[b] = Counted(a)[b]
    BY <2>2, <2>3, <2>4
  <2>11. ASSUME NEW b \in Agents
         PROVE  /\ agentCounts'[b] = CountOf(entries', b)
                /\ MaxEntriesPerAgent > 0 => agentCounts'[b] <= MaxEntriesPerAgent
    <3>1. CountOf(entries', b) = CountOf(RestOf(a), b) + (IF a = b THEN 1 ELSE 0)
      BY <2>2, <2>4, CountAppended DEF a
    <3>2. /\ Counted(a)[b] = CountOf(RestOf(a), b) /\ Counted(a)[b] <= agentCounts[b]
          /\ Counted(a)[b] \in Nat /\ agentCounts[b] \in Nat
          /\ MaxEntriesPerAgent > 0 => agentCounts[b] <= MaxEntriesPerAgent
      BY <2>4 DEF CountsTell
    <3>3. CASE b = a
      BY <2>4, <2>10, <3>1, <3>2, <3>3, MemoryLimits
    <3>4. CASE b # a
      BY <2>10, <3>1, <3>2, <3>4, MemoryLimits
    <3>. QED BY <3>3, <3>4
  <2>12. CountsTell'
    BY <2>8, <2>9, <2>10, <2>11 DEF CountsTell
  <2>. QED BY <2>7, <2>12
<1>2. CASE Clear
  <2>1. entries' = <<>> /\ appended' = <<>> /\ agentCounts' = [b \in Agents |-> 0]
    BY <1>2 DEF Clear
  <2>2. \A b \in Agents : CountOf(<<>>, b) = 0
    BY FS_EmptySet DEF CountOf, PlacesOf
  <2>3. CountsTell'
    BY <2>1, <2>2, MemoryLimits DEF CountsTell
  <2>. QED BY <2>1, <2>3 DEF InMemoryLog!LogNext, InMemoryLog!LogClear
<1>3. CASE UNCHANGED memVars
  BY <1>3 DEF memVars, CountsTell, InMemoryLog!logVars
<1>. QED BY <1>1, <1>2, <1>3 DEF MemNext

LEMMA MemoryStart == MemInit => CountsTell /\ InMemoryLog!LogInit
<1>1. \A b \in Agents : CountOf(<<>>, b) = 0
  BY FS_EmptySet DEF CountOf, PlacesOf
<1>. QED BY <1>1, MemoryLimits DEF MemInit, CountsTell, InMemoryLog!LogInit

LEMMA InMemoryImplements == MemSpec => InMemoryLog!LogSpec
<1>1. CountsTell /\ [MemNext]_memVars => CountsTell' /\ [InMemoryLog!LogNext]_(InMemoryLog!logVars)
  BY MemoryStep
<1>. QED BY <1>1, MemoryStart, PTL DEF MemSpec, InMemoryLog!LogSpec

\* Both memory stores are the log that MemoryStore promises: the entries in
\* memory although they are trimmed by counts kept beside them, those in the
\* file although several processes with limits of their own write it, crash and
\* leave the lock behind.  Every append drops exactly the oldest entries the
\* limits of its store demand, and no append overwrites another.
THEOREM StoresAreLogs == MemSpec /\ FileSpec => ImplementsMemoryLog
  BY FileImplements, InMemoryImplements DEF ImplementsMemoryLog
=============================================================================
