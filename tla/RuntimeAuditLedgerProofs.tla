----------------------- MODULE RuntimeAuditLedgerProofs -----------------------
(***************************************************************************)
(* For any ledgers, digests and lengths: the ledger's chain, its records    *)
(* and its status survive failed writes, failed fsyncs, crashes and power   *)
(* losses.  The proof needs that the path is held while somebody writes     *)
(* (Sole), that an acknowledged record lies in the durable part (Kept), and  *)
(* what the file looks like between a write and its fsync (Unacknowledged).  *)
(***************************************************************************)
EXTENDS RuntimeAuditLedger, DataLemmas

Writing(l) == ledger[l].st \in {"open", "unsynced"}

Sole == OneWriter /\ \A l \in Ledgers : Writing(l) => held

Kept == edited \/ \A r \in acked : r.seq <= durable /\ r.seq <= Len(file) /\ file[r.seq] = r

Unacknowledged ==
  \A l \in Ledgers : ledger[l].st = "unsynced" =>
    Verifies /\ Len(file) = ledger[l].count + 1 /\ ~ledger[l].missed

LInv == TypeOK /\ Sole /\ ChainSurvives /\ Kept /\ StatusIsTrue /\ Unacknowledged

AnyLine == Line \union {Garbled}

-----------------------------------------------------------------------------
\* Chains.

LEMMA HeadOfPrefix ==
  ASSUME NEW s \in Seq(AnyLine), NEW i \in 1 .. Len(s) + 1
  PROVE  HeadOf(SubSeq(s, 1, i - 1)) = IF i = 1 THEN None ELSE s[i - 1].digest
<1>1. Len(s) \in Nat /\ \A j \in 1 .. i - 1 : s[j] \in AnyLine
  BY LenProperties, ElementOfSeq
<1> DEFINE p == SubSeq(s, 1, i - 1)
<1>2. /\ p \in Seq(AnyLine) /\ Len(p) = IF 1 <= i - 1 THEN i - 1 ELSE 0
      /\ \A j \in 1 .. i - 1 : p[j] = s[j]
  <2>1. i - 1 \in Int /\ 1 \in Int
    BY <1>1
  <2>2. /\ p \in Seq(AnyLine) /\ Len(p) = IF 1 <= i - 1 THEN i - 1 - 1 + 1 ELSE 0
        /\ \A j \in 1 .. i - 1 - 1 + 1 : p[j] = s[1 + j - 1]
    BY <1>1, <2>1, SubSeqProperties
  <2>. QED BY <1>1, <2>2
<1> HIDE DEF p
<1>3. CASE i = 1
  BY <1>2, <1>3, EmptySeq DEF HeadOf
<1>4. CASE i # 1
  <2>1. Len(p) = i - 1 /\ i - 1 \in 1 .. i - 1 /\ p # <<>>
    BY <1>1, <1>2, <1>4, EmptySeq
  <2>. QED BY <1>2, <1>4, <2>1 DEF HeadOf, Last
<1>. QED BY <1>3, <1>4 DEF p

\* Every line names its place and the digest of the line before.
Linked(s) ==
  \A i \in 1 .. Len(s) :
    /\ s[i] # Garbled
    /\ s[i].seq = i
    /\ s[i].prev = IF i = 1 THEN None ELSE s[i - 1].digest

LEMMA ChainedIsLinked ==
  ASSUME NEW s \in Seq(AnyLine)
  PROVE  Chained(s) <=> Linked(s)
<1>1. DOMAIN s = 1 .. Len(s) /\ Len(s) \in Nat
  BY LenProperties
<1>2. \A i \in 1 .. Len(s) : HeadOf(SubSeq(s, 1, i - 1)) = IF i = 1 THEN None ELSE s[i - 1].digest
  BY <1>1, HeadOfPrefix
<1>. QED BY <1>1, <1>2 DEF Chained, Linked, ToSet

LEMMA ChainedIsLines ==
  ASSUME NEW s \in Seq(AnyLine), Chained(s)
  PROVE  s \in Seq(Line)
<1>1. Linked(s)
  BY ChainedIsLinked
<1>2. DOMAIN s = 1 .. Len(s) /\ Len(s) \in Nat /\ s \in [1 .. Len(s) -> AnyLine]
  BY LenProperties
<1>3. s \in [1 .. Len(s) -> Line]
  BY <1>1, <1>2 DEF Linked, AnyLine
<1>. QED BY <1>2, <1>3

LEMMA HeadIsADigest ==
  ASSUME NEW s \in Seq(AnyLine), Chained(s)
  PROVE  HeadOf(s) \in Digests \union {None}
<1>1. s \in Seq(Line)
  BY ChainedIsLines
<1>2. CASE s = <<>>
  BY <1>2 DEF HeadOf
<1>3. CASE s # <<>>
  <2>1. Len(s) \in 1 .. Len(s)
    BY <1>1, <1>3, EmptySeq
  <2>2. s[Len(s)] \in Line
    BY <1>1, <2>1, ElementOfSeq
  <2>. QED BY <1>3, <2>2 DEF HeadOf, Last, Line
<1>. QED BY <1>2, <1>3

LEMMA AppendKeepsChain ==
  ASSUME NEW s \in Seq(AnyLine), Chained(s), NEW d \in Digests, NEW r,
         r = [seq |-> Len(s) + 1, prev |-> HeadOf(s), digest |-> d]
  PROVE  Append(s, r) \in Seq(AnyLine) /\ Chained(Append(s, r))
<1> DEFINE t == Append(s, r)
<1>1. Len(s) \in Nat
  BY LenProperties
<1>2. r \in Line /\ r # Garbled
  BY <1>1, HeadIsADigest, LedgerParameters DEF Line
<1>3. /\ t \in Seq(AnyLine) /\ Len(t) = Len(s) + 1 /\ t[Len(s) + 1] = r
      /\ \A i \in 1 .. Len(s) : t[i] = s[i]
  BY <1>2, AppendProperties DEF AnyLine
<1> HIDE DEF t
<1>4. Linked(s)
  BY ChainedIsLinked
<1>5. HeadOf(s) = IF Len(s) + 1 = 1 THEN None ELSE s[Len(s)].digest
  BY <1>1, EmptySeq DEF HeadOf, Last
<1>6. ASSUME NEW i \in 1 .. Len(t)
      PROVE  t[i] # Garbled /\ t[i].seq = i /\ t[i].prev = IF i = 1 THEN None ELSE t[i - 1].digest
  <2>1. CASE i \in 1 .. Len(s)
    <3>1. t[i] = s[i] /\ (i # 1 => t[i - 1] = s[i - 1])
      BY <1>1, <1>3, <2>1
    <3>. QED BY <1>4, <2>1, <3>1 DEF Linked
  <2>2. CASE i = Len(s) + 1
    <3>1. t[i] = r /\ (i # 1 => t[i - 1] = s[Len(s)])
      BY <1>1, <1>3, <2>2
    <3>. QED BY <1>2, <1>5, <2>2, <3>1
  <2>. QED BY <1>1, <1>3, <2>1, <2>2
<1>7. Linked(t)
  BY <1>6 DEF Linked
<1>8. t \in Seq(AnyLine) /\ Chained(t)
  BY <1>3, <1>7, ChainedIsLinked
<1>. QED BY <1>8 DEF t

LEMMA PrefixProperties ==
  ASSUME NEW S, NEW s \in Seq(S), NEW n \in 0 .. Len(s)
  PROVE  /\ SubSeq(s, 1, n) \in Seq(S) /\ Len(SubSeq(s, 1, n)) = n
         /\ \A i \in 1 .. n : SubSeq(s, 1, n)[i] = s[i]
<1>1. Len(s) \in Nat /\ n \in Int /\ 1 \in Int /\ \A i \in 1 .. n : s[i] \in S
  BY LenProperties, ElementOfSeq
<1>2. /\ SubSeq(s, 1, n) \in Seq(S) /\ Len(SubSeq(s, 1, n)) = IF 1 <= n THEN n - 1 + 1 ELSE 0
      /\ \A i \in 1 .. n - 1 + 1 : SubSeq(s, 1, n)[i] = s[1 + i - 1]
  BY <1>1, SubSeqProperties
<1>. QED BY <1>1, <1>2

LEMMA PrefixKeepsChain ==
  ASSUME NEW s \in Seq(AnyLine), Chained(s), NEW n \in 0 .. Len(s)
  PROVE  Chained(SubSeq(s, 1, n))
<1> DEFINE t == SubSeq(s, 1, n)
<1>1. Len(s) \in Nat
  BY LenProperties
<1>2. t \in Seq(AnyLine) /\ Len(t) = n /\ \A i \in 1 .. n : t[i] = s[i]
  BY PrefixProperties
<1>3. Linked(s)
  BY ChainedIsLinked
<1> HIDE DEF t
<1>4. \A i \in 1 .. n : i # 1 => t[i - 1] = s[i - 1]
  BY <1>1, <1>2
<1>5. Linked(t)
  <2>1. ASSUME NEW i \in 1 .. n
        PROVE  t[i] # Garbled /\ t[i].seq = i /\ t[i].prev = IF i = 1 THEN None ELSE t[i - 1].digest
    <3>1. i \in 1 .. Len(s) /\ t[i] = s[i] /\ (i # 1 => t[i - 1] = s[i - 1])
      BY <1>1, <1>2, <1>4
    <3>. QED BY <1>3, <3>1 DEF Linked
  <2>. QED BY <1>2, <2>1 DEF Linked
<1>6. Chained(t)
  BY <1>2, <1>5, ChainedIsLinked
<1>. QED BY <1>6 DEF t

-----------------------------------------------------------------------------
\* The invariant.

LEMMA LInit == Init => LInv
<1>1. Chained(<<>>)
  <2>1. <<>> \in Seq(AnyLine) /\ Len(<<>>) = 0
    BY EmptySeq
  <2>2. Linked(<<>>)
    BY <2>1 DEF Linked
  <2>. QED BY <2>1, <2>2, ChainedIsLinked
<1> SUFFICES ASSUME Init PROVE LInv
  OBVIOUS
<1>2. TypeOK
  <2>1. file \in Seq(Line \union {Garbled}) /\ anchor \in Seq(Line) /\ Written = 0
    BY EmptySeq DEF Init, Written
  <2>2. ledger \in [Ledgers -> Ledger]
    BY DEF Init, Ledger, NewLedger
  <2>3. durable \in 0 .. Written /\ issued \subseteq Digests /\ acked \subseteq Line
    BY <2>1 DEF Init
  <2>4. torn \in BOOLEAN /\ held \in BOOLEAN /\ edited \in BOOLEAN
    BY DEF Init
  <2>. QED BY <2>1, <2>2, <2>3, <2>4 DEF TypeOK
<1>3. \A l \in Ledgers : ledger[l].st = "new"
  BY DEF Init, NewLedger
<1>. QED BY <1>1, <1>2, <1>3 DEF Init, LInv, Sole, OneWriter, Writing, ChainSurvives, Kept, StatusIsTrue, CanAppend, Unacknowledged

\* The writer of the path is one: it takes a free path, and no one else frees it.
Writer(st) == st \in {"open", "unsynced"}

LEMMA SoleStep ==
  ASSUME LInv, NEW l \in Ledgers, NEW r \in Ledger, Set(l, r), held' \in BOOLEAN,
         held' = held \/ Writing(l) \/ ~held,
         Writer(r.st) => held' /\ (Writing(l) \/ ~held)
  PROVE  Sole' /\ ledger' \in [Ledgers -> Ledger]
<1>1. /\ ledger' \in [Ledgers -> Ledger] /\ ledger'[l] = r
      /\ \A m \in Ledgers \ {l} : ledger'[m] = ledger[m]
  BY DEF LInv, TypeOK, Set
<1>2. Writing(l) \/ ~held => \A m \in Ledgers \ {l} : ~Writing(m)
  BY DEF LInv, Sole, OneWriter, Writing
<1>3. CASE Writing(l) \/ ~held
  BY <1>1, <1>2, <1>3 DEF Sole, OneWriter, Writing, Writer
<1>4. CASE ~(Writing(l) \/ ~held)
  BY <1>1, <1>4 DEF LInv, Sole, OneWriter, Writing, Writer
<1>. QED BY <1>1, <1>3, <1>4

\* Steps of a ledger object that leave the lines alone.
LEMMA LedgerStep ==
  ASSUME LInv, UNCHANGED <<file, torn, issued, acked, anchor, edited>>,
         durable' \in {durable, Written},
         NEW l \in Ledgers, NEW r \in Ledger, Set(l, r), held' \in BOOLEAN,
         held' = held \/ Writing(l) \/ ~held,
         Writer(r.st) => held' /\ (Writing(l) \/ ~held),
         r.st # "unsynced",
         r.st = "open" /\ r.healthy =>
           Verifies /\ r.count = Len(file) /\ r.head = HeadOf(file) /\ ~r.missed
  PROVE  LInv'
<1>1. Sole' /\ ledger' \in [Ledgers -> Ledger]
  BY SoleStep
<1>2. /\ ledger'[l] = r
      /\ \A m \in Ledgers \ {l} : ledger'[m] = ledger[m]
  BY DEF LInv, TypeOK, Set
<1>3. Len(file) \in Nat /\ Written \in Nat /\ durable <= durable' /\ durable' \in 0 .. Written
  BY LenProperties DEF LInv, TypeOK, Written
<1>4. TypeOK'
  BY <1>1, <1>3 DEF LInv, TypeOK, Written
<1>5. ChainSurvives'
  BY DEF LInv, ChainSurvives, Chained, HeadOf
<1>6. Kept'
  <2>1. \A s \in acked : s.seq \in Nat
    BY DEF LInv, TypeOK, Line
  <2>. QED BY <1>3, <2>1 DEF LInv, TypeOK, Kept
<1>7. Verifies' = Verifies /\ HeadOf(file)' = HeadOf(file)
  BY DEF Verifies, Chained, HeadOf
<1>8. StatusIsTrue'
  BY <1>2, <1>7 DEF LInv, StatusIsTrue, CanAppend
<1>9. Unacknowledged'
  BY <1>2, <1>7 DEF LInv, Unacknowledged
<1>. QED BY <1>1, <1>4, <1>5, <1>6, <1>8, <1>9 DEF LInv

LEMMA OpenStep ==
  ASSUME LInv, NEW l \in Ledgers, Open(l) \/ OpenFails(l)
  PROVE  LInv'
<1>1. Len(file) \in Nat /\ durable \in {durable, Written}
  BY LenProperties DEF LInv, TypeOK
<1>2. CASE Open(l)
  <2> DEFINE r == [NewLedger EXCEPT !.st = "open", !.count = Len(file), !.head = HeadOf(file)]
  <2>1. Verifies /\ ~held
    BY <1>2 DEF Open
  <2>2. HeadOf(file) \in Digests \union {None}
    BY <2>1, HeadIsADigest DEF LInv, TypeOK, Verifies, AnyLine
  <2>3. r \in Ledger /\ r.st = "open" /\ r.count = Len(file) /\ r.head = HeadOf(file) /\ ~r.missed
    BY <1>1, <2>2 DEF NewLedger, Ledger
  <2>4. Set(l, r) /\ held' = TRUE /\ UNCHANGED <<file, torn, durable, issued, acked, anchor, edited>>
    BY <1>2 DEF Open, fileVars
  <2> HIDE DEF r
  <2>. QED BY <1>1, <2>1, <2>3, <2>4, LedgerStep DEF Writer
<1>3. CASE OpenFails(l)
  <2> DEFINE r == [NewLedger EXCEPT !.st = "failed"]
  <2>1. r \in Ledger /\ r.st = "failed"
    BY DEF NewLedger, Ledger
  <2>2. Set(l, r) /\ UNCHANGED <<file, torn, durable, issued, held, acked, anchor, edited>> /\ held' \in BOOLEAN
    BY <1>3 DEF OpenFails, fileVars, LInv, TypeOK
  <2> HIDE DEF r
  <2>. QED BY <1>1, <2>1, <2>2, LedgerStep DEF Writer
<1>. QED BY <1>2, <1>3

LEMMA CloseStep ==
  ASSUME LInv, NEW l \in Ledgers, Close(l)
  PROVE  LInv'
<1>1. Writing(l) /\ held' = FALSE /\ UNCHANGED <<file, torn, issued, acked, anchor, edited>>
  BY DEF Close, Writing
<1>2. ledger[l] \in Ledger
  BY DEF LInv, TypeOK
<1>3. PICK h \in BOOLEAN : Set(l, [ledger[l] EXCEPT !.st = "closed", !.healthy = h])
                         /\ durable' \in {durable, Written}
  <2>1. CASE durable' = Written /\ Set(l, [ledger[l] EXCEPT !.st = "closed"])
    <3>1. [ledger[l] EXCEPT !.st = "closed"] = [ledger[l] EXCEPT !.st = "closed", !.healthy = ledger[l].healthy]
      BY <1>2 DEF Ledger
    <3>2. ledger[l].healthy \in BOOLEAN
      BY <1>2 DEF Ledger
    <3>. QED BY <2>1, <3>1, <3>2
  <2>2. CASE UNCHANGED durable /\ Set(l, [ledger[l] EXCEPT !.st = "closed", !.healthy = FALSE])
    BY <2>2
  <2>. QED BY <2>1, <2>2 DEF Close
<1> DEFINE r == [ledger[l] EXCEPT !.st = "closed", !.healthy = h]
<1>4. r \in Ledger /\ r.st = "closed"
  BY <1>2, <1>3 DEF Ledger
<1>5. Set(l, r) /\ durable' \in {durable, Written}
  BY <1>3
<1> HIDE DEF r
<1>. QED BY <1>1, <1>4, <1>5, LedgerStep DEF Writer

LEMMA AttachStep ==
  ASSUME LInv, NEW l \in Ledgers, Attach(l) \/ Detach(l) \/ Refused(l)
  PROVE  LInv'
<1>1. ledger[l] \in Ledger /\ durable \in {durable, Written} /\ held \in BOOLEAN
  BY DEF LInv, TypeOK
<1>2. PICK r \in Ledger :
        /\ Set(l, r) /\ r.st = ledger[l].st /\ r.healthy = ledger[l].healthy
        /\ r.count = ledger[l].count /\ r.head = ledger[l].head
        /\ CanAppend(l) => r.missed = ledger[l].missed
  <2>1. CASE Attach(l)
    <3>1. [ledger[l] EXCEPT !.attached = TRUE] \in Ledger
      BY <1>1 DEF Ledger
    <3>. QED BY <1>1, <2>1, <3>1 DEF Attach, Ledger
  <2>2. CASE Detach(l)
    <3>1. [ledger[l] EXCEPT !.attached = FALSE] \in Ledger
      BY <1>1 DEF Ledger
    <3>. QED BY <1>1, <2>2, <3>1 DEF Detach, Ledger
  <2>3. CASE Refused(l)
    <3>1. [ledger[l] EXCEPT !.missed = TRUE] \in Ledger
      BY <1>1 DEF Ledger
    <3>. QED BY <1>1, <2>3, <3>1 DEF Refused, Ledger
  <2>. QED BY <2>1, <2>2, <2>3
<1>3. /\ UNCHANGED <<file, torn, durable, issued, held, acked, anchor, edited>>
      /\ ledger[l].st # "unsynced"
  BY DEF Attach, Detach, Refused, fileVars
<1>4. Writer(r.st) => held /\ Writing(l)
  BY <1>2 DEF Writer, Writing, LInv, Sole
<1>5. r.st = "open" /\ r.healthy =>
        Verifies /\ r.count = Len(file) /\ r.head = HeadOf(file) /\ ~r.missed
  BY <1>2 DEF LInv, StatusIsTrue, CanAppend
<1>. QED BY <1>1, <1>2, <1>3, <1>4, <1>5, LedgerStep

LEMMA FailedIsALedger ==
  ASSUME LInv, NEW l \in Ledgers
  PROVE  Failed(l) \in Ledger /\ Failed(l).st = "open" /\ Failed(l).healthy = FALSE
<1>1. ledger[l] \in Ledger
  BY DEF LInv, TypeOK
<1>2. (ledger[l].missed \/ ledger[l].attached) \in BOOLEAN
  OBVIOUS
<1>. QED BY <1>1, <1>2 DEF Failed, Ledger

LEMMA SyncFailsStep ==
  ASSUME LInv, NEW l \in Ledgers, SyncFails(l)
  PROVE  LInv'
<1>1. Writing(l) /\ Set(l, Failed(l)) /\ UNCHANGED <<file, torn, durable, issued, held, acked, anchor, edited>>
  BY DEF SyncFails, fileVars, Writing
<1>2. held /\ held' \in BOOLEAN /\ durable' \in {durable, Written}
  BY <1>1 DEF LInv, TypeOK, Sole
<1>. QED BY <1>1, <1>2, FailedIsALedger, LedgerStep

\* While one ledger writes, no other one can.
LEMMA Alone ==
  ASSUME LInv, NEW l \in Ledgers, Writing(l)
  PROVE  held /\ \A m \in Ledgers \ {l} : ~Writing(m)
  BY DEF LInv, Sole, OneWriter, Writing

LEMMA WriteFailsStep ==
  ASSUME LInv, NEW l \in Ledgers, WriteFails(l)
  PROVE  LInv'
<1>1. /\ CanAppend(l) /\ Writing(l) /\ torn' \in BOOLEAN /\ Set(l, Failed(l))
      /\ UNCHANGED <<file, durable, issued, held, acked, anchor, edited>>
  BY DEF WriteFails, CanAppend, Writing
<1>2. held /\ held' \in BOOLEAN
  BY <1>1, Alone DEF LInv, TypeOK
<1>3. Sole' /\ ledger' \in [Ledgers -> Ledger]
  BY <1>1, <1>2, FailedIsALedger, SoleStep
<1>4. ledger'[l] = Failed(l) /\ \A m \in Ledgers \ {l} : ledger'[m] = ledger[m] /\ ~Writing(m)
  BY <1>1, Alone DEF LInv, TypeOK, Set
<1>5. ~torn /\ Len(file) \in Nat
  BY <1>1, LenProperties DEF LInv, TypeOK, StatusIsTrue, Verifies
<1>6. durable' \in 0 .. Written'
  BY <1>1, <1>5 DEF LInv, TypeOK, Written
<1>7. TypeOK'
  BY <1>1, <1>2, <1>3, <1>6 DEF LInv, TypeOK
<1>8. ChainSurvives' /\ Kept'
  BY <1>1 DEF LInv, ChainSurvives, Chained, HeadOf, Kept
<1>9. StatusIsTrue' /\ Unacknowledged'
  BY <1>4, FailedIsALedger DEF StatusIsTrue, CanAppend, Unacknowledged, Writing
<1>. QED BY <1>3, <1>7, <1>8, <1>9 DEF LInv

LEMMA WriteStep ==
  ASSUME LInv, NEW l \in Ledgers, NEW d \in Digests, Write(l, d)
  PROVE  LInv'
<1> DEFINE r == [seq |-> ledger[l].count + 1, prev |-> ledger[l].head, digest |-> d]
           k == [ledger[l] EXCEPT !.st = "unsynced"]
<1>1. /\ CanAppend(l) /\ Writing(l) /\ Set(l, k) /\ file' = Append(file, r) /\ issued' = issued \union {d}
      /\ UNCHANGED <<torn, durable, held, acked, anchor, edited>>
  BY DEF Write, CanAppend, Writing
<1>2. /\ ledger[l] \in Ledger /\ file \in Seq(AnyLine) /\ Len(file) \in Nat
      /\ Verifies /\ ledger[l].count = Len(file) /\ ledger[l].head = HeadOf(file) /\ ~ledger[l].missed
  BY <1>1, LenProperties DEF LInv, TypeOK, StatusIsTrue, AnyLine
<1>3. k \in Ledger /\ k.st = "unsynced" /\ k.count = Len(file) /\ ~k.missed
  BY <1>2 DEF Ledger
<1>4. file' \in Seq(AnyLine) /\ Chained(file')
  <2>1. r = [seq |-> Len(file) + 1, prev |-> HeadOf(file), digest |-> d]
    BY <1>2
  <2>. QED BY <1>1, <1>2, <2>1, AppendKeepsChain DEF Verifies
<1>5. Len(file') = Len(file) + 1 /\ \A i \in 1 .. Len(file) : file'[i] = file[i]
  <2>1. r \in Line
    BY <1>2 DEF Line, Ledger
  <2>. QED BY <1>1, <1>2, <2>1, AppendProperties DEF AnyLine
<1> HIDE DEF r, k
<1>6. held /\ held' \in BOOLEAN
  BY <1>1, Alone DEF LInv, TypeOK
<1>7. Sole' /\ ledger' \in [Ledgers -> Ledger]
  BY <1>1, <1>3, <1>6, SoleStep
<1>8. ledger'[l] = k /\ \A m \in Ledgers \ {l} : ledger'[m] = ledger[m] /\ ~Writing(m)
  BY <1>1, Alone DEF LInv, TypeOK, Set
<1>9. durable' \in 0 .. Written'
  BY <1>1, <1>2, <1>5 DEF LInv, TypeOK, Written
<1>10. TypeOK'
  BY <1>1, <1>4, <1>6, <1>7, <1>9 DEF LInv, TypeOK, AnyLine
<1>11. ChainSurvives'
  BY <1>4 DEF ChainSurvives, Chained, HeadOf
<1>12. Kept'
  <2>1. \A s \in acked : s.seq \in Nat \ {0}
    BY DEF LInv, TypeOK, Line
  <2>2. CASE edited
    BY <1>1, <2>2 DEF Kept
  <2>3. CASE ~edited
    BY <1>1, <1>2, <1>5, <2>1, <2>3 DEF LInv, Kept
  <2>. QED BY <2>2, <2>3
<1>13. Verifies'
  BY <1>1, <1>2, <1>4 DEF Verifies, Chained, HeadOf
<1>14. StatusIsTrue' /\ Unacknowledged'
  BY <1>3, <1>5, <1>8, <1>13 DEF StatusIsTrue, CanAppend, Unacknowledged, Writing
<1>. QED BY <1>7, <1>10, <1>11, <1>12, <1>14 DEF LInv

LEMMA SyncSucceedsStep ==
  ASSUME LInv, NEW l \in Ledgers, SyncSucceeds(l)
  PROVE  LInv'
<1> DEFINE k == [ledger[l] EXCEPT !.st = "open", !.count = ledger[l].count + 1, !.head = Last(file).digest]
<1>1. /\ ledger[l].st = "unsynced" /\ Writing(l) /\ Set(l, k) /\ durable' = Written
      /\ acked' = acked \union {Last(file)}
      /\ UNCHANGED <<file, torn, issued, held, anchor, edited>>
  BY DEF SyncSucceeds, Writing
<1>2. /\ ledger[l] \in Ledger /\ file \in Seq(AnyLine) /\ Len(file) \in Nat
      /\ Verifies /\ Len(file) = ledger[l].count + 1 /\ ~ledger[l].missed
  BY <1>1, LenProperties DEF LInv, TypeOK, Unacknowledged, AnyLine
<1>3. file \in Seq(Line) /\ Linked(file)
  BY <1>2, ChainedIsLines, ChainedIsLinked DEF Verifies
<1>4. Len(file) \in 1 .. Len(file) /\ Last(file) \in Line /\ Last(file).seq = Len(file)
      /\ Last(file) = file[Len(file)] /\ HeadOf(file) = Last(file).digest
  <2>1. Len(file) \in 1 .. Len(file)
    BY <1>2 DEF Ledger
  <2>2. file # <<>>
    BY <2>1, <1>2, EmptySeq
  <2>. QED BY <1>3, <2>1, <2>2, ElementOfSeq DEF Last, HeadOf, Linked
<1>5. k \in Ledger /\ k.st = "open" /\ k.count = Len(file) /\ k.head = HeadOf(file) /\ ~k.missed
  BY <1>2, <1>4 DEF Ledger, Line
<1> HIDE DEF k
<1>6. held /\ held' \in BOOLEAN
  BY <1>1, Alone DEF LInv, TypeOK
<1>7. Sole' /\ ledger' \in [Ledgers -> Ledger]
  BY <1>1, <1>5, <1>6, SoleStep
<1>8. ledger'[l] = k /\ \A m \in Ledgers \ {l} : ledger'[m] = ledger[m] /\ ~Writing(m)
  BY <1>1, Alone DEF LInv, TypeOK, Set
<1>9. Written \in Nat /\ Len(file) <= Written /\ durable <= Written /\ Written' = Written
  BY <1>1, <1>2 DEF LInv, TypeOK, Written
<1>10. TypeOK'
  BY <1>1, <1>4, <1>6, <1>7, <1>9 DEF LInv, TypeOK
<1>11. ChainSurvives'
  BY <1>1 DEF LInv, ChainSurvives, Chained, HeadOf
<1>12. Kept'
  <2>1. \A s \in acked : s.seq \in Nat \ {0}
    BY DEF LInv, TypeOK, Line
  <2>2. CASE edited
    BY <1>1, <2>2 DEF Kept
  <2>3. CASE ~edited
    BY <1>1, <1>2, <1>4, <1>9, <2>1, <2>3 DEF LInv, TypeOK, Kept
  <2>. QED BY <2>2, <2>3
<1>13. Verifies' /\ HeadOf(file)' = HeadOf(file)
  BY <1>1, <1>2 DEF Verifies, Chained, HeadOf
<1>14. StatusIsTrue' /\ Unacknowledged'
  BY <1>1, <1>5, <1>8, <1>13 DEF StatusIsTrue, CanAppend, Unacknowledged, Writing
<1>. QED BY <1>7, <1>10, <1>11, <1>12, <1>14 DEF LInv

\* Without ledger objects only the file matters.
LEMMA ProcessEndsStep ==
  ASSUME ProcessEnds
  PROVE  /\ ledger' \in [Ledgers -> Ledger] /\ held' \in BOOLEAN
         /\ Sole' /\ StatusIsTrue' /\ Unacknowledged'
<1>1. ledger' \in [Ledgers -> Ledger] /\ held' \in BOOLEAN
  BY DEF ProcessEnds, NewLedger, Ledger
<1>2. \A l \in Ledgers : ledger'[l].st = "new"
  BY DEF ProcessEnds, NewLedger
<1>. QED BY <1>1, <1>2 DEF Sole, OneWriter, Writing, StatusIsTrue, CanAppend, Unacknowledged

LEMMA CrashStep ==
  ASSUME LInv, Crash
  PROVE  LInv'
<1>1. ProcessEnds /\ UNCHANGED <<file, torn, durable, issued, acked, anchor, edited>>
  BY DEF Crash, fileVars
<1>2. TypeOK'
  BY <1>1, ProcessEndsStep DEF LInv, TypeOK, Written
<1>3. ChainSurvives' /\ Kept'
  BY <1>1 DEF LInv, ChainSurvives, Chained, HeadOf, Kept
<1>. QED BY <1>1, <1>2, <1>3, ProcessEndsStep DEF LInv

LEMMA PowerLossStep ==
  ASSUME LInv, PowerLoss
  PROVE  LInv'
<1>1. PICK kept \in durable .. Written :
       /\ file' = SubSeq(file, 1, IF kept > Len(file) THEN Len(file) ELSE kept)
       /\ torn' \in IF kept > Len(file) THEN {TRUE} ELSE {FALSE, kept < Written}
       /\ durable' = kept + IF torn' /\ kept <= Len(file) THEN 1 ELSE 0
  BY DEF PowerLoss
<1> DEFINE n == IF kept > Len(file) THEN Len(file) ELSE kept
<1>2. ProcessEnds /\ UNCHANGED <<issued, acked, anchor, edited>>
  BY DEF PowerLoss
<1>3. file \in Seq(AnyLine) /\ Len(file) \in Nat /\ durable \in Nat /\ Written \in Nat
  BY LenProperties DEF LInv, TypeOK, AnyLine, Written
<1>4. n \in 0 .. Len(file) /\ kept \in Nat /\ durable <= kept
  BY <1>3
<1>5. torn' \in BOOLEAN
  <2>1. CASE kept > Len(file)
    BY <1>1, <2>1
  <2>2. CASE ~(kept > Len(file)) /\ kept < Written
    <3>1. (kept < Written) = TRUE
      BY <2>2
    <3>. QED BY <1>1, <2>2, <3>1
  <2>3. CASE ~(kept > Len(file)) /\ ~(kept < Written)
    <3>1. (kept < Written) = FALSE
      BY <2>3
    <3>. QED BY <1>1, <2>3, <3>1
  <2>. QED BY <2>1, <2>2, <2>3
<1>6. file' = SubSeq(file, 1, n)
  BY <1>1
<1>7. file' \in Seq(AnyLine) /\ Len(file') = n /\ \A i \in 1 .. n : file'[i] = file[i]
  BY <1>3, <1>4, <1>6, PrefixProperties
<1>8. durable' \in Nat /\ durable <= durable' /\ durable' <= Written'
  <2>1. CASE kept > Len(file)
    <3>1. kept = Len(file) + 1 /\ torn' = TRUE /\ durable' = kept /\ n = Len(file)
      BY <1>1, <1>3, <2>1 DEF Written
    <3>. QED BY <1>3, <1>4, <1>7, <3>1 DEF Written
  <2>2. CASE ~(kept > Len(file))
    <3>1. n = kept /\ kept <= Len(file) /\ durable' = kept + IF torn' THEN 1 ELSE 0
      BY <1>1, <1>3, <1>4, <2>2
    <3>. QED BY <1>3, <1>4, <1>7, <3>1 DEF Written
  <2>. QED BY <2>1, <2>2
<1>9. Written' \in Nat
  <2>1. Len(file') \in Nat
    BY <1>7, LenProperties
  <2>2. CASE torn'
    BY <2>1, <2>2 DEF Written
  <2>3. CASE ~torn'
    BY <2>1, <2>3 DEF Written
  <2>. QED BY <2>2, <2>3
<1>10. TypeOK'
  BY <1>2, <1>7, <1>8, <1>9, <1>5, ProcessEndsStep DEF LInv, TypeOK, AnyLine
<1>11. ChainSurvives'
  <2>1. CASE edited
    BY <1>2, <2>1 DEF ChainSurvives
  <2>2. CASE ~edited
    <3>1. Chained(file)
      BY <2>2 DEF LInv, ChainSurvives
    <3>2. Chained(SubSeq(file, 1, n))
      BY <1>3, <1>4, <3>1, PrefixKeepsChain
    <3>. QED BY <1>6, <3>2 DEF ChainSurvives, Chained, HeadOf
  <2>. QED BY <2>1, <2>2
<1>12. Kept'
  <2>1. CASE edited
    BY <1>2, <2>1 DEF Kept
  <2>2. CASE ~edited
    <3>1. ASSUME NEW s \in acked PROVE s.seq <= durable' /\ s.seq <= Len(file') /\ file'[s.seq] = s
      <4>1. s.seq \in Nat \ {0} /\ s.seq <= durable /\ s.seq <= Len(file) /\ file[s.seq] = s
        BY <2>2 DEF LInv, TypeOK, Kept, Line
      <4>2. s.seq \in 1 .. n
        BY <1>3, <1>4, <4>1
      <4>. QED BY <1>3, <1>7, <1>8, <4>1, <4>2
    <3>. QED BY <1>2, <3>1 DEF Kept
  <2>. QED BY <2>1, <2>2
<1>. QED BY <1>2, <1>10, <1>11, <1>12, ProcessEndsStep DEF LInv

LEMMA NoteHeadStep ==
  ASSUME LInv, NEW l \in Ledgers, NoteHead(l)
  PROVE  LInv'
<1>1. CanAppend(l) /\ anchor' = file /\ UNCHANGED <<file, torn, durable, issued, held, ledger, acked, edited>>
  BY DEF NoteHead, fileVars
<1>2. anchor' \in Seq(Line)
  BY <1>1, ChainedIsLines DEF LInv, TypeOK, StatusIsTrue, Verifies, AnyLine
<1>3. TypeOK'
  BY <1>1, <1>2 DEF LInv, TypeOK, Written
<1>. QED
  BY <1>1, <1>3 DEF LInv, Sole, OneWriter, Writing, ChainSurvives, Kept, StatusIsTrue, CanAppend,
                    Unacknowledged, Verifies, Chained, HeadOf

\* What an editor can make of a sequence of lines is one of the same lines.
LEMMA EditsAreLines ==
  ASSUME NEW S, NEW s \in Seq(S), NEW i \in DOMAIN s, NEW v \in S
  PROVE  /\ RemoveAt(s, i) \in Seq(S)
         /\ ReplaceAt(s, i, v) \in Seq(S)
         /\ InsertAt(s, i, v) \in Seq(S)
<1>1. Len(s) \in Nat /\ i \in 1 .. Len(s) /\ \A j \in 1 .. Len(s) : s[j] \in S
  BY LenProperties, ElementOfSeq
<1>2. SubSeq(s, 1, i - 1) \in Seq(S)
  <2>1. i - 1 \in 0 .. Len(s)
    BY <1>1
  <2>. QED BY <2>1, PrefixProperties
<1>3. ASSUME NEW m \in {i, i + 1} PROVE SubSeq(s, m, Len(s)) \in Seq(S)
  <2>1. m \in Int /\ Len(s) \in Int /\ \A j \in m .. Len(s) : s[j] \in S
    BY <1>1
  <2>. QED BY <2>1, SubSeqProperties
<1>4. RemoveAt(s, i) \in Seq(S)
  BY <1>2, <1>3, ConcatProperties DEF RemoveAt
<1>5. ReplaceAt(s, i, v) \in Seq(S)
  BY <1>1, ExceptSeq DEF ReplaceAt
<1>6. SubSeq(s, 1, i - 1) \o <<v>> \in Seq(S)
  BY <1>2, ConcatProperties
<1>7. InsertAt(s, i, v) \in Seq(S)
  BY <1>3, <1>6, ConcatProperties DEF InsertAt
<1>. QED BY <1>4, <1>5, <1>7

LEMMA SwapsAreLines ==
  ASSUME NEW S, NEW s \in Seq(S), NEW i \in DOMAIN s, NEW j \in DOMAIN s
  PROVE  [s EXCEPT ![i] = s[j], ![j] = s[i]] \in Seq(S)
<1>1. i \in 1 .. Len(s) /\ j \in 1 .. Len(s)
  BY LenProperties
<1>2. s[i] \in S /\ s[j] \in S
  BY <1>1, ElementOfSeq
<1>3. [s EXCEPT ![i] = s[j]] \in Seq(S) /\ Len([s EXCEPT ![i] = s[j]]) = Len(s)
  BY <1>1, <1>2, ExceptSeq
<1>. QED BY <1>1, <1>2, <1>3, ExceptSeq

LEMMA EditedStep ==
  ASSUME LInv, NEW lines \in Seq(AnyLine), Edited(lines), issued' \subseteq Digests
  PROVE  LInv'
<1>1. /\ \A l \in Ledgers : ledger[l].st = "new"
      /\ file' = lines /\ edited' = TRUE /\ durable' = Len(lines) + IF torn THEN 1 ELSE 0
      /\ UNCHANGED <<torn, held, ledger, acked, anchor>>
  BY DEF Edited, NewLedger
<1>2. durable' \in 0 .. Written'
  <2>1. Len(lines) \in Nat
    BY LenProperties
  <2>. QED BY <1>1, <2>1 DEF Written
<1>3. TypeOK'
  BY <1>1, <1>2 DEF LInv, TypeOK, AnyLine
<1>4. Sole' /\ StatusIsTrue' /\ Unacknowledged'
  BY <1>1 DEF Sole, OneWriter, Writing, StatusIsTrue, CanAppend, Unacknowledged
<1>. QED BY <1>1, <1>3, <1>4 DEF LInv, ChainSurvives, Kept

LEMMA TamperStep ==
  ASSUME LInv, Tamper
  PROVE  LInv'
<1>1. PICK i, j \in DOMAIN file :
       \/ Edited(RemoveAt(file, i))
       \/ Edited(ReplaceAt(file, i, Garbled))
       \/ Edited([file EXCEPT ![i] = file[j], ![j] = file[i]])
       \/ Len(file) < MaxLength /\ Edited(InsertAt(file, i, file[j]))
  BY DEF Tamper
<1>2. file \in Seq(AnyLine) /\ issued' \subseteq Digests
  BY DEF LInv, TypeOK, AnyLine, Tamper
<1>3. file[i] \in AnyLine /\ file[j] \in AnyLine /\ Garbled \in AnyLine
  <2>1. DOMAIN file = 1 .. Len(file)
    BY <1>2, LenProperties
  <2>2. file[i] \in AnyLine /\ file[j] \in AnyLine
    BY <1>2, <2>1, ElementOfSeq
  <2>. QED BY <2>2 DEF AnyLine
<1>4. [file EXCEPT ![i] = file[j], ![j] = file[i]] \in Seq(AnyLine)
  BY <1>2, SwapsAreLines
<1>5. /\ RemoveAt(file, i) \in Seq(AnyLine)
      /\ ReplaceAt(file, i, Garbled) \in Seq(AnyLine)
      /\ InsertAt(file, i, file[j]) \in Seq(AnyLine)
  BY <1>2, <1>3, EditsAreLines
<1>. QED BY <1>1, <1>2, <1>4, <1>5, EditedStep

LEMMA ForgeStep ==
  ASSUME LInv, NEW d \in Digests, Forge(d)
  PROVE  LInv'
<1>1. PICK i \in DOMAIN file : file[i] # Garbled /\ Edited(ReplaceAt(file, i, [file[i] EXCEPT !.digest = d]))
  BY DEF Forge
<1>2. file \in Seq(AnyLine) /\ issued' \subseteq Digests
  BY DEF LInv, TypeOK, AnyLine, Forge
<1>3. file[i] \in Line
  <2>1. DOMAIN file = 1 .. Len(file)
    BY <1>2, LenProperties
  <2>2. file[i] \in AnyLine
    BY <1>2, <2>1, ElementOfSeq
  <2>. QED BY <1>1, <2>2 DEF AnyLine
<1>4. [file[i] EXCEPT !.digest = d] \in AnyLine
  BY <1>3 DEF Line, AnyLine
<1>5. ReplaceAt(file, i, [file[i] EXCEPT !.digest = d]) \in Seq(AnyLine)
  BY <1>2, <1>4, EditsAreLines
<1>. QED BY <1>1, <1>2, <1>5, EditedStep

LEMMA LStep == LInv /\ [Next]_vars => LInv'
<1> SUFFICES ASSUME LInv, [Next]_vars PROVE LInv'
  OBVIOUS
<1>1. CASE UNCHANGED vars
  BY <1>1 DEF vars, LInv, TypeOK, Written, Sole, OneWriter, Writing, ChainSurvives, Kept, StatusIsTrue,
              CanAppend, Unacknowledged, Verifies, Chained, HeadOf
<1>2. CASE \E l \in Ledgers : Open(l) \/ OpenFails(l)
  BY <1>2, OpenStep
<1>3. CASE \E l \in Ledgers : WriteFails(l)
  BY <1>3, WriteFailsStep
<1>4. CASE \E l \in Ledgers : SyncSucceeds(l)
  BY <1>4, SyncSucceedsStep
<1>5. CASE \E l \in Ledgers : SyncFails(l)
  BY <1>5, SyncFailsStep
<1>6. CASE \E l \in Ledgers : Close(l)
  BY <1>6, CloseStep
<1>7. CASE \E l \in Ledgers : NoteHead(l)
  BY <1>7, NoteHeadStep
<1>8. CASE \E l \in Ledgers : Attach(l) \/ Detach(l) \/ Refused(l)
  BY <1>8, AttachStep
<1>9. CASE \E l \in Ledgers, d \in Digests : Write(l, d)
  BY <1>9, WriteStep
<1>10. CASE \E d \in Digests : Forge(d)
  BY <1>10, ForgeStep
<1>11. CASE Crash
  BY <1>11, CrashStep
<1>12. CASE PowerLoss
  BY <1>12, PowerLossStep
<1>13. CASE Tamper
  BY <1>13, TamperStep
<1>. QED BY <1>1, <1>2, <1>3, <1>4, <1>5, <1>6, <1>7, <1>8, <1>9, <1>10, <1>11, <1>12, <1>13 DEF Next

LEMMA LHolds == Spec => []LInv
  BY LInit, LStep, PTL DEF Spec

-----------------------------------------------------------------------------
\* The process never has two descriptors that append to the path.
THEOREM OneLedgerWrites == Spec => []OneWriter
<1>1. LInv => OneWriter
  BY DEF LInv, Sole
<1>. QED BY <1>1, LHolds, PTL

\* Failed writes, failed fsyncs, restarts and power losses leave a chain that
\* verifies, but for at most one incomplete line at its end.
THEOREM ChainIsKept == Spec => []ChainSurvives
<1>1. LInv => ChainSurvives
  BY DEF LInv
<1>. QED BY <1>1, LHolds, PTL

\* A record that append() returned stays in the file, whatever fails afterwards.
THEOREM RecordsAreKept == Spec => []AcknowledgedSurvive
<1>1. LInv => AcknowledgedSurvive
  BY DEF LInv, Kept, AcknowledgedSurvive
<1>. QED BY <1>1, LHolds, PTL

\* A healthy open ledger reports what is in the file, and all it heard is there.
THEOREM HealthIsEvidence == Spec => []StatusIsTrue
<1>1. LInv => StatusIsTrue
  BY DEF LInv
<1>. QED BY <1>1, LHolds, PTL
-----------------------------------------------------------------------------
\* A noted head identifies the history before it.  Every digest ever computed
\* belongs to one line, wherever the editor puts that line; the links then lead
\* from the head back to the first line.

Recorded(s) == {s[i] : i \in DOMAIN s} \ {Garbled}
Records == Recorded(file) \union Recorded(anchor)

OneBody ==
  /\ \A r \in Records : r.digest \in issued
  /\ \A r, q \in Records : r.digest = q.digest => r = q

HInv == LInv /\ OneBody /\ Chained(anchor)

LEMMA RecordedLines ==
  ASSUME NEW s \in Seq(AnyLine)
  PROVE  /\ s \in Seq(Recorded(s) \union {Garbled})
         /\ Recorded(s) \subseteq Line
         /\ \A i \in 1 .. Len(s) : s[i] \in Recorded(s) \union {Garbled}
<1>1. Len(s) \in Nat /\ DOMAIN s = 1 .. Len(s) /\ s \in [1 .. Len(s) -> AnyLine]
  BY LenProperties
<1>2. \A i \in 1 .. Len(s) : s[i] \in Recorded(s) \union {Garbled}
  BY <1>1 DEF Recorded
<1>3. s \in [1 .. Len(s) -> Recorded(s) \union {Garbled}]
  BY <1>1, <1>2
<1>4. s \in Seq(Recorded(s) \union {Garbled})
  BY <1>1, <1>3
<1>5. Recorded(s) \subseteq Line
  BY <1>1 DEF Recorded, AnyLine
<1>. QED BY <1>2, <1>4, <1>5

LEMMA RecordedWithin ==
  ASSUME NEW S, NEW s \in Seq(S \union {Garbled})
  PROVE  Recorded(s) \subseteq S
<1>1. DOMAIN s = 1 .. Len(s)
  BY LenProperties
<1>. QED BY <1>1, ElementOfSeq DEF Recorded

\* Two chains that end in the same digest are the same lines.
LEMMA HeadsIdentify ==
  ASSUME NEW s \in Seq(AnyLine), NEW t \in Seq(AnyLine), Chained(s), Chained(t),
         \A r, q \in Recorded(s) \union Recorded(t) : r.digest = q.digest => r = q,
         HeadOf(s) = HeadOf(t)
  PROVE  s = t
<1>1. /\ s \in Seq(Line) /\ t \in Seq(Line) /\ Len(s) \in Nat /\ Len(t) \in Nat
      /\ DOMAIN s = 1 .. Len(s) /\ DOMAIN t = 1 .. Len(t)
  BY ChainedIsLines, LenProperties
<1>2. Linked(s) /\ Linked(t)
  BY ChainedIsLinked
<1>3. ASSUME NEW i \in 1 .. Len(s), NEW j \in 1 .. Len(t), s[i].digest = t[j].digest
      PROVE  s[i] = t[j] /\ i = j
  <2>1. s[i] \in Recorded(s) /\ t[j] \in Recorded(t)
    BY <1>1, <1>2 DEF Recorded, Linked
  <2>2. s[i] = t[j]
    BY <1>3, <2>1
  <2>. QED BY <1>2, <2>2 DEF Linked
<1>4. CASE s = <<>> \/ t = <<>>
  <2>1. ASSUME NEW u \in Seq(Line), u # <<>> PROVE HeadOf(u) # None
    <3>1. Len(u) \in 1 .. Len(u)
      BY <2>1, EmptySeq
    <3>2. u[Len(u)] \in Line
      BY <3>1, ElementOfSeq
    <3>. QED BY <2>1, <3>2, LedgerParameters DEF HeadOf, Last, Line
  <2>2. HeadOf(<<>>) = None
    BY DEF HeadOf
  <2>. QED BY <1>1, <1>4, <2>1, <2>2
<1>5. CASE s # <<>> /\ t # <<>>
  <2>1. Len(s) \in 1 .. Len(s) /\ Len(t) \in 1 .. Len(t)
    BY <1>1, <1>5, EmptySeq
  <2>2. s[Len(s)].digest = t[Len(t)].digest
    BY <1>5 DEF HeadOf, Last
  <2>3. Len(s) = Len(t) /\ s[Len(s)] = t[Len(s)]
    BY <1>3, <2>1, <2>2
  <2> DEFINE n == Len(s)
             Differ == {k \in 0 .. n - 1 : s[n - k] # t[n - k]}
  <2>4. Differ = {}
    <3> SUFFICES ASSUME Differ # {} PROVE FALSE
      OBVIOUS
    <3>1. Differ \subseteq Nat
      OBVIOUS
    <3>2. PICK m \in Differ : \A k \in Differ : m <= k
      <4> HIDE DEF Differ
      <4>. QED BY <3>1, LeastElement
    <3>3. m \in 0 .. n - 1 /\ m # 0 /\ s[n - m] # t[n - m]
      BY <2>3
    <3>4. m - 1 \in 0 .. n - 1 /\ m - 1 \notin Differ
      <4>1. m - 1 \in 0 .. n - 1 /\ ~(m <= m - 1)
        BY <1>1, <3>3
      <4> HIDE DEF Differ
      <4>. QED BY <3>2, <4>1
    <3> DEFINE i == n - m + 1
    <3>5. i \in 1 .. n /\ i # 1 /\ i - 1 = n - m /\ n - (m - 1) = i /\ i - 1 \in 1 .. n
      BY <1>1, <3>3
    <3>6. s[i] = t[i]
      BY <3>4, <3>5
    <3> HIDE DEF i, Differ
    <3>7. s[i - 1].digest = t[i - 1].digest
      <4>1. s[i].prev = s[i - 1].digest
        BY <1>2, <3>5 DEF Linked
      <4>2. t[i].prev = t[i - 1].digest
        BY <1>2, <2>3, <3>5 DEF Linked
      <4>. QED BY <3>6, <4>1, <4>2
    <3>. QED BY <1>3, <2>3, <3>3, <3>5, <3>7
  <2>5. \A i \in 1 .. n : s[i] = t[i]
    <3> SUFFICES ASSUME NEW i \in 1 .. n PROVE s[i] = t[i]
      OBVIOUS
    <3>1. n - i \in 0 .. n - 1 /\ n - (n - i) = i
      BY <1>1
    <3>. QED BY <2>4, <3>1
  <2>. QED BY <1>1, <2>3, <2>5, SeqEqual
<1>. QED BY <1>4, <1>5

\* Nothing but a new digest adds a line to what there is.
LEMMA OldRecords ==
  ASSUME OneBody, Records' \subseteq Records, issued \subseteq issued'
  PROVE  OneBody'
  BY DEF OneBody

LEMMA NewRecord ==
  ASSUME OneBody, NEW r, NEW d, d \notin issued, r.digest = d,
         Records' \subseteq Records \union {r}, issued' = issued \union {d}
  PROVE  OneBody'
  BY DEF OneBody

LEMMA HInit == Init => HInv
<1> SUFFICES ASSUME Init PROVE HInv
  OBVIOUS
<1>1. file = <<>> /\ anchor = <<>>
  BY DEF Init
<1>2. Recorded(<<>>) = {}
  BY DEF Recorded
<1>3. Chained(anchor)
  <2>1. <<>> \in Seq(AnyLine) /\ Len(<<>>) = 0
    BY EmptySeq
  <2>2. Linked(<<>>)
    BY <2>1 DEF Linked
  <2>. QED BY <1>1, <2>1, <2>2, ChainedIsLinked
<1>4. OneBody
  BY <1>1, <1>2 DEF OneBody, Records
<1>. QED BY <1>3, <1>4, LInit DEF HInv

\* A file of old lines only.
LEMMA OldLines ==
  ASSUME LInv, OneBody, file' \in Seq(Recorded(file) \union {Garbled}), anchor' = anchor,
         issued' = issued
  PROVE  OneBody'
<1>1. Recorded(file)' \subseteq Recorded(file) /\ Recorded(anchor)' = Recorded(anchor)
  BY RecordedWithin DEF Recorded
<1>2. Records' \subseteq Records
  BY <1>1 DEF Records
<1>. QED BY <1>2, OldRecords

\* A file of old lines and one whose digest is new.
LEMMA OneNewLine ==
  ASSUME LInv, OneBody, NEW d \in Digests \ issued, NEW r \in Line, r.digest = d,
         file' \in Seq((Recorded(file) \union {r}) \union {Garbled}), anchor' = anchor,
         issued' = issued \union {d}
  PROVE  OneBody'
<1>1. Recorded(file)' \subseteq Recorded(file) \union {r} /\ Recorded(anchor)' = Recorded(anchor)
  BY RecordedWithin DEF Recorded
<1>2. Records' \subseteq Records \union {r}
  BY <1>1 DEF Records
<1>. QED BY <1>2, NewRecord

LEMMA HStep == HInv /\ [Next]_vars => HInv'
<1> SUFFICES ASSUME LInv, OneBody, Chained(anchor), [Next]_vars PROVE OneBody' /\ Chained(anchor)'
  BY LStep DEF HInv
<1>1. /\ file \in Seq(AnyLine)
      /\ file \in Seq(Recorded(file) \union {Garbled})
      /\ Recorded(file) \subseteq Line /\ DOMAIN file = 1 .. Len(file) /\ Len(file) \in Nat
      /\ \A i \in 1 .. Len(file) : file[i] \in Recorded(file) \union {Garbled}
  BY RecordedLines, LenProperties DEF LInv, TypeOK, AnyLine
<1>2. CASE UNCHANGED <<file, anchor, issued>>
  BY <1>2 DEF OneBody, Records, Recorded, Chained, HeadOf
<1>3. ASSUME NEW l \in Ledgers, NoteHead(l) PROVE OneBody' /\ Chained(anchor)'
  <2>1. anchor' = file /\ file' = file /\ issued' = issued /\ Chained(file)
    BY <1>3 DEF NoteHead, fileVars, LInv, StatusIsTrue, Verifies
  <2>2. Recorded(file)' = Recorded(file) /\ Recorded(anchor)' = Recorded(file)
    BY <2>1 DEF Recorded
  <2>3. Records' \subseteq Records
    BY <2>2 DEF Records
  <2>. QED BY <2>1, <2>3, OldRecords DEF Chained, HeadOf
<1>4. ASSUME NEW l \in Ledgers, NEW d \in Digests, Write(l, d) PROVE OneBody' /\ Chained(anchor)'
  <2> DEFINE r == [seq |-> ledger[l].count + 1, prev |-> ledger[l].head, digest |-> d]
  <2>1. /\ file' = Append(file, r) /\ issued' = issued \union {d} /\ d \notin issued
        /\ anchor' = anchor
    BY <1>4 DEF Write
  <2>2. r \in Line /\ r.digest = d
    BY DEF LInv, TypeOK, Ledger, Line
  <2> HIDE DEF r
  <2>3. file \in Seq((Recorded(file) \union {r}) \union {Garbled})
    BY <1>1, SeqMonotonic
  <2>4. file' \in Seq((Recorded(file) \union {r}) \union {Garbled})
    BY <2>1, <2>3, AppendProperties
  <2>5. OneBody'
    BY <2>1, <2>2, <2>4, OneNewLine
  <2>. QED BY <2>1, <2>5 DEF Chained, HeadOf
<1>5. CASE PowerLoss
  <2>1. PICK kept \in durable .. Written :
         file' = SubSeq(file, 1, IF kept > Len(file) THEN Len(file) ELSE kept)
    BY <1>5 DEF PowerLoss
  <2> DEFINE n == IF kept > Len(file) THEN Len(file) ELSE kept
  <2>2. n \in 0 .. Len(file)
    BY <1>1 DEF LInv, TypeOK, Written
  <2>3. file' \in Seq(Recorded(file) \union {Garbled})
    BY <1>1, <2>1, <2>2, PrefixProperties
  <2>4. anchor' = anchor /\ issued' = issued
    BY <1>5 DEF PowerLoss
  <2>. QED BY <2>3, <2>4, OldLines DEF Chained, HeadOf
<1>6. CASE Tamper
  <2>1. PICK i, j \in DOMAIN file :
         \/ Edited(RemoveAt(file, i))
         \/ Edited(ReplaceAt(file, i, Garbled))
         \/ Edited([file EXCEPT ![i] = file[j], ![j] = file[i]])
         \/ Len(file) < MaxLength /\ Edited(InsertAt(file, i, file[j]))
    BY <1>6 DEF Tamper
  <2> DEFINE S == Recorded(file) \union {Garbled}
  <2>2. file \in Seq(S) /\ file[j] \in S /\ Garbled \in S
    BY <1>1
  <2> HIDE DEF S
  <2>3. /\ RemoveAt(file, i) \in Seq(S) /\ InsertAt(file, i, file[j]) \in Seq(S)
        /\ ReplaceAt(file, i, Garbled) \in Seq(S)
        /\ [file EXCEPT ![i] = file[j], ![j] = file[i]] \in Seq(S)
    BY <2>2, EditsAreLines, SwapsAreLines
  <2>4. file' \in Seq(S) /\ anchor' = anchor /\ issued' = issued
    BY <1>6, <2>1, <2>3 DEF Edited, Tamper
  <2>. QED BY <2>4, OldLines DEF Chained, HeadOf, S
<1>7. ASSUME NEW d \in Digests, Forge(d) PROVE OneBody' /\ Chained(anchor)'
  <2>1. PICK i \in DOMAIN file : file[i] # Garbled /\ Edited(ReplaceAt(file, i, [file[i] EXCEPT !.digest = d]))
    BY <1>7 DEF Forge
  <2> DEFINE r == [file[i] EXCEPT !.digest = d]
             S == (Recorded(file) \union {r}) \union {Garbled}
  <2>2. file[i] \in Line
    BY <1>1, <2>1
  <2>3. r \in Line /\ r.digest = d
    BY <2>2 DEF Line
  <2>4. file \in Seq(S) /\ r \in S
    BY <1>1, SeqMonotonic
  <2>5. file' = ReplaceAt(file, i, r) /\ anchor' = anchor /\ issued' = issued \union {d} /\ d \notin issued
    BY <1>7, <2>1 DEF Edited, Forge
  <2> HIDE DEF S, r
  <2>6. file' \in Seq(S)
    BY <2>4, <2>5, EditsAreLines
  <2>7. OneBody'
    BY <2>3, <2>5, <2>6, OneNewLine DEF S
  <2>. QED BY <2>5, <2>7 DEF Chained, HeadOf
<1>8. ASSUME NEW l \in Ledgers,
             \/ Open(l) \/ OpenFails(l) \/ WriteFails(l) \/ SyncSucceeds(l) \/ SyncFails(l)
             \/ Close(l) \/ Attach(l) \/ Detach(l) \/ Refused(l)
      PROVE  UNCHANGED <<file, anchor, issued>>
  BY <1>8 DEF Open, OpenFails, WriteFails, SyncSucceeds, SyncFails, Close, Attach, Detach, Refused, fileVars
<1>9. CASE Crash \/ UNCHANGED vars
  BY <1>2, <1>9 DEF Crash, fileVars, vars
<1>. QED BY <1>2, <1>3, <1>4, <1>5, <1>6, <1>7, <1>8, <1>9 DEF Next

\* A head noted in a trusted place identifies every line before it: no deletion,
\* repetition, reordering, rewriting or truncation verifies to that head, in a
\* history of any length.
THEOREM NotedHeadIsEvidence == Spec => []NotedHeadIdentifiesHistory
<1>1. HInv => NotedHeadIdentifiesHistory
  <2> SUFFICES ASSUME HInv, Verifies, HeadOf(file) = HeadOf(anchor) PROVE file = anchor
    BY DEF NotedHeadIdentifiesHistory
  <2>1. file \in Seq(AnyLine) /\ anchor \in Seq(AnyLine)
    BY SeqMonotonic DEF HInv, LInv, TypeOK, AnyLine
  <2>2. \A r, q \in Recorded(file) \union Recorded(anchor) : r.digest = q.digest => r = q
    BY DEF HInv, OneBody, Records
  <2>. QED BY <2>1, <2>2, HeadsIdentify DEF HInv, Verifies
<1>. QED BY <1>1, HInit, HStep, PTL DEF Spec
=============================================================================
