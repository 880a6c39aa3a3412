------------------------- MODULE SceneDeliveriesProofs -------------------------
(* What SceneDeliveries keeps, for every set of alerts, of pages and of faults *)
(* and every bound on them.                                                    *)
EXTENDS SceneDeliveries, FiniteSetTheorems, SequenceTheorems, WellFoundedInduction, TLAPS

--------------------------------------------------------------------------------
\* Sequences

\* The numbers of a set that is not empty have a least one.
LEMMA LeastExists ==
    ASSUME NEW B \in SUBSET Nat, B # {}
    PROVE  \E n \in B : \A m \in B : n <= m
<1> DEFINE Before == {ss \in Nat \X Nat : ss[1] < ss[2]}
<1>1. IsWellFoundedOn(Before, Nat)
  BY NatLessThanWellFounded DEF OpToRel
<1> HIDE DEF Before
<1>2. PICK n \in B : \A m \in B : ~(<<m, n>> \in Before)
  BY <1>1, WFMin, Zenon
<1>3. \A m \in B : ~(m < n)
  BY <1>2 DEF Before
<1> QED
  BY <1>3

\* f[i] is what Without keeps of the first i elements.
Kept(s, S, f, n) ==
    f = [i \in 0 .. n |-> IF i = 0 THEN << >>
                          ELSE IF s[i] \in S THEN f[i - 1] ELSE Append(f[i - 1], s[i])]

LEMMA KeptExists ==
    ASSUME NEW s, NEW S, NEW n \in Nat
    PROVE  \E f : Kept(s, S, f, n)
<1> DEFINE Fails == {m \in Nat : \A f : ~ Kept(s, S, f, m)}
<1> SUFFICES ASSUME Fails # {} PROVE FALSE
  OBVIOUS
<1>1. PICK m \in Fails : \A k \in Fails : m <= k
  BY LeastExists
<1>2. CASE m = 0
  <2>1. Kept(s, S, [i \in 0 .. 0 |-> << >>], 0)
    BY DEF Kept
  <2> QED
    BY <1>2, <2>1
<1>3. CASE m # 0
  <2>1. m - 1 \in Nat /\ m - 1 \notin Fails
    BY <1>1, <1>3
  <2>2. PICK g : Kept(s, S, g, m - 1)
    BY <2>1
  <2> DEFINE f == [i \in 0 .. m |->
                     IF i = m THEN IF s[m] \in S THEN g[m - 1] ELSE Append(g[m - 1], s[m])
                     ELSE g[i]]
  <2>3. \A i \in 0 .. m - 1 : f[i] = g[i]
    OBVIOUS
  <2>4. \A i \in 0 .. m : f[i] = IF i = 0 THEN << >>
                                 ELSE IF s[i] \in S THEN f[i - 1] ELSE Append(f[i - 1], s[i])
    <3> TAKE i \in 0 .. m
    <3>1. CASE i = m
      BY <1>3, <2>3, <3>1
    <3>2. CASE i # m
      <4>1. i \in 0 .. m - 1 /\ (i # 0 => i - 1 \in 0 .. m - 1)
        BY <3>2
      <4>2. g[i] = IF i = 0 THEN << >>
                   ELSE IF s[i] \in S THEN g[i - 1] ELSE Append(g[i - 1], s[i])
        BY <2>2, <4>1 DEF Kept
      <4> HIDE DEF f
      <4> QED
        BY <2>3, <4>1, <4>2
    <3> QED
      BY <3>1, <3>2
  <2>5. f = [i \in 0 .. m |-> f[i]]
    OBVIOUS
  <2> HIDE DEF f
  <2>6. Kept(s, S, f, m)
    BY <2>4, <2>5 DEF Kept
  <2> QED
    BY <2>6
<1> QED
  BY <1>2, <1>3

LEMMA WithoutKeeps ==
    ASSUME NEW s, NEW S, Len(s) \in Nat
    PROVE  \E f : Kept(s, S, f, Len(s)) /\ Without(s, S) = f[Len(s)]
<1> DEFINE F == CHOOSE f : Kept(s, S, f, Len(s))
<1>1. Kept(s, S, F, Len(s))
  BY KeptExists
<1>2. Without(s, S) = F[Len(s)]
  BY DEF Without, Kept
<1> QED
  BY <1>1, <1>2

\* No element comes twice.
Distinct(s) == \A i, j \in DOMAIN s : s[i] = s[j] => i = j

LEMMA AppendElements ==
    ASSUME NEW A, NEW s \in Seq(A), NEW e
    PROVE  /\ Elements(Append(s, e)) = Elements(s) \cup {e}
           /\ Distinct(s) /\ e \notin Elements(s) => Distinct(Append(s, e))
<1>1. /\ DOMAIN Append(s, e) = 1 .. Len(s) + 1
      /\ DOMAIN s = 1 .. Len(s) /\ Len(s) \in Nat
      /\ Append(s, e)[Len(s) + 1] = e
      /\ \A i \in 1 .. Len(s) : Append(s, e)[i] = s[i]
  OBVIOUS
<1> QED
  BY <1>1 DEF Elements, Distinct

LEMMA TailElements ==
    ASSUME NEW A, NEW s \in Seq(A), s # << >>
    PROVE  /\ Head(s) \in A /\ Tail(s) \in Seq(A)
           /\ Elements(s) = {Head(s)} \cup Elements(Tail(s))
           /\ Distinct(s) => Distinct(Tail(s)) /\ Head(s) \notin Elements(Tail(s))
<1>1. /\ Len(s) \in Nat \ {0} /\ DOMAIN s = 1 .. Len(s) /\ Head(s) = s[1]
      /\ DOMAIN Tail(s) = 1 .. Len(s) - 1
      /\ \A i \in 1 .. Len(s) - 1 : Tail(s)[i] = s[i + 1]
  OBVIOUS
<1>2. Head(s) \in A /\ Tail(s) \in Seq(A)
  BY <1>1
<1>3. Elements(s) \subseteq {Head(s)} \cup Elements(Tail(s))
  <2> SUFFICES ASSUME NEW i \in 1 .. Len(s), i # 1
               PROVE  s[i] \in Elements(Tail(s))
    BY <1>1 DEF Elements
  <2>1. i - 1 \in 1 .. Len(s) - 1 /\ s[i] = Tail(s)[i - 1]
    BY <1>1
  <2> QED
    BY <1>1, <2>1 DEF Elements
<1>4. Elements(Tail(s)) \subseteq Elements(s) /\ Head(s) \in Elements(s)
  BY <1>1 DEF Elements
<1>5. ASSUME Distinct(s)
      PROVE  Distinct(Tail(s)) /\ Head(s) \notin Elements(Tail(s))
  BY <1>1, <1>5 DEF Distinct, Elements
<1> QED
  BY <1>2, <1>3, <1>4, <1>5

\* What t keeps of the first n elements of s.
KeepsFirst(s, S, A, t, n) ==
    /\ t \in Seq(A)
    /\ Elements(t) = {s[i] : i \in 1 .. n} \ S
    /\ Distinct(s) => Distinct(t)

LEMMA KeptAre ==
    ASSUME NEW A, NEW s \in Seq(A), NEW S, NEW f, Kept(s, S, f, Len(s))
    PROVE  \A n \in 0 .. Len(s) : KeepsFirst(s, S, A, f[n], n)
<1> DEFINE Fails == {n \in 0 .. Len(s) : ~ KeepsFirst(s, S, A, f[n], n)}
<1> SUFFICES ASSUME Fails # {} PROVE FALSE
  OBVIOUS
<1>1. Len(s) \in Nat /\ Fails \in SUBSET Nat
  OBVIOUS
<1>2. \A i \in 0 .. Len(s) : f[i] = IF i = 0 THEN << >>
                                    ELSE IF s[i] \in S THEN f[i - 1] ELSE Append(f[i - 1], s[i])
  BY DEF Kept
<1>3. PICK n \in Fails : \A k \in Fails : n <= k
  BY <1>1, LeastExists
<1>4. CASE n = 0
  <2>1. 0 \in 0 .. Len(s)
    BY <1>1
  <2>2. f[0] = << >>
    BY <1>2, <2>1
  <2>3. << >> \in Seq(A) /\ Elements(<< >>) = {} /\ Distinct(<< >>)
    BY DEF Elements, Distinct
  <2>4. {s[i] : i \in 1 .. 0} = {}
    OBVIOUS
  <2> QED
    BY <1>4, <2>3, <2>4, <2>2 DEF KeepsFirst
<1>5. CASE n # 0
  <2>1. n \in 1 .. Len(s) /\ n - 1 \in 0 .. Len(s) /\ n - 1 \notin Fails
    BY <1>3, <1>5
  <2>2. KeepsFirst(s, S, A, f[n - 1], n - 1)
    BY <2>1
  <2>3. f[n] = IF s[n] \in S THEN f[n - 1] ELSE Append(f[n - 1], s[n])
    BY <1>5, <1>2, <2>1
  <2>4. s[n] \in A /\ DOMAIN s = 1 .. Len(s)
    BY <2>1
  <2>5. {s[i] : i \in 1 .. n} = {s[i] : i \in 1 .. n - 1} \cup {s[n]}
    BY <2>1
  <2>6. Distinct(s) => s[n] \notin {s[i] : i \in 1 .. n - 1}
    BY <2>1, <2>4 DEF Distinct
  <2>7. KeepsFirst(s, S, A, f[n], n)
    <3> DEFINE t == f[n - 1]
    <3>1. t \in Seq(A) /\ (Distinct(s) => Distinct(t))
      BY <2>2 DEF KeepsFirst
    <3>2. Elements(t) = {s[i] : i \in 1 .. n - 1} \ S
      BY <2>2 DEF KeepsFirst
    <3> HIDE DEF t
    <3>3. Append(t, s[n]) \in Seq(A)
      BY <2>4, <3>1
    <3>4. CASE s[n] \in S
      <4>1. f[n] = t
        BY <2>3, <3>4 DEF t
      <4>2. Elements(t) = {s[i] : i \in 1 .. n} \ S
        BY <2>5, <3>2, <3>4
      <4> QED
        BY <3>1, <4>1, <4>2 DEF KeepsFirst
    <3>5. CASE s[n] \notin S
      <4>1. f[n] = Append(t, s[n])
        BY <2>3, <3>5 DEF t
      <4>2. Elements(f[n]) = Elements(t) \cup {s[n]}
        BY <3>1, <4>1, AppendElements
      <4>3. Elements(f[n]) = {s[i] : i \in 1 .. n} \ S
        BY <2>5, <3>2, <3>5, <4>2
      <4>4. Distinct(s) => Distinct(f[n])
        BY <2>6, <3>1, <3>2, <4>1, AppendElements
      <4> QED
        BY <3>3, <4>1, <4>3, <4>4 DEF KeepsFirst
    <3> QED
      BY <3>4, <3>5
  <2> QED
    BY <2>1, <2>7
<1> QED
  BY <1>4, <1>5

\* Without takes the elements of S out, and no others.
LEMMA WithoutIs ==
    ASSUME NEW A, NEW s \in Seq(A), NEW S
    PROVE  /\ Without(s, S) \in Seq(A)
           /\ Elements(Without(s, S)) = Elements(s) \ S
           /\ Distinct(s) => Distinct(Without(s, S))
<1>1. Len(s) \in Nat /\ DOMAIN s = 1 .. Len(s)
  OBVIOUS
<1>2. PICK f : Kept(s, S, f, Len(s)) /\ Without(s, S) = f[Len(s)]
  BY <1>1, WithoutKeeps
<1>3. KeepsFirst(s, S, A, f[Len(s)], Len(s))
  BY <1>1, <1>2, KeptAre
<1> QED
  BY <1>1, <1>2, <1>3 DEF KeepsFirst, Elements

\* A sequence without repeats is as long as the set of its elements is large.
LEMMA DistinctIsCounted ==
    ASSUME NEW A, NEW s \in Seq(A)
    PROVE  /\ IsFiniteSet(Elements(s)) /\ Cardinality(Elements(s)) \in Nat
           /\ Cardinality(Elements(s)) = Len(s) <=> Distinct(s)
<1>1. /\ Len(s) \in Nat /\ DOMAIN s = 1 .. Len(s)
      /\ s \in [1 .. Len(s) -> Elements(s)]
  BY DEF Elements
<1>2. IsFiniteSet(1 .. Len(s)) /\ Cardinality(1 .. Len(s)) = Len(s)
  BY <1>1, FS_Interval
<1>3. s \in Surjection(1 .. Len(s), Elements(s))
  BY <1>1 DEF Surjection, Elements
<1>4. IsFiniteSet(Elements(s))
  BY <1>2, <1>3, FS_Surjection
<1>5. Cardinality(Elements(s)) \in Nat
  BY <1>4, FS_CardinalityType
<1>6. Cardinality(Elements(s)) = Len(s) <=> s \in Injection(1 .. Len(s), Elements(s))
  BY <1>2, <1>3, FS_Surjection
<1>7. s \in Injection(1 .. Len(s), Elements(s)) <=> Distinct(s)
  BY <1>1 DEF Injection, Distinct, IsInjective
<1> QED
  BY <1>4, <1>5, <1>6, <1>7

--------------------------------------------------------------------------------
\* Rows

\* The acknowledgements and handlers a row may end by are about alerts some
\* page has finished, and the cancels about alerts an operator has ended.
Earned ==
    /\ open \in [Alerts -> Entries \cup {"none"}]
    /\ handling \subseteq Handlers
    /\ \A h \in handling : h.alert \in shown
    /\ \A q \in posts : q.kind = "completed" => q.alert \in shown
    /\ closing \subseteq skipped

LostInv == Earned /\ NothingLost

\* Starting: every alert with a history has its row, and nothing is under way.
LEMMA LostInit == Init => LostInv
BY DEF Init, LostInv, Earned, NothingLost

\* A row ends with a completion written for an alert some page has finished,
\* or with the write of a cancel.
LEMMA RowEnds ==
    ASSUME LostInv,
           \/ \E h \in handling : CompletionWritten(h)
           \/ \E a \in Alerts : CancelWritten(a)
    PROVE  LostInv'
<1>1. CASE \E h \in handling : CompletionWritten(h)
  <2> PICK h \in handling : CompletionWritten(h)
    BY <1>1
  <2>1. /\ row' = row \ {h.alert} /\ UNCHANGED <<open, posts, closing, made, shown, skipped>>
        /\ handling' = (handling \ {h}) \cup {[h EXCEPT !.written = TRUE]}
    BY DEF CompletionWritten, storeVars, historyVars
  <2>2. /\ [h EXCEPT !.written = TRUE] \in Handlers
        /\ [h EXCEPT !.written = TRUE].alert = h.alert
    BY DEF LostInv, Earned, Handlers
  <2> QED
    BY <2>1, <2>2 DEF LostInv, Earned, NothingLost
<1>2. CASE \E a \in Alerts : CancelWritten(a)
  BY <1>2 DEF CancelWritten, LostInv, Earned, NothingLost, storeVars, historyVars
<1> QED
  BY <1>1, <1>2

\* The steps of the store that leave every row in place.
LEMMA StoreKeeps ==
    ASSUME LostInv,
           \/ \E a \in Alerts :
                Record(a) \/ RecordReturns(a) \/ RecordUnanswered(a) \/ Sweep(a)
                  \/ CancelFails(a) \/ FetchOpens(a) \/ FetchFails(a)
           \/ \E p \in Pages, a \in Alerts :
                AckDelivered(p, a) \/ AckDeliveredFails(p, a) \/ MarkStarted(p, a)
           \/ \E h \in handling : AckCloses(h)
           \/ SkipCurrent \/ ClearQueued \/ ListOpen \/ ListFails
    PROVE  LostInv'
<1> USE DEF LostInv, Earned, NothingLost
<1>1. ASSUME NEW a \in Alerts,
             Record(a) \/ RecordReturns(a) \/ RecordUnanswered(a) \/ Sweep(a) \/ CancelFails(a)
      PROVE  LostInv'
  BY <1>1 DEF Record, RecordReturns, RecordUnanswered, Sweep, CancelFails, Open, Entries,
              storeVars, workVars, historyVars
<1>2. ASSUME NEW a \in Alerts, FetchOpens(a) \/ FetchFails(a)
      PROVE  LostInv'
  BY <1>2 DEF FetchOpens, FetchFails, Open, Entries, storeVars, workVars, historyVars
<1>3. ASSUME NEW p \in Pages, NEW a \in Alerts,
             AckDelivered(p, a) \/ AckDeliveredFails(p, a) \/ MarkStarted(p, a)
      PROVE  LostInv'
  BY <1>3 DEF AckDelivered, AckDeliveredFails, MarkStarted, workVars, historyVars
<1>4. ASSUME NEW h \in handling, AckCloses(h)
      PROVE  LostInv'
  BY <1>4 DEF AckCloses, Close, storeVars
<1>5. CASE SkipCurrent \/ ClearQueued
  BY <1>5 DEF SkipCurrent, ClearQueued, CancelAlerts, Close
<1>6. CASE ListOpen \/ ListFails
  BY <1>6 DEF ListOpen, ListFails, storeVars, workVars, historyVars
<1> QED
  BY <1>1, <1>2, <1>3, <1>4, <1>5, <1>6

\* An acknowledgement becomes a handler, and a handler that failed or was cut
\* by a restart the acknowledgement it was.
LEMMA AcksEarned ==
    ASSUME LostInv,
           \/ \E p \in Pages, a \in Alerts : AckCompleted(p, a)
           \/ \E h \in handling : CompletionFails(h)
           \/ \E q \in posts : GiveUp(q)
           \/ Restart
    PROVE  LostInv'
<1> USE DEF LostInv, Earned, NothingLost
<1>1. ASSUME NEW p \in Pages, NEW a \in Alerts, AckCompleted(p, a)
      PROVE  LostInv'
  <2> DEFINE h == [alert |-> a, found |-> open[a], written |-> FALSE, waits |-> {p}]
  <2>1. /\ Post("completed", p, a) \in posts
        /\ handling' = handling \cup {h}
        /\ posts' \subseteq posts
        /\ UNCHANGED <<open, row, closing, made, shown, skipped>>
    BY <1>1 DEF AckCompleted, storeVars, historyVars
  <2>2. a \in shown
    BY <2>1 DEF Post
  <2>3. h \in Handlers /\ h.alert = a
    BY DEF Handlers
  <2> HIDE DEF h
  <2> QED
    BY <2>1, <2>2, <2>3
<1>2. ASSUME NEW h \in handling, CompletionFails(h)
      PROVE  LostInv'
  BY <1>2 DEF CompletionFails, Post, storeVars, historyVars
<1>3. ASSUME NEW q \in posts, GiveUp(q)
      PROVE  LostInv'
  BY <1>3 DEF GiveUp, storeVars, workVars
<1>4. CASE Restart
  BY <1>4 DEF Restart, Post, Entries
<1> QED
  BY <1>1, <1>2, <1>3, <1>4

\* A page that loads leaves nothing but what the store is handling.
LEMMA LoadEarned ==
    ASSUME LostInv, NEW p \in Pages, Load(p),
           UNCHANGED <<row, open, closing, made, shown, skipped>>
    PROVE  LostInv'
<1> USE DEF LostInv, Earned
<1>1. ASSUME NEW h \in handling
      PROVE  /\ [h EXCEPT !.waits = @ \ {p}] \in Handlers
             /\ [h EXCEPT !.waits = @ \ {p}].alert = h.alert
  BY DEF Handlers
<1>2. /\ posts' \subseteq posts
      /\ handling' = {[h EXCEPT !.waits = @ \ {p}] : h \in handling}
  BY DEF Load
<1>3. handling' \subseteq Handlers /\ \A g \in handling' : g.alert \in shown
  BY <1>1, <1>2
<1> QED
  BY <1>2, <1>3 DEF NothingLost

\* What pump adds is no completed acknowledgement but those it is given.
LEMMA PumpPosts ==
    ASSUME NEW p, NEW q, NEW on, NEW fin, NEW acks, Pump(p, q, on, fin, acks)
    PROVE  \A x \in posts' : x \in posts \cup acks \/ x.kind # "completed"
BY DEF Pump, Post

\* Lines and pages: only a page that finishes an alert acknowledges it as
\* completed.
LEMMA PagesEarn ==
    ASSUME LostInv, NEW p \in Pages,
           \/ Subscribe(p) \/ Drop(p) \/ FrameLost(p) \/ Reload(p) \/ Mount(p) \/ Finish(p)
           \/ ReadDelivery(p) \/ ReadCancel(p) \/ ReadOpenSet(p) \/ ReadHello(p)
           \/ ReadOtherBoot(p)
    PROVE  LostInv'
<1> USE DEF LostInv, Earned, NothingLost
<1>1. CASE Subscribe(p) \/ Drop(p) \/ FrameLost(p) \/ Mount(p) \/ ReadHello(p)
  BY <1>1 DEF Subscribe, Drop, FrameLost, Mount, ReadHello, storeVars, workVars, historyVars
<1>2. CASE Reload(p) \/ ReadOtherBoot(p)
  BY <1>2, LoadEarned DEF Reload, ReadOtherBoot, storeVars, historyVars
<1>3. CASE ReadDelivery(p) \/ ReadCancel(p) \/ ReadOpenSet(p)
  <2>1. \A x \in posts' : x \in posts \/ x.kind # "completed"
    <3>1. CASE ReadDelivery(p)
      <4>1. CASE p \in ready
        <5> PICK a \in Head(line[p]).alerts :
              LET repeat == a \in Holding(p) \cup finished[p]
              IN Pump(p, IF repeat THEN pending[p] ELSE Append(pending[p], a),
                      playing[p], finished[p], {Post("delivered", p, a)})
          BY <3>1, <4>1 DEF ReadDelivery
        <5> QED
          BY PumpPosts DEF Post
      <4>2. CASE p \notin ready
        BY <3>1, <4>2 DEF ReadDelivery
      <4> QED
        BY <4>1, <4>2
    <3>2. CASE ReadCancel(p)
      BY <3>2, PumpPosts DEF ReadCancel, Discard
    <3>3. CASE ReadOpenSet(p)
      BY <3>3, PumpPosts DEF ReadOpenSet, Discard
    <3> QED
      BY <1>3, <3>1, <3>2, <3>3
  <2>2. UNCHANGED <<row, open, handling, closing, made, shown, skipped>>
    BY <1>3 DEF ReadDelivery, ReadCancel, ReadOpenSet, storeVars, workVars, historyVars
  <2> QED
    BY <2>1, <2>2
<1>4. CASE Finish(p)
  <2> PICK a \in playing[p] :
        /\ shown' = shown \cup {a}
        /\ Pump(p, pending[p], {}, finished[p] \cup {a}, {Post("completed", p, a)})
        /\ UNCHANGED <<row, storeVars, workVars, made, skipped>>
    BY <1>4 DEF Finish
  <2>1. \A x \in posts' : x \in posts \/ x = Post("completed", p, a) \/ x.kind # "completed"
    BY PumpPosts
  <2> QED
    BY <2>1 DEF Post, storeVars, workVars
<1> QED
  BY <1>1, <1>2, <1>3, <1>4

\* Every step keeps the invariant.
LEMMA LostStep == LostInv /\ [Next]_vars => LostInv'
<1> SUFFICES ASSUME LostInv, [Next]_vars
             PROVE  LostInv'
  OBVIOUS
<1>1. CASE Next
  BY <1>1, RowEnds, StoreKeeps, AcksEarned, PagesEarn DEF Next
<1>2. CASE UNCHANGED vars
  BY <1>2 DEF vars, storeVars, workVars, historyVars, LostInv, Earned, NothingLost
<1> QED
  BY <1>1, <1>2

\* Whatever reloads, fails, restarts or is hydrated late, a row that is gone
\* is of an alert a page has finished or an operator has ended (recordEvent,
\* ackCompleted, cancel, hydrate).
THEOREM RowsOutlast == Spec => []NothingLost
<1>1. LostInv => NothingLost
  BY DEF LostInv
<1> QED
  BY LostInit, LostStep, <1>1, PTL DEF Spec

--------------------------------------------------------------------------------
\* The store

\* An entry goes with its flags, nothing is ended that was not open, and what
\* an operator has silenced is not open.
StoreInv ==
    /\ open \in [Alerts -> Entries \cup {"none"}]
    /\ delivered \subseteq Held
    /\ started \in Seq(Held) /\ Distinct(started)
    /\ silenced \subseteq skipped /\ skipped \subseteq Alerts
    /\ silenced \cap Held = {}
    /\ ends \in [Alerts -> 0 .. 1]
    /\ \A a \in Held : ends[a] = 0

LEMMA StoreStarts == Init => StoreInv
BY DEF Init, StoreInv, Held, Distinct

LEMMA SeqOfMore ==
    ASSUME NEW A, NEW B, A \subseteq B, NEW s \in Seq(A)
    PROVE  s \in Seq(B)
OBVIOUS

LEMMA SeqOfElements ==
    ASSUME NEW A, NEW s \in Seq(A), NEW B, Elements(s) \subseteq B
    PROVE  s \in Seq(B)
<1>1. \A i \in 1 .. Len(s) : s[i] \in B
  BY DEF Elements
<1> QED
  BY <1>1

\* deleteOpen for entries that are open.
LEMMA CloseKeeps ==
    ASSUME StoreInv, NEW S, S \cap Alerts \subseteq Held, Close(S), skipped \subseteq skipped',
           skipped' \subseteq Alerts, silenced' \subseteq (silenced \cup S) \cap skipped'
    PROVE  StoreInv'
<1> USE DEF StoreInv
<1>1. /\ open' \in [Alerts -> Entries \cup {"none"}]
      /\ Held' = Held \ S
  BY DEF Close, Held
<1>2. /\ started' \in Seq(Held) /\ Distinct(started')
      /\ Elements(started') = Elements(started) \ S
  BY WithoutIs DEF Close
<1>3. Elements(started) \subseteq Held
  BY DEF Elements
<1>4. started' \in Seq(Held')
  BY <1>1, <1>2, <1>3, SeqOfElements
<1>5. ends' \in [Alerts -> 0 .. 1] /\ \A a \in Held' : ends'[a] = 0
  <2>1. ends' = [a \in Alerts |-> IF a \in S /\ ends[a] < 2 THEN ends[a] + 1 ELSE ends[a]]
    BY DEF Close
  <2>2. \A a \in Alerts : ends[a] \in 0 .. 1 /\ (a \in S => ends[a] = 0)
    OBVIOUS
  <2>3. \A a \in Alerts : ends'[a] \in 0 .. 1 /\ (a \notin S => ends'[a] = ends[a])
    BY <2>1, <2>2
  <2> QED
    BY <1>1, <2>1, <2>3 DEF Held
<1> QED
  BY <1>1, <1>2, <1>4, <1>5 DEF Close

\* setOpen for an alert whose flags are down.
LEMMA OpenKeeps ==
    ASSUME StoreInv, NEW a \in Alerts, NEW e \in Entries, Open(a, e),
           delivered' \subseteq delivered,
           \/ started' = Without(started, {a})
           \/ started' = started,
           UNCHANGED skipped
    PROVE  StoreInv'
<1> USE DEF StoreInv
<1>1. /\ open' \in [Alerts -> Entries \cup {"none"}]
      /\ Held' = Held \cup {a}
  BY DEF Open, Held, Entries
<1>2. started' \in Seq(Held) /\ Distinct(started')
  BY WithoutIs
<1>3. started' \in Seq(Held')
  BY <1>1, <1>2, SeqOfMore
<1>4. ends' \in [Alerts -> 0 .. 1] /\ \A b \in Held' : ends'[b] = 0
  BY <1>1 DEF Open, Held
<1> QED
  BY <1>1, <1>2, <1>3, <1>4 DEF Open

\* What the store does to its entries keeps the invariant.
LEMMA StoreActs ==
    ASSUME StoreInv,
           \/ \E a \in Alerts : RecordReturns(a) \/ FetchOpens(a)
           \/ \E p \in Pages, a \in Alerts :
                AckDelivered(p, a) \/ AckDeliveredFails(p, a) \/ MarkStarted(p, a)
           \/ \E h \in handling : AckCloses(h)
           \/ \E p \in Pages : Subscribe(p)
           \/ SkipCurrent \/ ClearQueued \/ Restart
    PROVE  StoreInv'
<1>1. ASSUME NEW a \in Alerts, RecordReturns(a)
      PROVE  StoreInv'
  <2>1. /\ Open(a, "recorded") /\ delivered' = delivered \ {a}
        /\ started' = Without(started, {a}) /\ UNCHANGED skipped
    BY <1>1 DEF RecordReturns
  <2> QED
    BY <2>1, OpenKeeps DEF Entries
<1>2. ASSUME NEW a \in Alerts, FetchOpens(a)
      PROVE  StoreInv'
  <2>1. UNCHANGED <<delivered, started, skipped>>
    BY <1>2 DEF FetchOpens
  <2>2. CASE open[a] = "none"
    <3>1. Open(a, "hydrated")
      BY <1>2, <2>2 DEF FetchOpens
    <3> QED
      BY <2>1, <3>1, OpenKeeps DEF Entries
  <2>3. CASE open[a] # "none"
    BY <1>2, <2>1, <2>3 DEF FetchOpens, StoreInv, Held
  <2> QED
    BY <2>2, <2>3
<1>3. ASSUME NEW p \in Pages, NEW a \in Alerts, AckDelivered(p, a) \/ AckDeliveredFails(p, a)
      PROVE  StoreInv'
  <2>1. /\ delivered' = delivered \cup ({a} \cap Held)
        /\ UNCHANGED <<open, started, silenced, skipped, ends>>
    BY <1>3 DEF AckDelivered, AckDeliveredFails, historyVars
  <2> QED
    BY <2>1 DEF StoreInv, Held
<1>4. ASSUME NEW p \in Pages, NEW a \in Alerts, MarkStarted(p, a)
      PROVE  StoreInv'
  <2>1. /\ started' = IF a \in Held THEN Append(Without(started, {a}), a) ELSE started
        /\ UNCHANGED <<open, delivered, silenced, skipped, ends>>
    BY <1>4 DEF MarkStarted, historyVars
  <2>2. CASE a \in Held
    <3> DEFINE rest == Without(started, {a})
    <3>1. rest \in Seq(Held) /\ a \notin Elements(rest) /\ Distinct(rest)
      BY WithoutIs DEF StoreInv
    <3>2. started' = Append(rest, a)
      BY <2>1, <2>2
    <3> HIDE DEF rest
    <3>3. started' \in Seq(Held) /\ Distinct(started')
      BY <2>2, <3>1, <3>2, AppendElements
    <3> QED
      BY <2>1, <3>3 DEF StoreInv, Held
  <2>3. CASE a \notin Held
    BY <2>1, <2>3 DEF StoreInv, Held
  <2> QED
    BY <2>2, <2>3
<1>5. ASSUME NEW h \in handling, AckCloses(h)
      PROVE  StoreInv'
  <2>1. UNCHANGED <<silenced, skipped>>
    BY <1>5 DEF AckCloses
  <2>2. CASE h.found # "none" /\ open[h.alert] = h.found
    <3>1. Close({h.alert}) /\ {h.alert} \cap Alerts \subseteq Held
      BY <1>5, <2>2 DEF AckCloses, Held
    <3> QED
      BY <2>1, <3>1, CloseKeeps DEF StoreInv
  <2>3. CASE ~(h.found # "none" /\ open[h.alert] = h.found)
    BY <1>5, <2>1, <2>3 DEF AckCloses, StoreInv, Held, storeVars
  <2> QED
    BY <2>2, <2>3
<1>6. ASSUME NEW p \in Pages, Subscribe(p)
      PROVE  StoreInv'
  BY <1>6 DEF Subscribe, StoreInv, Held, historyVars
<1>7. ASSUME NEW S \in SUBSET Held, CancelAlerts(S)
      PROVE  StoreInv'
  <2>1. /\ Close(S) /\ S \cap Alerts \subseteq Held /\ S \subseteq Alerts
        /\ skipped' = skipped \cup S /\ silenced' = silenced \cup S
    BY <1>7 DEF CancelAlerts, Held
  <2> QED
    BY <2>1, CloseKeeps DEF StoreInv
<1>8. CASE SkipCurrent
  <2>1. started \in Seq(Held) /\ started # << >>
    BY <1>8 DEF SkipCurrent, StoreInv
  <2>2. started[Len(started)] \in Held
    BY <2>1
  <2> QED
    BY <1>7, <1>8, <2>2 DEF SkipCurrent
<1>9. CASE ClearQueued
  BY <1>7, <1>9 DEF ClearQueued
<1>10. CASE Restart
  BY <1>10 DEF Restart, StoreInv, Held, Distinct
<1> QED
  BY <1>1, <1>2, <1>3, <1>4, <1>5, <1>6, <1>8, <1>9, <1>10

\* Every step keeps the store's invariant.
LEMMA StoreStep == StoreInv /\ [Next]_vars => StoreInv'
<1> SUFFICES ASSUME StoreInv, [Next]_vars
             PROVE  StoreInv'
  OBVIOUS
<1>1. ASSUME UNCHANGED <<storeVars, silenced, skipped, ends>>
      PROVE  StoreInv'
  BY <1>1 DEF StoreInv, Held, storeVars
<1>2. ASSUME NEW a \in Alerts,
             \/ Record(a) \/ RecordUnanswered(a) \/ Sweep(a) \/ CancelWritten(a)
             \/ CancelFails(a) \/ FetchFails(a)
      PROVE  StoreInv'
  BY <1>1, <1>2 DEF Record, RecordUnanswered, Sweep, CancelWritten, CancelFails, FetchFails,
                    historyVars
<1>3. ASSUME NEW p \in Pages, NEW a \in Alerts, AckCompleted(p, a)
      PROVE  StoreInv'
  BY <1>1, <1>3 DEF AckCompleted, historyVars
<1>4. ASSUME NEW h \in handling, CompletionWritten(h) \/ CompletionFails(h)
      PROVE  StoreInv'
  BY <1>1, <1>4 DEF CompletionWritten, CompletionFails, historyVars
<1>5. ASSUME NEW p \in Pages,
             \/ Drop(p) \/ FrameLost(p) \/ Reload(p) \/ Mount(p) \/ Finish(p)
             \/ ReadDelivery(p) \/ ReadCancel(p) \/ ReadOpenSet(p) \/ ReadHello(p)
             \/ ReadOtherBoot(p)
      PROVE  StoreInv'
  BY <1>1, <1>5 DEF Drop, FrameLost, Reload, Mount, Finish, ReadDelivery, ReadCancel,
                    ReadOpenSet, ReadHello, ReadOtherBoot, historyVars
<1>6. ASSUME NEW q \in posts, GiveUp(q)
      PROVE  StoreInv'
  BY <1>1, <1>6 DEF GiveUp
<1>7. CASE ListOpen \/ ListFails
  BY <1>1, <1>7 DEF ListOpen, ListFails, historyVars
<1>8. CASE UNCHANGED vars
  BY <1>1, <1>8 DEF vars, historyVars
<1> QED
  BY <1>2, <1>3, <1>4, <1>5, <1>6, <1>7, <1>8, StoreActs DEF Next

\* Two acknowledgements, a skip and a late hydration may all race for an
\* entry: its end is recorded at most once (deleteOpen's callers check that
\* the entry is the one that is open).
THEOREM EndedOnce == Spec => []EndsOnce
<1>1. StoreInv => EndsOnce
  <2> SUFFICES ASSUME StoreInv, NEW a \in Alerts PROVE ends[a] <= 1
    BY DEF EndsOnce
  <2>1. ends[a] \in 0 .. 1
    BY DEF StoreInv
  <2> QED
    BY <2>1
<1> QED
  BY StoreStarts, StoreStep, <1>1, PTL DEF Spec

--------------------------------------------------------------------------------
\* Lines

\* The frames the store sends: a delivery is of one alert.
Sent == {f \in Frames : f.kind = "delivery" => \E a \in Alerts : f = Frame("delivery", {a})}

LineInv == line \in [Pages -> Seq(Sent)] /\ connected \subseteq Pages

LEMMA FrameSent ==
    /\ \A a \in Alerts : Frame("delivery", {a}) \in Sent
    /\ \A S \in SUBSET Alerts : Frame("cancel", S) \in Sent /\ Frame("open-set", S) \in Sent
    /\ Frame("hello", {}) \in Sent
BY DEF Sent, Frames, Frame

LEMMA LineStarts == Init => LineInv
<1>1. << >> \in Seq(Sent)
  OBVIOUS
<1> QED
  BY <1>1 DEF Init, LineInv

LEMMA SendKeeps ==
    ASSUME LineInv, NEW f \in Sent, Send(f), UNCHANGED connected
    PROVE  LineInv'
<1>1. \A s \in Seq(Sent) : Append(s, f) \in Seq(Sent)
  OBVIOUS
<1> QED
  BY <1>1 DEF LineInv, Send

LEMMA HangupKeeps ==
    ASSUME LineInv, NEW S, Hangup(S)
    PROVE  LineInv'
<1>1. << >> \in Seq(Sent)
  OBVIOUS
<1> QED
  BY <1>1 DEF LineInv, Hangup

LEMMA ReadsKeeps ==
    ASSUME LineInv, NEW p \in Pages, NEW kind, Reads(p, kind), UNCHANGED connected
    PROVE  LineInv'
<1>1. line[p] \in Seq(Sent) /\ line[p] # << >> /\ line' = [line EXCEPT ![p] = Tail(@)]
  BY DEF LineInv, Reads
<1>2. Tail(line[p]) \in Seq(Sent)
  BY <1>1
<1> QED
  BY <1>1, <1>2 DEF LineInv

\* What a page that subscribes is sent.
Replay(q) == [i \in DOMAIN q |-> Frame("delivery", {q[i]})]

LEMMA ReplaySent ==
    ASSUME NEW q \in Orders(Held)
    PROVE  Replay(q) \in Seq(Sent) /\ Len(Replay(q)) \in Nat /\ DOMAIN q = 1 .. Len(Replay(q))
<1>1. q \in [1 .. Cardinality(Held) -> Held] /\ Held \subseteq Alerts
  BY DEF Orders, Held
<1>2. IsFiniteSet(Held)
  BY <1>1, DeliveryAssumption, FS_Subset
<1>3. Cardinality(Held) \in Nat
  BY <1>2, FS_CardinalityType
<1>4. \A i \in 1 .. Cardinality(Held) : Frame("delivery", {q[i]}) \in Sent
  BY <1>1, FrameSent
<1>5. Replay(q) \in [1 .. Cardinality(Held) -> Sent]
  BY <1>1, <1>4 DEF Replay
<1>6. Replay(q) \in Seq(Sent) /\ Len(Replay(q)) = Cardinality(Held)
  BY <1>3, <1>5
<1> QED
  BY <1>1, <1>3, <1>6

LEMMA SubscribeLine ==
    ASSUME LineInv, NEW p \in Pages, Subscribe(p)
    PROVE  /\ LineInv'
           /\ \E q \in Orders(Held) :
                line' = [line EXCEPT ![p] =
                    Replay(q) \o << Frame("open-set", Held), Frame("hello", {}) >>]
<1>1. connected' = connected \cup {p}
  BY DEF Subscribe
<1>2. PICK q \in Orders(Held) :
        line' = [line EXCEPT ![p] =
            Replay(q) \o << Frame("open-set", Held), Frame("hello", {}) >>]
  BY DEF Subscribe, Replay
<1>3. Frame("open-set", Held) \in Sent /\ Frame("hello", {}) \in Sent
  BY FrameSent DEF Held
<1>4. \A f, g \in Sent : << f, g >> \in Seq(Sent)
  OBVIOUS
<1>5. \A s, t \in Seq(Sent) : s \o t \in Seq(Sent)
  OBVIOUS
<1>6. Replay(q) \o << Frame("open-set", Held), Frame("hello", {}) >> \in Seq(Sent)
  BY <1>3, <1>4, <1>5, ReplaySent
<1> QED
  BY <1>1, <1>2, <1>6 DEF LineInv

\* A frame that is lost leaves the others in their order.
LEMMA FrameLostLine ==
    ASSUME LineInv, NEW p \in Pages, FrameLost(p)
    PROVE  /\ LineInv'
           /\ \A r \in Pages \ {p} : line'[r] = line[r]
           /\ \E i \in DOMAIN line[p] :
                /\ line[p][i].kind = "delivery"
                /\ Len(line'[p]) = Len(line[p]) - 1
                /\ \A j \in 1 .. Len(line[p]) - 1 :
                     line'[p][j] = IF j < i THEN line[p][j] ELSE line[p][j + 1]
<1> DEFINE s == line[p]
<1>1. line \in [Pages -> Seq(Sent)] /\ UNCHANGED connected
  BY DEF LineInv, FrameLost
<1>2. PICK i \in DOMAIN s :
        /\ s[i].kind = "delivery"
        /\ line' = [line EXCEPT ![p] = SubSeq(s, 1, i - 1) \o SubSeq(s, i + 1, Len(s))]
  BY <1>1 DEF FrameLost
<1>3. s \in Seq(Sent) /\ Len(s) \in Nat /\ DOMAIN s = 1 .. Len(s)
  BY <1>1
<1> HIDE DEF s
<1> DEFINE u == SubSeq(s, 1, i - 1)
           v == SubSeq(s, i + 1, Len(s))
<1>4. /\ u \in Seq(Sent) /\ Len(u) = i - 1
      /\ \A j \in 1 .. i - 1 : u[j] = s[j]
  BY <1>2, <1>3
<1>5. /\ v \in Seq(Sent) /\ Len(v) = Len(s) - i
      /\ \A j \in 1 .. Len(s) - i : v[j] = s[i + j]
  <2>1. \A j \in i + 1 .. Len(s) : s[j] \in Sent
    BY <1>2, <1>3
  <2>2. Len(v) = IF i + 1 <= Len(s) THEN Len(s) - (i + 1) + 1 ELSE 0
    BY <1>2, <1>3, <2>1, SubSeqProperties
  <2>3. v \in Seq(Sent) /\ \A j \in 1 .. Len(v) : v[j] = s[(i + 1) + j - 1]
    BY <1>2, <1>3, <2>1, SubSeqProperties
  <2>4. Len(v) = Len(s) - i
    BY <1>2, <1>3, <2>2
  <2>5. \A j \in 1 .. Len(s) - i : (i + 1) + j - 1 = i + j
    BY <1>2, <1>3
  <2> HIDE DEF v
  <2> QED
    BY <2>3, <2>4, <2>5
<1> HIDE DEF u, v
<1>6. /\ u \o v \in Seq(Sent) /\ Len(u \o v) = Len(s) - 1
  <2>1. u \o v \in Seq(Sent) /\ Len(u \o v) = Len(u) + Len(v)
    BY <1>4, <1>5, ConcatProperties
  <2>2. Len(u \o v) = Len(s) - 1
    BY <1>2, <1>3, <1>4, <1>5, <2>1
  <2> QED
    BY <2>1, <2>2
<1>7. \A j \in 1 .. Len(s) - 1 : (u \o v)[j] = IF j < i THEN s[j] ELSE s[j + 1]
  <2> TAKE j \in 1 .. Len(s) - 1
  <2>1. (u \o v)[j] = IF j <= Len(u) THEN u[j] ELSE v[j - Len(u)]
    BY <1>2, <1>3, <1>4, <1>5, ConcatProperties
  <2>2. CASE j < i
    BY <1>2, <1>3, <1>4, <2>1, <2>2
  <2>3. CASE ~(j < i)
    <3>1. /\ ~(j <= Len(u)) /\ j - Len(u) \in 1 .. Len(s) - i
          /\ i + (j - Len(u)) = j + 1
      BY <1>2, <1>3, <1>4, <2>3
    <3>2. v[j - Len(u)] = s[j + 1]
      BY <1>5, <3>1
    <3> QED
      BY <2>1, <2>3, <3>1, <3>2
  <2> QED
    BY <2>2, <2>3
<1>8. line' = [line EXCEPT ![p] = u \o v]
  BY <1>2 DEF u, v
<1>9. line'[p] = u \o v /\ \A r \in Pages \ {p} : line'[r] = line[r]
  BY <1>1, <1>8
<1>10. LineInv'
  BY <1>1, <1>6, <1>8 DEF LineInv
<1> QED
  BY <1>2, <1>6, <1>7, <1>9, <1>10 DEF s

LEMMA LineStep == LineInv /\ StoreInv /\ [Next]_vars => LineInv'
<1> SUFFICES ASSUME LineInv, StoreInv, [Next]_vars
             PROVE  LineInv'
  OBVIOUS
<1>1. ASSUME UNCHANGED <<line, connected>>
      PROVE  LineInv'
  BY <1>1 DEF LineInv
<1>2. ASSUME NEW a \in Alerts, RecordReturns(a) \/ Sweep(a)
      PROVE  LineInv'
  BY <1>2, FrameSent, SendKeeps DEF RecordReturns, Sweep
<1>3. ASSUME NEW S \in SUBSET Alerts, CancelAlerts(S)
      PROVE  LineInv'
  BY <1>3, FrameSent, SendKeeps DEF CancelAlerts
<1>4. CASE SkipCurrent
  <2>1. started \in Seq(Held) /\ started # << >> /\ Held \subseteq Alerts
    BY <1>4 DEF SkipCurrent, StoreInv, Held
  <2>2. started[Len(started)] \in Alerts
    BY <2>1
  <2> QED
    BY <1>3, <1>4, <2>2 DEF SkipCurrent
<1>5. CASE ClearQueued
  BY <1>3, <1>5 DEF ClearQueued, Held
<1>6. ASSUME NEW p \in Pages, Subscribe(p) \/ FrameLost(p)
      PROVE  LineInv'
  BY <1>6, SubscribeLine, FrameLostLine
<1>7. ASSUME NEW p \in Pages, Drop(p) \/ Reload(p) \/ ReadOtherBoot(p)
      PROVE  LineInv'
  BY <1>7, HangupKeeps DEF Drop, Reload, ReadOtherBoot, Load
<1>8. ASSUME NEW p \in Pages, ReadDelivery(p) \/ ReadCancel(p) \/ ReadOpenSet(p) \/ ReadHello(p)
      PROVE  LineInv'
  BY <1>8, ReadsKeeps DEF ReadDelivery, ReadCancel, ReadOpenSet, ReadHello
<1>9. CASE Restart
  BY <1>9, HangupKeeps DEF Restart
<1>10. ASSUME NEW p \in Pages, Mount(p) \/ Finish(p)
       PROVE  LineInv'
  BY <1>1, <1>10 DEF Mount, Finish
<1>11. ASSUME NEW a \in Alerts,
              \/ Record(a) \/ RecordUnanswered(a) \/ CancelWritten(a) \/ CancelFails(a)
              \/ FetchOpens(a) \/ FetchFails(a)
       PROVE  LineInv'
  BY <1>1, <1>11 DEF Record, RecordUnanswered, CancelWritten, CancelFails, FetchOpens, FetchFails
<1>12. ASSUME NEW p \in Pages, NEW a \in Alerts,
              \/ AckDelivered(p, a) \/ AckDeliveredFails(p, a) \/ MarkStarted(p, a)
              \/ AckCompleted(p, a)
       PROVE  LineInv'
  BY <1>1, <1>12 DEF AckDelivered, AckDeliveredFails, MarkStarted, AckCompleted
<1>13. ASSUME NEW h \in handling, CompletionWritten(h) \/ CompletionFails(h) \/ AckCloses(h)
       PROVE  LineInv'
  BY <1>1, <1>13 DEF CompletionWritten, CompletionFails, AckCloses
<1>14. ASSUME NEW q \in posts, GiveUp(q)
       PROVE  LineInv'
  BY <1>1, <1>14 DEF GiveUp
<1>15. CASE ListOpen \/ ListFails
  BY <1>1, <1>15 DEF ListOpen, ListFails
<1>16. CASE UNCHANGED vars
  BY <1>1, <1>16 DEF vars
<1> QED
  BY <1>2, <1>4, <1>5, <1>6, <1>7, <1>8, <1>9, <1>10, <1>11, <1>12, <1>13, <1>14, <1>15,
     <1>16 DEF Next

--------------------------------------------------------------------------------
\* Queues

\* At most one alert plays; none is twice in what waits, plays and has
\* finished; and nothing is held before the area registers its queue.
Orderly(p) ==
    /\ Distinct(pending[p])
    /\ \A a, b \in playing[p] : a = b
    /\ Waiting(p) \cap playing[p] = {}
    /\ Holding(p) \cap finished[p] = {}
    /\ p \notin ready => pending[p] = << >> /\ playing[p] = {}

QueueInv ==
    /\ ready \subseteq Pages
    /\ pending \in [Pages -> Seq(Alerts)] /\ playing \in [Pages -> SUBSET Alerts]
    /\ finished \in [Pages -> SUBSET Alerts]
    /\ \A p \in Pages : Orderly(p)

LEMMA QueuesStart == Init => QueueInv
<1>1. << >> \in Seq(Alerts)
  OBVIOUS
<1>2. Distinct(<< >>) /\ Elements(<< >>) = {}
  BY DEF Distinct, Elements
<1> QED
  BY <1>1, <1>2 DEF Init, QueueInv, Orderly, Waiting, Holding

\* What a change leaves in a queue, pump keeps: it only starts the first that
\* waits, when nothing plays.
LEMMA PumpKeeps ==
    ASSUME QueueInv, NEW p \in Pages, NEW q \in Seq(Alerts), NEW on \in SUBSET Alerts,
           NEW fin \in SUBSET Alerts, NEW acks, Pump(p, q, on, fin, acks), UNCHANGED ready,
           Distinct(q), \A a, b \in on : a = b, Elements(q) \cap on = {},
           (Elements(q) \cup on) \cap fin = {},
           p \in ready \/ (q = << >> /\ on = {})
    PROVE  /\ QueueInv'
           /\ Holding(p)' = Elements(q) \cup on /\ finished'[p] = fin
           /\ \A r \in Pages \ {p} : Holding(r)' = Holding(r) /\ finished'[r] = finished[r]
<1> DEFINE starts == on = {} /\ q # << >>
           rest == IF starts THEN Tail(q) ELSE q
           now  == IF starts THEN {Head(q)} ELSE on
<1>1. /\ pending' = [pending EXCEPT ![p] = rest] /\ playing' = [playing EXCEPT ![p] = now]
      /\ finished' = [finished EXCEPT ![p] = fin]
  BY DEF Pump
<1>2. /\ rest \in Seq(Alerts) /\ Distinct(rest) /\ now \in SUBSET Alerts
      /\ \A a, b \in now : a = b
      /\ Elements(rest) \cap now = {} /\ Elements(rest) \cup now = Elements(q) \cup on
  <2>1. CASE starts
    <3>1. /\ Head(q) \in Alerts /\ Tail(q) \in Seq(Alerts)
          /\ Elements(q) = {Head(q)} \cup Elements(Tail(q))
          /\ Distinct(Tail(q)) /\ Head(q) \notin Elements(Tail(q))
      BY <2>1, TailElements
    <3> QED
      BY <2>1, <3>1
  <2>2. CASE ~starts
    BY <2>2
  <2> QED
    BY <2>1, <2>2
<1>3. p \notin ready => rest = << >> /\ now = {}
  OBVIOUS
<1> HIDE DEF rest, now
<1>4. /\ pending'[p] = rest /\ playing'[p] = now /\ finished'[p] = fin
      /\ \A r \in Pages \ {p} : /\ pending'[r] = pending[r] /\ playing'[r] = playing[r]
                                /\ finished'[r] = finished[r]
  BY <1>1 DEF QueueInv
<1>5. Waiting(p)' = Elements(rest) /\ Holding(p)' = Elements(q) \cup on
  BY <1>2, <1>4 DEF Waiting, Holding
<1>6. Orderly(p)'
  BY <1>2, <1>3, <1>4, <1>5 DEF Orderly
<1>7. ASSUME NEW r \in Pages \ {p}
      PROVE  Waiting(r)' = Waiting(r) /\ Holding(r)' = Holding(r) /\ Orderly(r)'
  <2>1. Orderly(r)
    BY DEF QueueInv
  <2>2. Waiting(r)' = Waiting(r) /\ Holding(r)' = Holding(r)
    BY <1>4 DEF Waiting, Holding
  <2> QED
    BY <1>4, <2>1, <2>2 DEF Orderly
<1>8. /\ pending' \in [Pages -> Seq(Alerts)] /\ playing' \in [Pages -> SUBSET Alerts]
      /\ finished' \in [Pages -> SUBSET Alerts]
  BY <1>1, <1>2 DEF QueueInv
<1> QED
  BY <1>4, <1>5, <1>6, <1>7, <1>8 DEF QueueInv

\* A page that loads holds nothing.
LEMMA LoadQueue ==
    ASSUME QueueInv, NEW p \in Pages, Load(p)
    PROVE  QueueInv'
<1>1. << >> \in Seq(Alerts) /\ Distinct(<< >>) /\ Elements(<< >>) = {}
  BY DEF Distinct, Elements
<1>2. /\ ready' = ready \ {p} /\ pending' = [pending EXCEPT ![p] = << >>]
      /\ playing' = [playing EXCEPT ![p] = {}] /\ finished' = [finished EXCEPT ![p] = {}]
  BY DEF Load
<1>3. Orderly(p)'
  BY <1>1, <1>2 DEF QueueInv, Orderly, Waiting, Holding
<1>4. ASSUME NEW r \in Pages \ {p} PROVE Orderly(r)'
  <2>1. /\ pending'[r] = pending[r] /\ playing'[r] = playing[r] /\ finished'[r] = finished[r]
        /\ r \in ready' <=> r \in ready
    BY <1>2 DEF QueueInv
  <2>2. Orderly(r)
    BY DEF QueueInv
  <2> QED
    BY <2>1, <2>2 DEF Orderly, Waiting, Holding
<1> QED
  BY <1>1, <1>2, <1>3, <1>4 DEF QueueInv

\* cancel and retainOpen take alerts out of the queue and out of play.
LEMMA DiscardKeeps ==
    ASSUME QueueInv, NEW p \in Pages, NEW S \in SUBSET Alerts, Discard(p, S), UNCHANGED ready
    PROVE  /\ QueueInv'
           /\ Holding(p)' = Holding(p) \ S /\ finished'[p] = finished[p] \cup S
           /\ \A r \in Pages \ {p} : Holding(r)' = Holding(r) /\ finished'[r] = finished[r]
<1> DEFINE q == Without(pending[p], S)
           on == playing[p] \ S
<1>1. Orderly(p) /\ pending[p] \in Seq(Alerts) /\ playing[p] \subseteq Alerts
  BY DEF QueueInv
<1>2. /\ q \in Seq(Alerts) /\ Elements(q) = Waiting(p) \ S /\ Distinct(q)
  BY <1>1, WithoutIs DEF Orderly, Waiting
<1>3. p \in ready \/ (q = << >> /\ on = {})
  <2> SUFFICES ASSUME p \notin ready PROVE q = << >> /\ on = {}
    OBVIOUS
  <2>1. pending[p] = << >> /\ playing[p] = {}
    BY <1>1 DEF Orderly
  <2>2. Elements(q) = {}
    BY <1>2, <2>1 DEF Waiting, Elements
  <2> HIDE DEF q
  <2>3. q = << >>
    BY <1>2, <2>2 DEF Elements
  <2> QED
    BY <2>1, <2>3
<1>4. Pump(p, q, on, finished[p] \cup S, {})
  BY DEF Discard
<1>5. finished[p] \cup S \in SUBSET Alerts
  BY DEF QueueInv
<1>6. /\ on \in SUBSET Alerts /\ \A a, b \in on : a = b
      /\ Elements(q) \cap on = {} /\ Elements(q) \cup on = Holding(p) \ S
  BY <1>1, <1>2 DEF Orderly, Holding
<1>7. (Elements(q) \cup on) \cap (finished[p] \cup S) = {}
  BY <1>1, <1>6 DEF Orderly
<1> HIDE DEF q, on
<1> QED
  BY <1>2, <1>3, <1>4, <1>5, <1>6, <1>7, PumpKeeps

\* enqueue: one that is neither held nor finished goes to the end of the queue.
LEMMA EnqueueKeeps ==
    ASSUME QueueInv, NEW p \in Pages, NEW a \in Alerts, p \in ready, UNCHANGED ready, NEW acks,
           Pump(p, IF a \in Holding(p) \cup finished[p] THEN pending[p] ELSE Append(pending[p], a),
                playing[p], finished[p], acks)
    PROVE  /\ QueueInv'
           /\ Holding(p)' \subseteq Holding(p) \cup ({a} \ finished[p])
           /\ finished'[p] = finished[p]
           /\ \A r \in Pages \ {p} : Holding(r)' = Holding(r) /\ finished'[r] = finished[r]
<1> DEFINE q == IF a \in Holding(p) \cup finished[p] THEN pending[p] ELSE Append(pending[p], a)
<1>1. /\ Orderly(p) /\ pending[p] \in Seq(Alerts) /\ playing[p] \in SUBSET Alerts
      /\ finished[p] \in SUBSET Alerts
  BY DEF QueueInv
<1>2. /\ q \in Seq(Alerts) /\ Distinct(q)
      /\ Elements(q) = IF a \in Holding(p) \cup finished[p] THEN Waiting(p) ELSE Waiting(p) \cup {a}
  <2>1. CASE a \in Holding(p) \cup finished[p]
    BY <1>1, <2>1 DEF Orderly, Waiting
  <2>2. CASE a \notin Holding(p) \cup finished[p]
    <3>1. Append(pending[p], a) \in Seq(Alerts)
      BY <1>1
    <3>2. /\ Elements(Append(pending[p], a)) = Waiting(p) \cup {a}
          /\ Distinct(Append(pending[p], a))
      BY <1>1, <2>2, AppendElements DEF Orderly, Waiting, Holding
    <3> QED
      BY <2>2, <3>1, <3>2
  <2> QED
    BY <2>1, <2>2
<1> HIDE DEF q
<1>3. Elements(q) \cap playing[p] = {} /\ (Elements(q) \cup playing[p]) \cap finished[p] = {}
  BY <1>1, <1>2 DEF Orderly, Holding
<1>4. Pump(p, q, playing[p], finished[p], acks)
  BY DEF q
<1>5. /\ QueueInv'
      /\ Holding(p)' = Elements(q) \cup playing[p] /\ finished'[p] = finished[p]
      /\ \A r \in Pages \ {p} : Holding(r)' = Holding(r) /\ finished'[r] = finished[r]
  BY <1>1, <1>2, <1>3, <1>4, PumpKeeps DEF Orderly
<1> QED
  BY <1>2, <1>5 DEF Holding

\* The head of a line is a frame the store sent.
LEMMA HeadSent ==
    ASSUME LineInv, NEW p \in Pages, NEW kind, Reads(p, kind)
    PROVE  /\ line[p] \in Seq(Sent) /\ line[p] # << >>
           /\ Head(line[p]) \in Sent /\ Head(line[p]).kind = kind
           /\ Head(line[p]).alerts \subseteq Alerts
           /\ line' = [line EXCEPT ![p] = Tail(@)]
<1>1. line[p] \in Seq(Sent) /\ line[p] # << >>
  BY DEF LineInv, Reads
<1>2. Head(line[p]) \in Sent
  BY <1>1
<1> QED
  BY <1>1, <1>2 DEF Reads, Sent, Frames

LEMMA ReadDeliveryIs ==
    ASSUME LineInv, QueueInv, NEW p \in Pages, ReadDelivery(p)
    PROVE  /\ QueueInv'
           /\ \E a \in Alerts :
                /\ Head(line[p]) = Frame("delivery", {a})
                /\ Holding(p)' \subseteq Holding(p) \cup ({a} \ finished[p])
           /\ finished'[p] = finished[p]
           /\ \A r \in Pages \ {p} : Holding(r)' = Holding(r) /\ finished'[r] = finished[r]
<1>1. Reads(p, "delivery") /\ UNCHANGED ready
  BY DEF ReadDelivery
<1>2. PICK a \in Alerts : Head(line[p]) = Frame("delivery", {a})
  BY <1>1, HeadSent DEF Sent
<1>3. CASE p \in ready
  <2>1. PICK b \in Head(line[p]).alerts :
          Pump(p, IF b \in Holding(p) \cup finished[p] THEN pending[p] ELSE Append(pending[p], b),
               playing[p], finished[p], {Post("delivered", p, b)})
    BY <1>3 DEF ReadDelivery
  <2>2. b = a
    BY <1>2, <2>1 DEF Frame
  <2> QED
    BY <1>1, <1>2, <1>3, <2>1, <2>2, EnqueueKeeps
<1>4. CASE p \notin ready
  <2>1. UNCHANGED <<pending, playing, finished, ready>>
    BY <1>4 DEF ReadDelivery
  <2> QED
    BY <1>2, <2>1 DEF QueueInv, Orderly, Waiting, Holding
<1> QED
  BY <1>3, <1>4

LEMMA ReadCancelIs ==
    ASSUME LineInv, QueueInv, NEW p \in Pages, ReadCancel(p)
    PROVE  /\ QueueInv'
           /\ Holding(p)' = Holding(p) \ Head(line[p]).alerts
           /\ finished[p] \subseteq finished'[p]
           /\ \A r \in Pages \ {p} : Holding(r)' = Holding(r) /\ finished'[r] = finished[r]
<1>1. Reads(p, "cancel") /\ UNCHANGED ready
  BY DEF ReadCancel
<1>2. Head(line[p]).alerts \in SUBSET Alerts
  BY <1>1, HeadSent
<1>3. CASE p \in ready
  BY <1>1, <1>2, <1>3, DiscardKeeps DEF ReadCancel
<1>4. CASE p \notin ready
  <2>1. UNCHANGED <<pending, playing, finished, ready>>
    BY <1>4 DEF ReadCancel
  <2>2. Holding(p) = {}
    BY <1>4 DEF QueueInv, Orderly, Holding, Waiting, Elements
  <2> QED
    BY <2>1, <2>2 DEF QueueInv, Orderly, Waiting, Holding
<1> QED
  BY <1>3, <1>4

LEMMA ReadOpenSetIs ==
    ASSUME LineInv, QueueInv, NEW p \in Pages, ReadOpenSet(p)
    PROVE  /\ QueueInv'
           /\ Holding(p)' \subseteq Holding(p) \cap Head(line[p]).alerts
           /\ finished[p] \subseteq finished'[p]
           /\ \A r \in Pages \ {p} : Holding(r)' = Holding(r) /\ finished'[r] = finished[r]
<1>1. Discard(p, Holding(p) \ Head(line[p]).alerts) /\ UNCHANGED ready
  BY DEF ReadOpenSet
<1>2. Holding(p) \in SUBSET Alerts
  BY DEF QueueInv, Holding, Waiting, Elements
<1> QED
  BY <1>1, <1>2, DiscardKeeps

LEMMA FinishIs ==
    ASSUME QueueInv, NEW p \in Pages, Finish(p)
    PROVE  /\ QueueInv'
           /\ Holding(p)' \subseteq Holding(p)
           /\ finished[p] \subseteq finished'[p]
           /\ \A r \in Pages \ {p} : Holding(r)' = Holding(r) /\ finished'[r] = finished[r]
           /\ shown' \ shown \subseteq Alerts
<1>1. PICK a \in playing[p] :
        /\ Pump(p, pending[p], {}, finished[p] \cup {a}, {Post("completed", p, a)})
        /\ shown' = shown \cup {a} /\ UNCHANGED ready
  BY DEF Finish
<1>2. /\ Orderly(p) /\ pending[p] \in Seq(Alerts) /\ a \in Alerts
      /\ finished[p] \cup {a} \in SUBSET Alerts
  BY DEF QueueInv
<1>3. a \notin Waiting(p) /\ Waiting(p) \cap finished[p] = {} /\ p \in ready
  BY <1>2 DEF Orderly, Holding
<1>4. (Elements(pending[p]) \cup {}) \cap (finished[p] \cup {a}) = {}
  BY <1>3 DEF Waiting
<1>5. /\ QueueInv' /\ Holding(p)' = Elements(pending[p]) \cup {}
      /\ finished'[p] = finished[p] \cup {a}
      /\ \A r \in Pages \ {p} : Holding(r)' = Holding(r) /\ finished'[r] = finished[r]
  <2> DEFINE q == pending[p]
             fin == finished[p] \cup {a}
  <2>1. /\ q \in Seq(Alerts) /\ {} \in SUBSET Alerts /\ fin \in SUBSET Alerts
        /\ Distinct(q) /\ Elements(q) \cap {} = {} /\ \A x, y \in {} : x = y
        /\ (Elements(q) \cup {}) \cap fin = {}
    BY <1>2, <1>4 DEF Orderly
  <2>2. Pump(p, q, {}, fin, {Post("completed", p, a)}) /\ UNCHANGED ready
    BY <1>1
  <2> HIDE DEF q, fin
  <2>3. /\ QueueInv' /\ Holding(p)' = Elements(q) \cup {} /\ finished'[p] = fin
        /\ \A r \in Pages \ {p} : Holding(r)' = Holding(r) /\ finished'[r] = finished[r]
    BY <1>3, <2>1, <2>2, PumpKeeps
  <2> QED
    BY <2>3 DEF q, fin
<1> QED
  BY <1>1, <1>2, <1>5 DEF Holding, Waiting

\* What touches no page's queue.
LEMMA QueueAlone ==
    ASSUME Next,
           \A p \in Pages : ~ (\/ Reload(p) \/ Mount(p) \/ Finish(p) \/ ReadDelivery(p)
                               \/ ReadCancel(p) \/ ReadOpenSet(p) \/ ReadOtherBoot(p))
    PROVE  UNCHANGED <<ready, pending, playing, finished>>
<1>1. ASSUME NEW a \in Alerts,
             \/ Record(a) \/ RecordReturns(a) \/ RecordUnanswered(a) \/ Sweep(a)
             \/ CancelWritten(a) \/ CancelFails(a) \/ FetchOpens(a) \/ FetchFails(a)
      PROVE  UNCHANGED <<ready, pending, playing, finished>>
  BY <1>1 DEF Record, RecordReturns, RecordUnanswered, Sweep, CancelWritten, CancelFails,
              FetchOpens, FetchFails, pageVars
<1>2. ASSUME NEW p \in Pages, NEW a \in Alerts,
             \/ AckDelivered(p, a) \/ AckDeliveredFails(p, a) \/ MarkStarted(p, a)
             \/ AckCompleted(p, a)
      PROVE  UNCHANGED <<ready, pending, playing, finished>>
  BY <1>2 DEF AckDelivered, AckDeliveredFails, MarkStarted, AckCompleted, pageVars
<1>3. ASSUME NEW h \in handling, CompletionWritten(h) \/ CompletionFails(h) \/ AckCloses(h)
      PROVE  UNCHANGED <<ready, pending, playing, finished>>
  BY <1>3 DEF CompletionWritten, CompletionFails, AckCloses, pageVars
<1>4. ASSUME NEW p \in Pages, Subscribe(p) \/ Drop(p) \/ FrameLost(p) \/ ReadHello(p)
      PROVE  UNCHANGED <<ready, pending, playing, finished>>
  BY <1>4 DEF Subscribe, Drop, FrameLost, ReadHello, pageVars
<1>5. ASSUME NEW q \in posts, GiveUp(q)
      PROVE  UNCHANGED <<ready, pending, playing, finished>>
  BY <1>5 DEF GiveUp, pageVars
<1>6. ASSUME SkipCurrent \/ ClearQueued \/ Restart \/ ListOpen \/ ListFails
      PROVE  UNCHANGED <<ready, pending, playing, finished>>
  BY <1>6 DEF SkipCurrent, ClearQueued, CancelAlerts, Restart, ListOpen, ListFails, pageVars
<1> QED
  BY <1>1, <1>2, <1>3, <1>4, <1>5, <1>6 DEF Next

LEMMA QueueStep == LineInv /\ QueueInv /\ [Next]_vars => QueueInv'
<1> SUFFICES ASSUME LineInv, QueueInv, [Next]_vars
             PROVE  QueueInv'
  OBVIOUS
<1>1. ASSUME UNCHANGED <<ready, pending, playing, finished>>
      PROVE  QueueInv'
  BY <1>1 DEF QueueInv, Orderly, Waiting, Holding
<1>2. ASSUME NEW p \in Pages, ReadDelivery(p) \/ ReadCancel(p) \/ ReadOpenSet(p) \/ Finish(p)
      PROVE  QueueInv'
  BY <1>2, ReadDeliveryIs, ReadCancelIs, ReadOpenSetIs, FinishIs
<1>3. ASSUME NEW p \in Pages, Reload(p) \/ ReadOtherBoot(p)
      PROVE  QueueInv'
  BY <1>3, LoadQueue DEF Reload, ReadOtherBoot
<1>4. ASSUME NEW p \in Pages, Mount(p)
      PROVE  QueueInv'
  BY <1>4 DEF Mount, QueueInv, Orderly, Waiting, Holding
<1>5. CASE UNCHANGED vars
  BY <1>1, <1>5 DEF vars, pageVars
<1> QED
  BY <1>1, <1>2, <1>3, <1>4, <1>5, QueueAlone

\* One load of a page plays an alert once, whatever the sweep and the replays
\* send again (enqueue's checks, pump).
THEOREM PlayedOnce == Spec => []PlaysOnce
<1>1. QueueInv => PlaysOnce
  <2> SUFFICES ASSUME QueueInv, NEW p \in Pages
               PROVE  /\ Cardinality(playing[p]) <= 1
                      /\ Cardinality(Waiting(p)) = Len(pending[p])
                      /\ Holding(p) \cap finished[p] = {} /\ Waiting(p) \cap playing[p] = {}
    BY DEF PlaysOnce
  <2>1. Orderly(p) /\ pending[p] \in Seq(Alerts)
    BY DEF QueueInv
  <2>2. Cardinality(Waiting(p)) = Len(pending[p])
    BY <2>1, DistinctIsCounted DEF Orderly, Waiting
  <2>3. Cardinality(playing[p]) <= 1
    <3>1. CASE playing[p] = {}
      BY <3>1, FS_EmptySet
    <3>2. CASE playing[p] # {}
      <4>1. PICK a \in playing[p] : playing[p] = {a}
        BY <2>1, <3>2 DEF Orderly
      <4> QED
        <5>1. Cardinality({a}) = 1
          BY FS_Singleton
        <5> QED
          BY <4>1, <5>1
    <3> QED
      BY <3>1, <3>2
  <2> QED
    BY <2>1, <2>2, <2>3 DEF Orderly
<1>2. StoreInv /\ LineInv /\ QueueInv /\ [Next]_vars => (StoreInv /\ LineInv /\ QueueInv)'
  BY StoreStep, LineStep, QueueStep
<1> QED
  BY StoreStarts, LineStarts, QueuesStart, <1>1, <1>2, PTL DEF Spec

--------------------------------------------------------------------------------
\* Skips

\* Some frame of the line lets go of the alert.
Ends(s, a) == \E i \in DOMAIN s : LetsGo(s[i], a)

\* After every delivery of the alert some frame lets go of it.
Follows(s, a) ==
    \A i \in DOMAIN s :
        s[i] = Frame("delivery", {a}) => \E j \in i + 1 .. Len(s) : LetsGo(s[j], a)

Told(p, a) ==
    /\ a \in Holding(p) => Ends(line[p], a)
    /\ a \notin finished[p] => Follows(line[p], a)

LEMMA ToldIs == SkipReaches <=> \A p \in connected, a \in silenced : Told(p, a)
BY DEF SkipReaches, Told, Ends, Follows

LEMMA DeliveryKeeps == \A a : ~ LetsGo(Frame("delivery", {a}), a)
BY DEF LetsGo, Frame

LEMMA AppendTold ==
    ASSUME NEW s \in Seq(Sent), NEW f \in Sent, NEW a
    PROVE  /\ Ends(s, a) => Ends(Append(s, f), a)
           /\ Follows(s, a) /\ f # Frame("delivery", {a}) => Follows(Append(s, f), a)
           /\ LetsGo(f, a) => Ends(Append(s, f), a) /\ Follows(Append(s, f), a)
<1> DEFINE t == Append(s, f)
<1>1. /\ Len(s) \in Nat /\ Len(t) = Len(s) + 1
      /\ DOMAIN s = 1 .. Len(s) /\ DOMAIN t = 1 .. Len(s) + 1
      /\ t[Len(s) + 1] = f /\ \A i \in 1 .. Len(s) : t[i] = s[i]
  OBVIOUS
<1> HIDE DEF t
<1>2. Ends(s, a) => Ends(t, a)
  BY <1>1 DEF Ends
<1>3. Follows(s, a) /\ f # Frame("delivery", {a}) => Follows(t, a)
  <2> SUFFICES ASSUME Follows(s, a), f # Frame("delivery", {a}),
                      NEW i \in 1 .. Len(s) + 1, t[i] = Frame("delivery", {a})
               PROVE  \E j \in i + 1 .. Len(s) + 1 : LetsGo(t[j], a)
    BY <1>1 DEF Follows
  <2>1. i \in 1 .. Len(s) /\ s[i] = Frame("delivery", {a})
    BY <1>1
  <2>2. PICK j \in i + 1 .. Len(s) : LetsGo(s[j], a)
    BY <1>1, <2>1 DEF Follows
  <2>3. j \in 1 .. Len(s) /\ j \in i + 1 .. Len(s) + 1
    BY <1>1, <2>1
  <2> QED
    BY <1>1, <2>2, <2>3
<1>4. ASSUME LetsGo(f, a)
      PROVE  Ends(t, a) /\ Follows(t, a)
  <2>1. f # Frame("delivery", {a})
    BY <1>4, DeliveryKeeps
  <2>2. Ends(t, a)
    BY <1>1, <1>4 DEF Ends
  <2>3. ASSUME NEW i \in 1 .. Len(s) + 1, t[i] = Frame("delivery", {a})
        PROVE  \E j \in i + 1 .. Len(s) + 1 : LetsGo(t[j], a)
    <3>1. i # Len(s) + 1
      BY <1>1, <2>1, <2>3
    <3>2. Len(s) + 1 \in i + 1 .. Len(s) + 1
      BY <1>1, <3>1
    <3> QED
      BY <1>1, <1>4, <3>2
  <2> QED
    BY <1>1, <2>2, <2>3 DEF Follows
<1> QED
  BY <1>2, <1>3, <1>4 DEF t

LEMMA TailTold ==
    ASSUME NEW s \in Seq(Sent), s # << >>, NEW a
    PROVE  /\ Follows(s, a) => Follows(Tail(s), a)
           /\ Ends(s, a) /\ ~ LetsGo(Head(s), a) => Ends(Tail(s), a)
           /\ Follows(s, a) /\ Head(s) = Frame("delivery", {a}) => Ends(Tail(s), a)
<1> DEFINE t == Tail(s)
<1>1. /\ Len(s) \in Nat \ {0} /\ DOMAIN s = 1 .. Len(s) /\ Head(s) = s[1]
      /\ Len(t) = Len(s) - 1 /\ DOMAIN t = 1 .. Len(s) - 1
      /\ \A i \in 1 .. Len(s) - 1 : t[i] = s[i + 1]
  OBVIOUS
<1> HIDE DEF t
<1>2. ASSUME NEW j \in 2 .. Len(s), LetsGo(s[j], a)
      PROVE  j - 1 \in 1 .. Len(s) - 1 /\ LetsGo(t[j - 1], a)
  <2>1. j - 1 \in 1 .. Len(s) - 1 /\ (j - 1) + 1 = j
    BY <1>1
  <2> QED
    BY <1>1, <1>2, <2>1
<1>3. ASSUME Follows(s, a)
      PROVE  Follows(t, a)
  <2> SUFFICES ASSUME NEW i \in 1 .. Len(s) - 1, t[i] = Frame("delivery", {a})
               PROVE  \E j \in i + 1 .. Len(s) - 1 : LetsGo(t[j], a)
    BY <1>1 DEF Follows
  <2>1. i + 1 \in 1 .. Len(s) /\ s[i + 1] = Frame("delivery", {a})
    BY <1>1
  <2>2. PICK j \in (i + 1) + 1 .. Len(s) : LetsGo(s[j], a)
    BY <1>1, <1>3, <2>1 DEF Follows
  <2>3. j \in 2 .. Len(s) /\ j - 1 \in i + 1 .. Len(s) - 1
    BY <1>1
  <2> QED
    BY <1>2, <2>2, <2>3
<1>4. ASSUME Ends(s, a), ~ LetsGo(Head(s), a)
      PROVE  Ends(t, a)
  <2>1. PICK j \in 1 .. Len(s) : LetsGo(s[j], a)
    BY <1>1, <1>4 DEF Ends
  <2>2. j \in 2 .. Len(s)
    BY <1>1, <1>4, <2>1
  <2> QED
    BY <1>1, <1>2, <2>1, <2>2 DEF Ends
<1>5. ASSUME Follows(s, a), Head(s) = Frame("delivery", {a})
      PROVE  Ends(t, a)
  <2>1. PICK j \in 1 + 1 .. Len(s) : LetsGo(s[j], a)
    BY <1>1, <1>5 DEF Follows
  <2> QED
    BY <1>1, <1>2, <2>1 DEF Ends
<1> QED
  BY <1>3, <1>4, <1>5 DEF t

LEMMA LostTold ==
    ASSUME NEW s \in Seq(Sent), NEW t, NEW a, NEW i \in 1 .. Len(s), s[i].kind = "delivery",
           Len(t) = Len(s) - 1, t \in Seq(Sent),
           \A j \in 1 .. Len(s) - 1 : t[j] = IF j < i THEN s[j] ELSE s[j + 1]
    PROVE  /\ Ends(s, a) => Ends(t, a)
           /\ Follows(s, a) => Follows(t, a)
<1>1. /\ Len(s) \in Nat /\ Len(t) \in Nat /\ DOMAIN s = 1 .. Len(s)
      /\ DOMAIN t = 1 .. Len(t)
  OBVIOUS
<1>2. Len(t) = Len(s) - 1 /\ i \in 1 .. Len(s)
  BY <1>1
<1>3. ASSUME NEW j \in 1 .. Len(s), LetsGo(s[j], a)
      PROVE  \/ j < i /\ j \in 1 .. Len(t) /\ LetsGo(t[j], a)
             \/ j > i /\ j - 1 \in 1 .. Len(t) /\ LetsGo(t[j - 1], a)
  <2>1. j # i
    BY <1>3 DEF LetsGo
  <2>2. CASE j < i
    <3>1. j \in 1 .. Len(s) - 1
      BY <1>1, <2>2
    <3> QED
      BY <1>2, <1>3, <2>2, <3>1
  <2>3. CASE j > i
    <3>1. j - 1 \in 1 .. Len(s) - 1 /\ ~(j - 1 < i) /\ (j - 1) + 1 = j
      BY <1>1, <2>3
    <3> QED
      BY <1>2, <1>3, <2>3, <3>1
  <2> QED
    BY <2>1, <2>2, <2>3
<1>4. Ends(s, a) => Ends(t, a)
  BY <1>1, <1>3 DEF Ends
<1>5. ASSUME Follows(s, a)
      PROVE  Follows(t, a)
  <2> SUFFICES ASSUME NEW k \in 1 .. Len(t), t[k] = Frame("delivery", {a})
               PROVE  \E j \in k + 1 .. Len(t) : LetsGo(t[j], a)
    BY <1>1 DEF Follows
  <2> DEFINE o == IF k < i THEN k ELSE k + 1
  <2>1. o \in 1 .. Len(s) /\ s[o] = t[k]
    BY <1>1, <1>2
  <2> HIDE DEF o
  <2>2. PICK j \in o + 1 .. Len(s) : LetsGo(s[j], a)
    BY <1>1, <1>5, <2>1 DEF Follows
  <2>3. j \in 1 .. Len(s) /\ (j < i => j \in k + 1 .. i - 1) /\ (j > i => j - 1 >= k + 1)
    BY <1>1, <2>1 DEF o
  <2>4. CASE j < i
    BY <1>1, <1>2, <1>3, <2>2, <2>3, <2>4
  <2>5. CASE ~(j < i)
    <3>1. j > i /\ j - 1 \in 1 .. Len(t) /\ LetsGo(t[j - 1], a)
      BY <1>3, <2>2, <2>3, <2>5
    <3>2. j - 1 \in k + 1 .. Len(t)
      BY <1>1, <2>3, <3>1
    <3> QED
      BY <3>1, <3>2
  <2> QED
    BY <2>4, <2>5
<1> QED
  BY <1>4, <1>5

\* The replay holds no alert that is not open, and its open set lets go of it.
LEMMA ReplayTold ==
    ASSUME NEW q \in Orders(Held), NEW a \in Alerts \ Held
    PROVE  /\ Ends(Replay(q) \o << Frame("open-set", Held), Frame("hello", {}) >>, a)
           /\ Follows(Replay(q) \o << Frame("open-set", Held), Frame("hello", {}) >>, a)
<1> DEFINE u == Replay(q)
           v == << Frame("open-set", Held), Frame("hello", {}) >>
           n == Len(u)
<1>1. /\ u \in Seq(Sent) /\ n \in Nat /\ DOMAIN q = 1 .. n
      /\ q \in [1 .. Cardinality(Held) -> Held]
  BY ReplaySent DEF Orders
<1>2. \A i \in 1 .. n : u[i] = Frame("delivery", {q[i]}) /\ q[i] # a
  BY <1>1 DEF Replay
<1>3. Frame("open-set", Held) \in Sent /\ Frame("hello", {}) \in Sent
  BY FrameSent DEF Held
<1>4. \A f, g \in Sent : /\ << f, g >> \in Seq(Sent) /\ Len(<< f, g >>) = 2
                         /\ << f, g >>[1] = f /\ << f, g >>[2] = g
  OBVIOUS
<1>5. /\ v \in Seq(Sent) /\ Len(v) = 2
      /\ v[1] = Frame("open-set", Held) /\ v[2] = Frame("hello", {})
  BY <1>3, <1>4
<1> HIDE DEF u, v
<1>6. /\ Len(u \o v) = n + 2 /\ DOMAIN (u \o v) = 1 .. n + 2
      /\ \A i \in 1 .. n + 2 : (u \o v)[i] = IF i <= n THEN u[i] ELSE v[i - n]
  <2>1. /\ u \o v \in Seq(Sent) /\ Len(u \o v) = n + Len(v)
        /\ \A i \in 1 .. n + Len(v) : (u \o v)[i] = IF i <= n THEN u[i] ELSE v[i - n]
    BY <1>1, <1>5, ConcatProperties
  <2> QED
    BY <1>1, <1>5, <2>1
<1> HIDE DEF n
<1>7. (u \o v)[n + 1] = Frame("open-set", Held)
  <2>1. n + 1 \in 1 .. n + 2 /\ ~(n + 1 <= n) /\ (n + 1) - n = 1
    BY <1>1
  <2> QED
    BY <1>5, <1>6, <2>1
<1>8. (u \o v)[n + 2] = Frame("hello", {})
  <2>1. n + 2 \in 1 .. n + 2 /\ ~(n + 2 <= n) /\ (n + 2) - n = 2
    BY <1>1
  <2> QED
    BY <1>5, <1>6, <2>1
<1>9. LetsGo((u \o v)[n + 1], a) /\ n + 1 \in 1 .. n + 2
  BY <1>1, <1>7 DEF LetsGo, Frame
<1>10. ASSUME NEW i \in 1 .. n + 2
       PROVE  (u \o v)[i] # Frame("delivery", {a})
  <2>1. CASE i <= n
    <3>1. i \in 1 .. n
      BY <1>1, <2>1
    <3>2. (u \o v)[i] = Frame("delivery", {q[i]}) /\ q[i] # a
      BY <1>2, <1>6, <2>1, <3>1
    <3>3. \A S : Frame("delivery", S).alerts = S
      BY DEF Frame
    <3>4. {q[i]} # {a}
      BY <3>2
    <3> QED
      BY <3>2, <3>3, <3>4
  <2>2. CASE ~(i <= n)
    <3>1. i = n + 1 \/ i = n + 2
      BY <1>1, <2>2
    <3>2. \A f : f = Frame("delivery", {a}) => f.kind = "delivery"
      BY DEF Frame
    <3>3. Frame("open-set", Held).kind = "open-set" /\ Frame("hello", {}).kind = "hello"
      BY DEF Frame
    <3> QED
      BY <1>7, <1>8, <3>1, <3>2, <3>3
  <2> QED
    BY <2>1, <2>2
<1>11. Ends(u \o v, a) /\ Follows(u \o v, a)
  BY <1>6, <1>9, <1>10 DEF Ends, Follows
<1> QED
  BY <1>11 DEF u, v

\* A frame to every page: what it must not be is a delivery of the alert.
LEMMA SendTold ==
    ASSUME LineInv, NEW p \in connected, NEW f \in Sent, Send(f), NEW a,
           UNCHANGED <<pending, playing, finished>>
    PROVE  /\ Told(p, a) /\ f # Frame("delivery", {a}) => Told(p, a)'
           /\ LetsGo(f, a) => Told(p, a)'
<1>1. line[p] \in Seq(Sent) /\ line'[p] = Append(line[p], f)
  BY DEF LineInv, Send
<1>2. Holding(p)' = Holding(p) /\ finished'[p] = finished[p]
  BY DEF Holding, Waiting
<1> QED
  BY <1>1, <1>2, AppendTold DEF Told

\* A page that takes the head of its line: what goes with the head has been
\* let go of, and what it delivers has its end behind it.
LEMMA ReadTold ==
    ASSUME LineInv, QueueInv, NEW p \in connected, NEW r \in Pages, NEW a \in Alerts, Told(p, a),
           ReadDelivery(r) \/ ReadCancel(r) \/ ReadOpenSet(r) \/ ReadHello(r)
    PROVE  Told(p, a)'
<1>1. p \in Pages
  BY DEF LineInv
<1>2. ASSUME NEW kind, Reads(r, kind), p # r, Holding(p)' = Holding(p), finished'[p] = finished[p]
      PROVE  Told(p, a)'
  <2>1. line'[p] = line[p]
    BY <1>1, <1>2 DEF Reads, LineInv
  <2> QED
    BY <1>2, <2>1 DEF Told
<1>3. ASSUME NEW kind, Reads(p, kind), p = r, finished[p] \subseteq finished'[p],
             a \in Holding(p)' => \/ a \in Holding(p) /\ ~ LetsGo(Head(line[p]), a)
                                  \/ Head(line[p]) = Frame("delivery", {a}) /\ a \notin finished[p]
      PROVE  Told(p, a)'
  <2>1. /\ line[p] \in Seq(Sent) /\ line[p] # << >>
        /\ line'[p] = Tail(line[p])
    BY <1>1, <1>3, HeadSent DEF LineInv
  <2> QED
    BY <1>3, <2>1, TailTold DEF Told
<1>4. CASE ReadDelivery(r)
  <2>1. Reads(r, "delivery")
    BY <1>4 DEF ReadDelivery
  <2>2. PICK b \in Alerts : /\ Head(line[r]) = Frame("delivery", {b})
                            /\ Holding(r)' \subseteq Holding(r) \cup ({b} \ finished[r])
    BY <1>4, ReadDeliveryIs
  <2>3. /\ finished'[r] = finished[r]
        /\ \A x \in Pages \ {r} : Holding(x)' = Holding(x) /\ finished'[x] = finished[x]
    BY <1>4, ReadDeliveryIs
  <2>4. ~ LetsGo(Head(line[r]), a)
    BY <2>2 DEF LetsGo, Frame
  <2> QED
    BY <1>1, <1>2, <1>3, <2>1, <2>2, <2>3, <2>4
<1>5. CASE ReadCancel(r)
  <2>1. Reads(r, "cancel")
    BY <1>5 DEF ReadCancel
  <2>2. /\ Holding(r)' = Holding(r) \ Head(line[r]).alerts
        /\ finished[r] \subseteq finished'[r]
        /\ \A x \in Pages \ {r} : Holding(x)' = Holding(x) /\ finished'[x] = finished[x]
    BY <1>5, ReadCancelIs
  <2>3. LetsGo(Head(line[r]), a) => a \in Head(line[r]).alerts
    BY <2>1, HeadSent DEF LetsGo
  <2> QED
    BY <1>1, <1>2, <1>3, <2>1, <2>2, <2>3
<1>6. CASE ReadOpenSet(r)
  <2>1. Reads(r, "open-set")
    BY <1>6 DEF ReadOpenSet
  <2>2. /\ Holding(r)' \subseteq Holding(r) \cap Head(line[r]).alerts
        /\ finished[r] \subseteq finished'[r]
        /\ \A x \in Pages \ {r} : Holding(x)' = Holding(x) /\ finished'[x] = finished[x]
    BY <1>6, ReadOpenSetIs
  <2>3. LetsGo(Head(line[r]), a) => a \notin Head(line[r]).alerts
    BY <2>1, HeadSent DEF LetsGo
  <2> QED
    BY <1>1, <1>2, <1>3, <2>1, <2>2, <2>3
<1>7. CASE ReadHello(r)
  <2>1. Reads(r, "hello") /\ UNCHANGED <<pending, playing, finished>>
    BY <1>7 DEF ReadHello
  <2>2. Holding(p)' = Holding(p) /\ finished'[p] = finished[p]
    BY <2>1 DEF Holding, Waiting
  <2>3. ~ LetsGo(Head(line[r]), a)
    BY <2>1, HeadSent DEF LetsGo
  <2>4. Holding(r)' = Holding(r) /\ finished'[r] = finished[r]
    BY <2>1 DEF Holding, Waiting
  <2> QED
    BY <1>2, <1>3, <2>1, <2>2, <2>3, <2>4
<1> QED
  BY <1>4, <1>5, <1>6, <1>7

\* The steps that leave every line, stream and queue alone.
LEMMA ToldAlone ==
    ASSUME LineInv, SkipReaches, UNCHANGED <<line, connected, pending, playing, finished>>,
           silenced' \subseteq silenced
    PROVE  SkipReaches'
<1>1. ASSUME NEW p \in connected, NEW a \in silenced, Told(p, a)
      PROVE  Told(p, a)'
  BY <1>1 DEF Told, Holding, Waiting
<1>2. \A p \in connected', a \in silenced' : Told(p, a)'
  BY <1>1, ToldIs
<1> QED
  BY <1>2, ToldIs DEF SkipReaches, Told, Ends, Follows

\* One case per step that sends, loses or reads a frame, or that opens or ends
\* a stream.
LEMMA SkipStep ==
    StoreInv /\ LineInv /\ QueueInv /\ SkipReaches /\ [Next]_vars => SkipReaches'
<1> SUFFICES ASSUME StoreInv, LineInv, QueueInv, SkipReaches, [Next]_vars
             PROVE  SkipReaches'
  OBVIOUS
<1>1. \A p \in connected, a \in silenced : Told(p, a)
  BY ToldIs
<1>2. silenced \subseteq Alerts \ Held
  BY DEF StoreInv
<1>3. ASSUME \A p \in connected', a \in silenced' : Told(p, a)'
      PROVE  SkipReaches'
  BY <1>3 DEF SkipReaches, Told, Ends, Follows
<1>4. ASSUME NEW b \in Alerts, RecordReturns(b) \/ Sweep(b)
      PROVE  SkipReaches'
  <2>1. /\ Send(Frame("delivery", {b})) /\ UNCHANGED <<connected, pending, playing, finished>>
        /\ silenced' \subseteq silenced /\ b \notin silenced'
    BY <1>2, <1>4 DEF RecordReturns, Sweep, Open, pageVars, historyVars
  <2>2. ASSUME NEW p \in connected', NEW a \in silenced'
        PROVE  Told(p, a)'
    <3>1. Frame("delivery", {b}) # Frame("delivery", {a}) /\ p \in connected /\ Told(p, a)
      BY <1>1, <2>1, <2>2 DEF Frame
    <3> QED
      BY <2>1, <3>1, FrameSent, SendTold
  <2> QED
    BY <1>3, <2>2
<1>5. ASSUME NEW S \in SUBSET Alerts, CancelAlerts(S)
      PROVE  SkipReaches'
  <2>1. /\ Send(Frame("cancel", S)) /\ UNCHANGED <<connected, pending, playing, finished>>
        /\ silenced' = silenced \cup S
    BY <1>5 DEF CancelAlerts, pageVars
  <2>2. \A a : Frame("cancel", S) # Frame("delivery", {a})
    BY DEF Frame
  <2>3. \A a \in S : LetsGo(Frame("cancel", S), a)
    BY DEF LetsGo, Frame
  <2>4. ASSUME NEW p \in connected', NEW a \in silenced'
        PROVE  Told(p, a)'
    BY <1>1, <2>1, <2>2, <2>3, FrameSent, SendTold
  <2> QED
    BY <1>3, <2>4
<1>6. CASE SkipCurrent
  <2>1. started \in Seq(Held) /\ started # << >> /\ Held \subseteq Alerts
    BY <1>6 DEF SkipCurrent, StoreInv, Held
  <2>2. started[Len(started)] \in Alerts
    BY <2>1
  <2> QED
    BY <1>5, <1>6, <2>2 DEF SkipCurrent
<1>7. CASE ClearQueued
  BY <1>5, <1>7 DEF ClearQueued, Held
<1>8. ASSUME NEW r \in Pages, Subscribe(r)
      PROVE  SkipReaches'
  <2>1. PICK q \in Orders(Held) :
          line' = [line EXCEPT ![r] =
              Replay(q) \o << Frame("open-set", Held), Frame("hello", {}) >>]
    BY <1>8, SubscribeLine
  <2>2. /\ connected' = connected \cup {r} /\ connected \subseteq Pages
        /\ UNCHANGED <<pending, playing, finished, silenced>>
    BY <1>8 DEF Subscribe, LineInv, pageVars, historyVars
  <2>3. ASSUME NEW p \in connected', NEW a \in silenced'
        PROVE  Told(p, a)'
    <3>1. Holding(p)' = Holding(p) /\ finished'[p] = finished[p]
      BY <2>2 DEF Holding, Waiting
    <3>2. CASE p = r
      <4>1. line'[p] = Replay(q) \o << Frame("open-set", Held), Frame("hello", {}) >>
        BY <2>1, <3>2 DEF LineInv
      <4>2. a \in Alerts \ Held
        BY <1>2, <2>2
      <4> QED
        BY <4>1, <4>2, ReplayTold DEF Told
    <3>3. CASE p # r
      <4>1. line'[p] = line[p] /\ Told(p, a)
        BY <1>1, <2>1, <2>2, <3>3 DEF LineInv
      <4> QED
        BY <3>1, <4>1 DEF Told
    <3> QED
      BY <3>2, <3>3
  <2> QED
    BY <1>3, <2>3
<1>9. ASSUME NEW r \in Pages, Drop(r) \/ Reload(r) \/ ReadOtherBoot(r)
      PROVE  SkipReaches'
  <2>1. Hangup({r}) /\ UNCHANGED silenced
    BY <1>9 DEF Drop, Reload, ReadOtherBoot, Load, historyVars
  <2>2. \A p \in Pages \ {r} : /\ pending'[p] = pending[p] /\ playing'[p] = playing[p]
                               /\ finished'[p] = finished[p]
    BY <1>9 DEF Drop, Reload, ReadOtherBoot, Load, QueueInv, pageVars
  <2>3. ASSUME NEW p \in connected', NEW a \in silenced'
        PROVE  Told(p, a)'
    <3>1. p \in connected /\ p \in Pages \ {r}
      BY <2>1 DEF Hangup, LineInv
    <3>2. line'[p] = line[p] /\ Told(p, a)
      BY <1>1, <2>1, <3>1 DEF Hangup
    <3>3. Holding(p)' = Holding(p) /\ finished'[p] = finished[p]
      BY <2>2, <3>1 DEF Holding, Waiting
    <3> QED
      BY <3>2, <3>3 DEF Told
  <2> QED
    BY <1>3, <2>3
<1>10. ASSUME NEW r \in Pages, FrameLost(r)
       PROVE  SkipReaches'
  <2>1. UNCHANGED <<connected, pending, playing, finished, silenced>>
    BY <1>10 DEF FrameLost, pageVars, historyVars
  <2>2. ASSUME NEW p \in connected', NEW a \in silenced'
        PROVE  Told(p, a)'
    <3>1. Holding(p)' = Holding(p) /\ finished'[p] = finished[p] /\ Told(p, a) /\ p \in Pages
      BY <1>1, <2>1 DEF Holding, Waiting, LineInv
    <3>2. CASE p = r
      <4>1. line[p] \in Seq(Sent) /\ line'[p] \in Seq(Sent) /\ DOMAIN line[p] = 1 .. Len(line[p])
        BY <1>10, <3>1, FrameLostLine DEF LineInv
      <4>2. PICK i \in DOMAIN line[p] :
              /\ line[p][i].kind = "delivery"
              /\ Len(line'[p]) = Len(line[p]) - 1
              /\ \A j \in 1 .. Len(line[p]) - 1 :
                   line'[p][j] = IF j < i THEN line[p][j] ELSE line[p][j + 1]
        BY <1>10, <3>2, FrameLostLine
      <4>3. /\ Ends(line[p], a) => Ends(line'[p], a)
            /\ Follows(line[p], a) => Follows(line'[p], a)
        BY <4>1, <4>2, LostTold
      <4> QED
        BY <3>1, <4>3 DEF Told
    <3>3. CASE p # r
      <4>1. line'[p] = line[p]
        BY <1>10, <3>1, <3>3, FrameLostLine
      <4> QED
        BY <3>1, <4>1 DEF Told
    <3> QED
      BY <3>2, <3>3
  <2> QED
    BY <1>3, <2>2
<1>11. ASSUME NEW r \in Pages,
              ReadDelivery(r) \/ ReadCancel(r) \/ ReadOpenSet(r) \/ ReadHello(r)
       PROVE  SkipReaches'
  <2>1. UNCHANGED <<connected, silenced>>
    BY <1>11 DEF ReadDelivery, ReadCancel, ReadOpenSet, ReadHello, historyVars
  <2>2. ASSUME NEW p \in connected', NEW a \in silenced'
        PROVE  Told(p, a)'
    <3>1. p \in connected /\ Told(p, a) /\ a \in Alerts
      BY <1>1, <1>2, <2>1
    <3> QED
      BY <1>11, <3>1, ReadTold
  <2> QED
    BY <1>3, <2>2
<1>12. ASSUME NEW r \in Pages, Finish(r)
       PROVE  SkipReaches'
  <2>1. UNCHANGED <<line, connected, silenced>>
    BY <1>12 DEF Finish
  <2>2. ASSUME NEW p \in connected', NEW a \in silenced'
        PROVE  Told(p, a)'
    <3>1. p \in Pages /\ Told(p, a) /\ line'[p] = line[p]
      BY <1>1, <2>1 DEF LineInv
    <3>2. Holding(p)' \subseteq Holding(p) /\ finished[p] \subseteq finished'[p]
      BY <1>12, <3>1, FinishIs
    <3> QED
      BY <3>1, <3>2 DEF Told
  <2> QED
    BY <1>3, <2>2
<1>13. CASE Restart
  <2>1. connected' = {}
    BY <1>13 DEF Restart, Hangup
  <2> QED
    BY <1>3, <2>1
<1>14. ASSUME NEW b \in Alerts,
              \/ Record(b) \/ RecordUnanswered(b) \/ CancelWritten(b) \/ CancelFails(b)
              \/ FetchOpens(b) \/ FetchFails(b)
       PROVE  SkipReaches'
  BY <1>14, ToldAlone DEF Record, RecordUnanswered, CancelWritten, CancelFails, FetchOpens,
     FetchFails, Open, pageVars, historyVars
<1>15. ASSUME NEW p \in Pages, NEW b \in Alerts,
              \/ AckDelivered(p, b) \/ AckDeliveredFails(p, b) \/ MarkStarted(p, b)
              \/ AckCompleted(p, b)
       PROVE  SkipReaches'
  BY <1>15, ToldAlone DEF AckDelivered, AckDeliveredFails, MarkStarted, AckCompleted,
     pageVars, historyVars
<1>16. ASSUME NEW h \in handling, CompletionWritten(h) \/ CompletionFails(h) \/ AckCloses(h)
       PROVE  SkipReaches'
  BY <1>16, ToldAlone DEF CompletionWritten, CompletionFails, AckCloses, pageVars, historyVars
<1>17. ASSUME NEW p \in Pages, Mount(p)
       PROVE  SkipReaches'
  BY <1>17, ToldAlone DEF Mount, historyVars
<1>18. ASSUME NEW q \in posts, GiveUp(q)
       PROVE  SkipReaches'
  BY <1>18, ToldAlone DEF GiveUp, pageVars
<1>19. CASE ListOpen \/ ListFails
  BY <1>19, ToldAlone DEF ListOpen, ListFails, pageVars, historyVars
<1>20. CASE UNCHANGED vars
  BY <1>20, ToldAlone DEF vars, pageVars, historyVars
<1> QED
  BY <1>4, <1>6, <1>7, <1>8, <1>9, <1>10, <1>11, <1>12, <1>13, <1>14, <1>15, <1>16, <1>17,
     <1>18, <1>19, <1>20 DEF Next

\* A skipped or cleared alert leaves every page that has a stream: what still
\* holds it, or is on its way to bring it, has an end behind it (cancel's
\* broadcast, and the open set a page is sent when it subscribes).
THEOREM SkipReachesPages == Spec => []SkipReaches
<1> DEFINE Inv == StoreInv /\ LineInv /\ QueueInv /\ SkipReaches
<1>1. Init => Inv
  BY StoreStarts, LineStarts, QueuesStart DEF Init, SkipReaches
<1>2. Inv /\ [Next]_vars => Inv'
  BY StoreStep, LineStep, QueueStep, SkipStep
<1> QED
  BY <1>1, <1>2, PTL DEF Spec

--------------------------------------------------------------------------------
\* Types

\* What the store and the pages have under way is about alerts, pages and
\* entries there are.
WorkInv ==
    /\ row \subseteq Alerts /\ recording \subseteq Alerts /\ todo \subseteq Alerts
    /\ closing \subseteq Alerts /\ made \subseteq Alerts /\ shown \subseteq Alerts
    /\ unacked \subseteq Alerts
    /\ serving \in BOOLEAN /\ hydration \in {"listing", "fetching", "done"}
    /\ handling \subseteq Handlers /\ posts \subseteq Posts
    /\ stale \subseteq Pages /\ greeted \subseteq Pages
    /\ faults \in 0 .. MaxFaults

SceneInv == StoreInv /\ LineInv /\ QueueInv /\ WorkInv

LEMMA WorkStarts == Init => WorkInv
<1> SUFFICES ASSUME Init PROVE WorkInv
  OBVIOUS
<1>1. row \subseteq Alerts /\ made = row
  BY DeliveryAssumption DEF Init
<1>2. 0 \in 0 .. MaxFaults
  BY DeliveryAssumption
<1> QED
  BY <1>1, <1>2 DEF Init, WorkInv

LEMMA FaultCounts ==
    ASSUME faults \in 0 .. MaxFaults, NEW kind, Fault(kind)
    PROVE  faults' \in 0 .. MaxFaults
BY DeliveryAssumption DEF Fault

LEMMA SceneTyped == SceneInv => TypeOK
<1> SUFFICES ASSUME SceneInv PROVE TypeOK
  OBVIOUS
<1>1. started \in Seq(Held) /\ Cardinality(Elements(started)) = Len(started)
  BY DistinctIsCounted DEF SceneInv, StoreInv
<1>2. line \in [Pages -> Seq(Frames)]
  <2>1. Seq(Sent) \subseteq Seq(Frames)
    BY DEF Sent
  <2> QED
    BY <2>1 DEF SceneInv, LineInv
<1>3. ends \in [Alerts -> 0 .. 2]
  <2>1. 0 .. 1 \subseteq 0 .. 2
    OBVIOUS
  <2> QED
    BY <2>1 DEF SceneInv, StoreInv
<1> QED
  BY <1>1, <1>2, <1>3 DEF SceneInv, StoreInv, LineInv, QueueInv, WorkInv, TypeOK

LEMMA PumpWork ==
    ASSUME NEW p \in Pages, NEW q \in Seq(Alerts), NEW on, NEW fin, NEW acks \in SUBSET Posts,
           Pump(p, q, on, fin, acks), posts \subseteq Posts
    PROVE  posts' \subseteq Posts
<1>1. q # << >> => Head(q) \in Alerts
  OBVIOUS
<1> QED
  BY <1>1 DEF Pump, Post, Posts

\* The store's steps.
LEMMA StoreWorks ==
    ASSUME SceneInv,
           \/ \E a \in Alerts :
                \/ Record(a) \/ RecordReturns(a) \/ RecordUnanswered(a) \/ Sweep(a)
                \/ CancelWritten(a) \/ CancelFails(a) \/ FetchOpens(a) \/ FetchFails(a)
           \/ \E p \in Pages, a \in Alerts :
                \/ AckDelivered(p, a) \/ AckDeliveredFails(p, a) \/ MarkStarted(p, a)
                \/ AckCompleted(p, a)
           \/ \E h \in handling : CompletionWritten(h) \/ CompletionFails(h) \/ AckCloses(h)
           \/ SkipCurrent \/ ClearQueued \/ Restart \/ ListOpen \/ ListFails
    PROVE  WorkInv'
<1> USE DEF SceneInv, WorkInv
<1>1. ASSUME NEW a \in Alerts,
             Record(a) \/ RecordReturns(a) \/ RecordUnanswered(a) \/ Sweep(a)
      PROVE  WorkInv'
  BY <1>1, FaultCounts DEF Record, RecordReturns, RecordUnanswered, Sweep, storeVars, workVars,
     hydrateVars, pageVars, historyVars
<1>2. ASSUME NEW a \in Alerts, CancelWritten(a) \/ CancelFails(a)
      PROVE  WorkInv'
  BY <1>2, FaultCounts DEF CancelWritten, CancelFails, hydrateVars, pageVars, historyVars
<1>3. ASSUME NEW a \in Alerts, FetchOpens(a) \/ FetchFails(a)
      PROVE  WorkInv'
  BY <1>3, FaultCounts DEF FetchOpens, FetchFails, Fetched, workVars, pageVars, historyVars
<1>4. ASSUME NEW p \in Pages, NEW a \in Alerts,
             AckDelivered(p, a) \/ AckDeliveredFails(p, a) \/ MarkStarted(p, a)
      PROVE  WorkInv'
  BY <1>4, FaultCounts DEF AckDelivered, AckDeliveredFails, MarkStarted, workVars, hydrateVars,
     pageVars, historyVars
<1>5. ASSUME NEW p \in Pages, NEW a \in Alerts, AckCompleted(p, a)
      PROVE  WorkInv'
  <2>1. [alert |-> a, found |-> open[a], written |-> FALSE, waits |-> {p}] \in Handlers
    BY DEF StoreInv, Handlers, Entries
  <2> QED
    BY <1>5, <2>1 DEF AckCompleted, hydrateVars, pageVars, historyVars
<1>6. ASSUME NEW h \in handling, CompletionWritten(h)
      PROVE  WorkInv'
  <2>1. [h EXCEPT !.written = TRUE] \in Handlers
    BY DEF Handlers
  <2> QED
    BY <1>6, <2>1 DEF CompletionWritten, hydrateVars, pageVars, historyVars
<1>7. ASSUME NEW h \in handling, CompletionFails(h)
      PROVE  WorkInv'
  <2>1. {Post("completed", p, h.alert) : p \in h.waits} \subseteq Posts
    BY DEF Handlers, Post, Posts
  <2> QED
    BY <1>7, <2>1, FaultCounts DEF CompletionFails, hydrateVars, pageVars, historyVars
<1>8. ASSUME NEW h \in handling, AckCloses(h)
      PROVE  WorkInv'
  BY <1>8 DEF AckCloses, hydrateVars, pageVars
<1>9. ASSUME NEW S \in SUBSET Alerts, CancelAlerts(S)
      PROVE  WorkInv'
  BY <1>9 DEF CancelAlerts, hydrateVars, pageVars
<1>10. CASE SkipCurrent
  <2>1. started \in Seq(Held) /\ started # << >> /\ Held \subseteq Alerts
    BY <1>10 DEF SkipCurrent, StoreInv, Held
  <2>2. started[Len(started)] \in Alerts
    BY <2>1
  <2> QED
    BY <1>9, <1>10, <2>2 DEF SkipCurrent
<1>11. CASE ClearQueued
  BY <1>9, <1>11 DEF ClearQueued, Held
<1>12. CASE Restart
  <2>1. UNION {{Post("completed", p, h.alert) : p \in h.waits} : h \in handling} \subseteq Posts
    BY DEF Handlers, Post, Posts
  <2>2. faults' \in 0 .. MaxFaults
    BY <1>12, FaultCounts DEF Restart
  <2> QED
    BY <1>12, <2>1, <2>2 DEF Restart
<1>13. CASE ListOpen \/ ListFails
  BY <1>13, FaultCounts DEF ListOpen, ListFails, workVars, pageVars, historyVars
<1> QED
  BY <1>1, <1>2, <1>3, <1>4, <1>5, <1>6, <1>7, <1>8, <1>10, <1>11, <1>12, <1>13

LEMMA LoadWorks ==
    ASSUME SceneInv, NEW p \in Pages, Load(p)
    PROVE  /\ handling' \subseteq Handlers /\ posts' \subseteq Posts
           /\ stale' \subseteq Pages /\ greeted' \subseteq Pages
<1>1. ASSUME NEW h \in handling
      PROVE  [h EXCEPT !.waits = @ \ {p}] \in Handlers
  BY DEF SceneInv, WorkInv, Handlers
<1> QED
  BY <1>1 DEF Load, SceneInv, WorkInv

\* The pages' steps.
LEMMA PagesWork ==
    ASSUME SceneInv,
           \/ \E p \in Pages :
                \/ Subscribe(p) \/ Drop(p) \/ FrameLost(p) \/ Reload(p) \/ Mount(p) \/ Finish(p)
                \/ ReadDelivery(p) \/ ReadCancel(p) \/ ReadOpenSet(p) \/ ReadHello(p)
                \/ ReadOtherBoot(p)
           \/ \E q \in posts : GiveUp(q)
    PROVE  WorkInv'
<1> USE DEF SceneInv, WorkInv
<1>1. ASSUME NEW p \in Pages, Subscribe(p) \/ Mount(p) \/ ReadHello(p)
      PROVE  WorkInv'
  BY <1>1 DEF Subscribe, Mount, ReadHello, workVars, hydrateVars, pageVars, historyVars
<1>2. ASSUME NEW p \in Pages, Drop(p) \/ FrameLost(p)
      PROVE  WorkInv'
  BY <1>2, FaultCounts DEF Drop, FrameLost, workVars, hydrateVars, pageVars, historyVars
<1>3. ASSUME NEW p \in Pages, Reload(p) \/ ReadOtherBoot(p)
      PROVE  WorkInv'
  BY <1>3, LoadWorks, FaultCounts DEF Reload, ReadOtherBoot, hydrateVars, historyVars
<1>4. ASSUME NEW p \in Pages, Finish(p)
      PROVE  WorkInv'
  <2>1. PICK a \in playing[p] :
          /\ Pump(p, pending[p], {}, finished[p] \cup {a}, {Post("completed", p, a)})
          /\ shown' = shown \cup {a}
    BY <1>4 DEF Finish
  <2>2. a \in Alerts /\ pending[p] \in Seq(Alerts)
    BY DEF QueueInv
  <2>3. {Post("completed", p, a)} \in SUBSET Posts
    BY <2>2 DEF Post, Posts
  <2>4. posts' \subseteq Posts
    BY <2>1, <2>2, <2>3, PumpWork
  <2> QED
    BY <1>4, <2>1, <2>2, <2>4 DEF Finish, workVars, hydrateVars
<1>5. ASSUME NEW p \in Pages, ReadDelivery(p) \/ ReadCancel(p) \/ ReadOpenSet(p),
             posts' \subseteq Posts
      PROVE  WorkInv'
  BY <1>5 DEF ReadDelivery, ReadCancel, ReadOpenSet, workVars, hydrateVars, historyVars
<1>6. ASSUME NEW p \in Pages, ReadDelivery(p)
      PROVE  posts' \subseteq Posts
  <2>1. CASE p \in ready
    <3>1. PICK a \in Head(line[p]).alerts :
            Pump(p, IF a \in Holding(p) \cup finished[p] THEN pending[p] ELSE Append(pending[p], a),
                 playing[p], finished[p], {Post("delivered", p, a)})
      BY <1>6, <2>1 DEF ReadDelivery
    <3>2. a \in Alerts /\ pending[p] \in Seq(Alerts)
      BY <1>6, HeadSent DEF ReadDelivery, QueueInv
    <3>3. Append(pending[p], a) \in Seq(Alerts) /\ {Post("delivered", p, a)} \in SUBSET Posts
      BY <3>2 DEF Post, Posts
    <3> QED
      BY <3>1, <3>2, <3>3, PumpWork
  <2>2. CASE p \notin ready
    BY <1>6, <2>2 DEF ReadDelivery
  <2> QED
    BY <2>1, <2>2
<1>7. ASSUME NEW p \in Pages, NEW S, Discard(p, S)
      PROVE  posts' \subseteq Posts
  <2>1. Without(pending[p], S) \in Seq(Alerts)
    BY WithoutIs DEF QueueInv
  <2> QED
    BY <1>7, <2>1, PumpWork DEF Discard
<1>8. ASSUME NEW p \in Pages, ReadCancel(p) \/ ReadOpenSet(p)
      PROVE  posts' \subseteq Posts
  BY <1>7, <1>8 DEF ReadCancel, ReadOpenSet
<1>9. ASSUME NEW q \in posts, GiveUp(q)
      PROVE  WorkInv'
  <2>1. q.alert \in Alerts
    BY DEF Posts
  <2> QED
    BY <1>9, <2>1, FaultCounts DEF GiveUp, workVars, hydrateVars, pageVars
<1> QED
  BY <1>1, <1>2, <1>3, <1>4, <1>5, <1>6, <1>8, <1>9

LEMMA SceneStep == SceneInv /\ [Next]_vars => SceneInv'
<1> SUFFICES ASSUME SceneInv, [Next]_vars
             PROVE  SceneInv'
  OBVIOUS
<1>1. CASE Next
  <2>1. WorkInv'
    BY <1>1, StoreWorks, PagesWork DEF Next
  <2> QED
    BY <2>1, StoreStep, LineStep, QueueStep DEF SceneInv
<1>2. CASE UNCHANGED vars
  <2>1. WorkInv'
    BY <1>2 DEF SceneInv, WorkInv, vars, workVars, hydrateVars, pageVars, historyVars
  <2> QED
    BY <2>1, StoreStep, LineStep, QueueStep DEF SceneInv
<1> QED
  BY <1>1, <1>2

\* The types, the latest report kept once for each open entry among them.
THEOREM SceneTypes == Spec => []TypeOK
<1>1. Init => SceneInv
  BY StoreStarts, LineStarts, QueuesStart, WorkStarts DEF SceneInv
<1> QED
  BY <1>1, SceneStep, SceneTyped, PTL DEF Spec
================================================================================
