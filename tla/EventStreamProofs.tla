--------------------------- MODULE EventStreamProofs ---------------------------
(* What holds of the engine event stream for any sessions, clients and         *)
(* requests, any limit of the queues and any number of subscriptions.          *)
EXTENDS EventStream, WellFoundedInduction, TLAPS

(***************************************************************************)
(* The inductive invariant                                                 *)
(***************************************************************************)
SubType == [session : Sessions \cup {NoSession}, closed : BOOLEAN,
            queue : Seq(Frames), seq : Nat,
            pump : {"idle", "pushing", "settled", "failed"}, pushed : Seq(Frames)]

Waiting == [Requests -> Subs \cup {None}]

\* What is queued is newer than what was pushed, and in the order of seq.
Ordered(s) ==
    /\ \A i, j \in 1..Len(s.queue) : i < j => s.queue[i].seq < s.queue[j].seq
    /\ \A i \in 1..Len(s.pushed), j \in 1..Len(s.queue) : s.pushed[i].seq < s.queue[j].seq
    /\ \A i \in 1..Len(s.pushed) : s.pushed[i].seq <= s.seq
    /\ \A j \in 1..Len(s.queue) : s.queue[j].seq <= s.seq

\* Nothing is queued but within the limit, for a pump at work on an open
\* subscription.
Moves(s) == s.queue # << >> => s.pump # "idle" /\ ~s.closed /\ Len(s.queue) <= BufferLimit

\* The frame of q is on its way, or was pushed.
Asked(s, q) == Asks(s.queue, q) \/ Asks(s.pushed, q)

SubsOrdered == \A n \in Subs : Ordered(sub[n])

\* A subscription is as it was before it is made.
Untouched == \A n \in Subs \ Made : sub[n] = Unmade

IInv == TypeOK /\ PendingHeld /\ SubsOrdered /\ Untouched

(***************************************************************************)
(* What close, pump and enqueue make of a subscription                     *)
(***************************************************************************)
\* A set of naturals that is not empty has a least element.
LEMMA LeastExists ==
    ASSUME NEW B \in SUBSET Nat, B # {}
    PROVE  \E r \in B : \A s \in B : r <= s
<1> DEFINE Before == {ss \in Nat \X Nat : ss[1] < ss[2]}
<1>1. IsWellFoundedOn(Before, Nat)
  BY NatLessThanWellFounded DEF OpToRel
<1> HIDE DEF Before
<1>2. PICK r \in B : \A s \in B : ~(<<s, r>> \in Before)
  BY <1>1, WFMin, Zenon
<1>3. \A s \in B : ~(s < r)
  BY <1>2 DEF Before
<1> QED
  BY <1>3

\* close empties the queue and leaves what was pushed.
LEMMA ClosedIs ==
    ASSUME NEW s \in SubType
    PROVE  /\ Closed(s) \in SubType
           /\ Closed(s).session = s.session /\ Closed(s).closed = TRUE
           /\ Closed(s).pushed = s.pushed /\ Closed(s).queue = << >>
           /\ Closed(s).seq = s.seq
<1> DEFINE p == IF s.pump = "pushing" THEN "settled" ELSE s.pump
<1>1. << >> \in Seq(Frames)
  OBVIOUS
<1>2. Closed(s) = [s EXCEPT !.closed = TRUE, !.queue = << >>, !.pump = p]
  BY DEF Closed
<1>3. p \in {"idle", "pushing", "settled", "failed"}
  BY DEF SubType
<1> HIDE DEF p
<1> QED
  BY <1>1, <1>2, <1>3 DEF SubType

\* A closed subscription satisfies what is asked of all.
LEMMA ClosedKeeps ==
    ASSUME NEW s \in SubType, Ordered(s)
    PROVE  Ordered(Closed(s)) /\ Moves(Closed(s))
<1> DEFINE t == Closed(s)
<1>1. t.queue = << >> /\ t.pushed = s.pushed /\ t.seq = s.seq
  BY ClosedIs
<1> HIDE DEF t
<1>2. Len(t.queue) = 0
  BY <1>1
<1>3. Ordered(t) /\ Moves(t)
  BY <1>1, <1>2 DEF Ordered, Moves
<1> QED
  BY <1>3 DEF t

\* The first frame that is due, when one is.
LEMMA FirstDue ==
    ASSUME NEW D, D \subseteq Nat, D # {}
    PROVE  LET i == CHOOSE i \in D : \A j \in D : i <= j
           IN  i \in D /\ \A j \in D : i <= j
BY LeastExists

\* pump pushes one frame of the queue, newer than all it pushed before and asking
\* nothing that its caller gave up, or leaves the queue empty; no request that
\* waits on the subscription loses its frame.
LEMMA PumpedIs ==
    ASSUME NEW n \in Subs, NEW s \in SubType, NEW waiting \in Waiting, Ordered(s),
           s.closed => s.queue = << >>
    PROVE  LET r == Pumped(n, s, waiting)
           IN  /\ r \in SubType /\ r.session = s.session /\ r.closed = s.closed
               /\ r.queue # << >> => r.pump = "pushing" /\ ~r.closed
               /\ Len(r.queue) <= Len(s.queue)
               /\ Ordered(r)
               /\ ~s.closed => \A q \in Requests :
                     waiting[q] = n /\ Asked(s, q) => Asked(r, q)
               /\ r.pushed # s.pushed =>
                     \E f \in Frames :
                        /\ ~s.closed /\ r.pushed = Append(s.pushed, f)
                        /\ \E j \in 1..Len(s.queue) : f = s.queue[j]
                        /\ \A i \in 1..Len(s.pushed) : s.pushed[i].seq < f.seq
                        /\ f.asks # NoRequest => waiting[f.asks] = n
<1> DEFINE due == {i \in 1..Len(s.queue) : IsDue(n, s.queue[i], waiting)}
           r == Pumped(n, s, waiting)
<1>1. /\ s.queue \in Seq(Frames) /\ s.pushed \in Seq(Frames) /\ s.seq \in Nat
      /\ s.session \in Sessions \cup {NoSession} /\ s.closed \in BOOLEAN
  BY DEF SubType
<1>2. due \subseteq 1..Len(s.queue) /\ due \subseteq Nat
  BY <1>1
<1>3. \A q \in Requests, j \in 1..Len(s.queue) :
         waiting[q] = n /\ s.queue[j].asks = q => j \in due
  BY <1>1 DEF IsDue
<1>4. CASE s.closed \/ due = {}
  <2>1. r = [s EXCEPT !.queue = << >>, !.pump = "idle"]
    BY <1>4 DEF Pumped
  <2>2. /\ r \in SubType /\ r.session = s.session /\ r.closed = s.closed
        /\ r.queue = << >> /\ r.pushed = s.pushed /\ r.seq = s.seq
    <3>1. << >> \in Seq(Frames)
      OBVIOUS
    <3> HIDE DEF r, due
    <3> QED
      BY <2>1, <3>1 DEF SubType
  <2>3. Ordered(r)
    BY <2>2 DEF Ordered
  <2>4. ~s.closed => \A q \in Requests :
            waiting[q] = n /\ Asked(s, q) => Asked(r, q)
    BY <1>3, <1>4, <2>2 DEF Asked, Asks
  <2> QED
    BY <1>1, <2>2, <2>3, <2>4
<1>5. CASE ~s.closed /\ due # {}
  <2> DEFINE k == CHOOSE i \in due : \A j \in due : i <= j
  <2>1. k \in due /\ \A j \in due : k <= j
    BY <1>2, <1>5, FirstDue
  <2>2. r = [s EXCEPT !.queue = SubSeq(@, k + 1, Len(@)), !.pump = "pushing",
                      !.pushed = Append(@, s.queue[k])]
    BY <1>5 DEF Pumped
  <2>3. k \in 1..Len(s.queue) /\ k \in Nat /\ IsDue(n, s.queue[k], waiting)
    BY <1>2, <2>1
  <2> HIDE DEF k, due, r
  <2>12. s.queue[k] \in Frames
    BY <1>1, <2>3
  <2>4. /\ r.queue = SubSeq(s.queue, k + 1, Len(s.queue))
        /\ r.pushed = Append(s.pushed, s.queue[k])
        /\ r.session = s.session /\ r.closed = s.closed /\ r.seq = s.seq /\ r.pump = "pushing"
    BY <2>2 DEF SubType
  <2>5. /\ r.queue \in Seq(Frames) /\ r.pushed \in Seq(Frames)
        /\ Len(r.queue) = Len(s.queue) - k
        /\ \A j \in 1..Len(r.queue) : r.queue[j] = s.queue[j + k]
        /\ Len(r.pushed) = Len(s.pushed) + 1
        /\ \A i \in 1..Len(s.pushed) : r.pushed[i] = s.pushed[i]
        /\ r.pushed[Len(s.pushed) + 1] = s.queue[k]
    BY <1>1, <2>3, <2>4
  <2>6. r \in SubType
    BY <1>1, <2>2, <2>4, <2>5 DEF SubType
  <2>7. Ordered(r)
    <3>1. \A j \in 1..Len(r.queue) : j + k \in 1..Len(s.queue) /\ j + k > k
      BY <1>1, <2>3, <2>5
    <3>2. \A j \in 1..Len(r.queue) : s.queue[k].seq < r.queue[j].seq
      BY <2>3, <2>5, <3>1 DEF Ordered
    <3>3. \A i, j \in 1..Len(r.queue) : i < j => r.queue[i].seq < r.queue[j].seq
      <4>1. \A i, j \in 1..Len(r.queue) : i < j => i + k < j + k
        BY <1>1, <2>3, <2>5
      <4> QED
        BY <2>5, <3>1, <4>1 DEF Ordered
    <3>4. \A i \in 1..Len(r.pushed) : i \in 1..Len(s.pushed) \/ i = Len(s.pushed) + 1
      BY <1>1, <2>5
    <3>5. \A i \in 1..Len(r.pushed), j \in 1..Len(r.queue) : r.pushed[i].seq < r.queue[j].seq
      BY <2>5, <3>1, <3>2, <3>4 DEF Ordered
    <3>6. \A i \in 1..Len(r.pushed) : r.pushed[i].seq <= r.seq
      BY <2>3, <2>4, <2>5, <3>4 DEF Ordered
    <3>7. \A j \in 1..Len(r.queue) : r.queue[j].seq <= r.seq
      BY <2>4, <2>5, <3>1 DEF Ordered
    <3> QED
      BY <3>3, <3>5, <3>6, <3>7 DEF Ordered
  <2>8. ASSUME NEW q \in Requests, waiting[q] = n, Asked(s, q)
        PROVE  Asked(r, q)
    <3>1. CASE Asks(s.pushed, q)
      <4>1. PICK i \in 1..Len(s.pushed) : s.pushed[i].asks = q
        BY <3>1 DEF Asks
      <4>2. i \in 1..Len(r.pushed) /\ r.pushed[i].asks = q
        BY <1>1, <2>5, <4>1
      <4> QED
        BY <4>2 DEF Asked, Asks
    <3>2. CASE Asks(s.queue, q)
      <4>1. PICK j \in 1..Len(s.queue) : s.queue[j].asks = q
        BY <3>2 DEF Asks
      <4>2. j \in due
        BY <1>3, <2>8, <4>1
      <4>3. k <= j
        BY <2>1, <4>2
      <4>4. CASE j = k
        BY <1>1, <2>5, <4>1, <4>4 DEF Asked, Asks
      <4>5. CASE j # k
        <5>1. j - k \in 1..Len(r.queue) /\ r.queue[j - k] = s.queue[j]
          BY <1>1, <2>3, <2>5, <4>3, <4>5
        <5> QED
          BY <4>1, <5>1 DEF Asked, Asks
      <4> QED
        BY <4>4, <4>5
    <3> QED
      BY <2>8, <3>1, <3>2 DEF Asked
  <2>9. \A i \in 1..Len(s.pushed) : s.pushed[i].seq < s.queue[k].seq
    BY <2>3 DEF Ordered
  <2>10. s.queue[k].asks # NoRequest => waiting[s.queue[k].asks] = n
    BY <2>3 DEF IsDue
  <2>11. Len(r.queue) <= Len(s.queue)
    BY <1>1, <2>3, <2>5
  <2> QED
    BY <1>5, <2>3, <2>12, <2>4, <2>6, <2>7, <2>8, <2>9, <2>10, <2>11 DEF r
<1> QED
  BY <1>4, <1>5

\* What is behind the head of a queue.
LEMMA TailIs ==
    ASSUME NEW S, NEW x \in Seq(S), x # << >>
    PROVE  /\ Tail(x) \in Seq(S) /\ Len(Tail(x)) = Len(x) - 1
           /\ \A j \in 1..(Len(x) - 1) : Tail(x)[j] = x[j + 1]
OBVIOUS

\* What enqueue may make of a subscription: it stays itself, open and moving; who
\* waits for a frame that was not dropped waits for one that is there; and what it
\* pushes at once is the frame it was given.
StaysSound(n, r) ==
    /\ r \in SubType /\ r.session = sub[n].session /\ r.closed = FALSE
    /\ Moves(r) /\ Ordered(r)

KeepsAsked(n, q, waiting, r) ==
    \A p \in Requests :
       /\ waiting[p] = n /\ p \notin Dropped(n)
       /\ p = q \/ Asked(sub[n], p)
       => Asked(r, p)

PushesGiven(n, q, r) ==
    r.pushed # sub[n].pushed =>
       /\ Dropped(n) = {}
       /\ \E e \in Frames :
             /\ r.pushed = Append(sub[n].pushed, e)
             /\ \A i \in 1..Len(sub[n].pushed) : sub[n].pushed[i].seq < e.seq
             /\ e.asks = q

\* enqueue appends a frame newer than all others, and drops the oldest of a queue
\* that is full.
LEMMA EnqueuedIs ==
    ASSUME IInv, NEW n \in Subs, sub[n].closed = FALSE, NEW q \in Requests \cup {NoRequest},
           NEW waiting \in Waiting, q # NoRequest => waiting[q] = n
    PROVE  /\ StaysSound(n, Enqueued(n, q, waiting))
           /\ KeepsAsked(n, q, waiting, Enqueued(n, q, waiting))
           /\ PushesGiven(n, q, Enqueued(n, q, waiting))
<1> DEFINE s == sub[n]
           kept == IF Overflows(n) THEN Tail(s.queue) ELSE s.queue
           f == Frame(n, q)
           t == [s EXCEPT !.seq = @ + 1, !.queue = Append(kept, f)]
           r == Enqueued(n, q, waiting)
<1>1. s \in SubType /\ Ordered(s) /\ s.closed = FALSE
  BY DEF IInv, TypeOK, SubType, SubsOrdered
<1>2. /\ s.queue \in Seq(Frames) /\ s.pushed \in Seq(Frames) /\ s.seq \in Nat
      /\ BufferLimit \in Nat \ {0}
  BY <1>1, StreamAssumption DEF SubType
<1>3. f \in Frames /\ f.seq = s.seq + 1 /\ f.asks = q
  BY <1>2 DEF Frame, Frames
<1>4. Moves(s)
  BY DEF IInv, PendingHeld, QueueMoves, Moves
<1>5. Len(s.queue) <= BufferLimit
  BY <1>2, <1>4 DEF Moves
<1>6. /\ kept \in Seq(Frames)
      /\ Len(kept) < BufferLimit
      /\ Len(kept) <= Len(s.queue)
      /\ \A j \in 1..Len(kept) : kept[j] = s.queue[j + (Len(s.queue) - Len(kept))]
      /\ Len(kept) # Len(s.queue) => Len(kept) = Len(s.queue) - 1 /\ Overflows(n)
  <2>1. CASE Overflows(n)
    <3>1. Len(s.queue) = BufferLimit /\ s.queue # << >>
      BY <1>2, <1>5, <2>1 DEF Overflows
    <3>2. kept = Tail(s.queue)
      BY <2>1
    <3>3. kept \in Seq(Frames) /\ Len(kept) = Len(s.queue) - 1
          /\ \A j \in 1..(Len(s.queue) - 1) : kept[j] = s.queue[j + 1]
      BY <1>2, <3>1, <3>2, TailIs
    <3> HIDE DEF kept, s
    <3> QED
      BY <1>2, <2>1, <3>1, <3>3
  <2>2. CASE ~Overflows(n)
    <3>1. kept = s.queue /\ Len(s.queue) < BufferLimit
      BY <1>2, <2>2 DEF Overflows
    <3> HIDE DEF kept, s
    <3> QED
      BY <1>2, <3>1
  <2> QED
    BY <2>1, <2>2
<1> DEFINE d == Len(s.queue) - Len(kept)
<1>7. /\ t.queue = Append(kept, f) /\ t.seq = s.seq + 1 /\ t.pushed = s.pushed
      /\ t.session = s.session /\ t.closed = FALSE /\ t.pump = s.pump
  BY <1>1 DEF SubType
<1>8. t \in SubType
  <2>1. Append(kept, f) \in Seq(Frames) /\ s.seq + 1 \in Nat
    BY <1>2, <1>3, <1>6
  <2> HIDE DEF kept, f, s
  <2> QED
    BY <1>1, <2>1 DEF SubType
<1>9. r = IF s.pump = "idle" THEN Pumped(n, t, waiting) ELSE t
  BY DEF Enqueued
<1>10. \A p \in Requests : p \notin Dropped(n) /\ Asks(s.queue, p) => Asks(kept, p)
  <2> SUFFICES ASSUME NEW p \in Requests, p \notin Dropped(n), Asks(s.queue, p)
               PROVE  Asks(kept, p)
    OBVIOUS
  <2>1. PICK j \in 1..Len(s.queue) : s.queue[j].asks = p
    BY DEF Asks
  <2>2. CASE Overflows(n)
    <3>1. s.queue[1].asks # p
      <4>1. Head(s.queue) = s.queue[1]
        BY <1>2, <2>1
      <4>2. p # NoRequest
        BY StreamAssumption
      <4> QED
        BY <2>2, <4>1, <4>2 DEF Dropped
    <3>2. j > 1 /\ Len(s.queue) > 0 /\ s.queue # << >>
      BY <1>2, <2>1, <3>1
    <3>3. kept = Tail(s.queue)
      BY <2>2
    <3>4. Len(kept) = Len(s.queue) - 1 /\ kept[j - 1] = s.queue[j]
      <4>1. /\ Len(kept) = Len(s.queue) - 1
            /\ \A i \in 1..(Len(s.queue) - 1) : kept[i] = s.queue[i + 1]
        BY <1>2, <3>2, <3>3, TailIs
      <4> HIDE DEF kept, s
      <4>2. j - 1 \in 1..(Len(s.queue) - 1) /\ (j - 1) + 1 = j
        BY <1>2, <2>1, <3>2
      <4> QED
        BY <4>1, <4>2
    <3> HIDE DEF kept, s
    <3>5. j - 1 \in 1..Len(kept) /\ kept[j - 1].asks = p
      BY <1>2, <2>1, <3>2, <3>4
    <3> QED
      BY <3>5 DEF Asks
  <2>3. CASE ~Overflows(n)
    BY <2>3
  <2> QED
    BY <2>2, <2>3
<1> HIDE DEF s, kept, f, t, r
<1>11. /\ Len(t.queue) = Len(kept) + 1
       /\ \A j \in 1..Len(kept) : t.queue[j] = kept[j]
       /\ t.queue[Len(kept) + 1] = f
  BY <1>3, <1>6, <1>7
<1>12. Ordered(t)
  <2>1. d \in Nat
    BY <1>2, <1>6
  <2>2. \A j \in 1..Len(kept) : j + d \in 1..Len(s.queue) /\ t.queue[j] = s.queue[j + d]
    <3>1. Len(s.queue) \in Nat /\ Len(kept) \in Nat /\ Len(s.queue) = Len(kept) + d
      BY <1>2, <1>6
    <3> SUFFICES ASSUME NEW j \in 1..Len(kept)
                 PROVE  j + d \in 1..Len(s.queue) /\ t.queue[j] = s.queue[j + d]
      OBVIOUS
    <3>2. t.queue[j] = kept[j] /\ kept[j] = s.queue[j + d]
      BY <1>6, <1>11
    <3> HIDE DEF d
    <3>3. j + d \in 1..Len(s.queue)
      BY <2>1, <3>1
    <3> QED
      BY <3>2, <3>3
  <2>3. \A j \in 1..Len(t.queue) : j \in 1..Len(kept) \/ j = Len(kept) + 1
    BY <1>6, <1>11
  <2> HIDE DEF d
  <2>4. \A e \in Frames : e.seq \in Nat
    BY DEF Frames
  <2>5. /\ \A j \in 1..Len(s.queue) : s.queue[j].seq \in Nat /\ s.queue[j].seq <= s.seq
        /\ \A i \in 1..Len(s.pushed) : s.pushed[i].seq \in Nat /\ s.pushed[i].seq <= s.seq
    BY <1>1, <1>2, <2>4 DEF Ordered
  <2>6. \A j \in 1..Len(t.queue) : t.queue[j].seq <= t.seq
    BY <1>2, <1>3, <1>7, <1>11, <2>2, <2>3, <2>5
  <2>7. \A i \in 1..Len(t.pushed) : t.pushed[i].seq <= t.seq
    BY <1>2, <1>7, <2>5
  <2>8. ASSUME NEW i \in 1..Len(t.queue), NEW j \in 1..Len(t.queue), i < j
        PROVE  t.queue[i].seq < t.queue[j].seq
    <3>1. i \in 1..Len(kept)
      BY <1>6, <1>11, <2>8
    <3>2. CASE j = Len(kept) + 1
      <4>1. t.queue[j].seq = s.seq + 1
        BY <1>3, <1>11, <3>2
      <4>2. t.queue[i].seq \in Nat /\ t.queue[i].seq <= s.seq
        BY <2>2, <2>5, <3>1
      <4> QED
        BY <1>2, <4>1, <4>2
    <3>3. CASE j \in 1..Len(kept)
      <4>1. i + d < j + d
        BY <1>6, <2>1, <2>8, <3>1, <3>3
      <4> QED
        BY <1>1, <2>2, <3>1, <3>3, <4>1 DEF Ordered
    <3> QED
      BY <2>3, <3>2, <3>3
  <2>9. ASSUME NEW i \in 1..Len(t.pushed), NEW j \in 1..Len(t.queue)
        PROVE  t.pushed[i].seq < t.queue[j].seq
    <3>1. CASE j = Len(kept) + 1
      BY <1>2, <1>3, <1>7, <1>11, <2>5, <3>1
    <3>2. CASE j \in 1..Len(kept)
      BY <1>1, <1>7, <2>2, <3>2 DEF Ordered
    <3> QED
      BY <2>3, <3>1, <3>2
  <2> QED
    BY <2>6, <2>7, <2>8, <2>9 DEF Ordered
<1>13. ASSUME NEW p \in Requests, p \notin Dropped(n), p = q \/ Asked(s, p)
       PROVE  Asked(t, p)
  <2>1. CASE p = q
    <3>1. Len(kept) + 1 \in 1..Len(t.queue) /\ t.queue[Len(kept) + 1].asks = p
      BY <1>3, <1>6, <1>11, <2>1
    <3> QED
      BY <3>1 DEF Asked, Asks
  <2>2. CASE Asks(s.pushed, p)
    BY <1>7, <2>2 DEF Asked
  <2>3. CASE Asks(s.queue, p)
    <3>1. PICK j \in 1..Len(kept) : kept[j].asks = p
      BY <1>10, <1>13, <2>3 DEF Asks, s
    <3>2. j \in 1..Len(t.queue) /\ t.queue[j].asks = p
      BY <1>6, <1>11, <3>1
    <3> QED
      BY <3>2 DEF Asked, Asks
  <2> QED
    BY <1>13, <2>1, <2>2, <2>3 DEF Asked
<1>14. CASE s.pump = "idle"
  <2>1. s.queue = << >>
    BY <1>4, <1>14 DEF Moves
  <2>2. Len(t.queue) = 1
    BY <1>2, <1>6, <1>11, <2>1
  <2>3. r = Pumped(n, t, waiting)
    BY <1>9, <1>14
  <2>4. t.closed = FALSE /\ t.pushed = s.pushed /\ t.session = s.session
    BY <1>7
  <2>5. /\ r \in SubType /\ r.session = s.session /\ r.closed = FALSE
        /\ r.queue # << >> => r.pump = "pushing"
        /\ Len(r.queue) <= 1
        /\ Ordered(r)
        /\ \A p \in Requests : waiting[p] = n /\ Asked(t, p) => Asked(r, p)
        /\ r.pushed # s.pushed =>
              \E e \in Frames :
                 /\ r.pushed = Append(s.pushed, e)
                 /\ \A i \in 1..Len(s.pushed) : s.pushed[i].seq < e.seq
                 /\ \E j \in 1..Len(t.queue) : e = t.queue[j]
    <3>1. t \in SubType /\ Ordered(t) /\ (t.closed => t.queue = << >>) /\ ~t.closed
      BY <1>8, <1>12, <2>4
    <3>2. /\ r \in SubType /\ r.session = t.session /\ r.closed = t.closed
          /\ r.queue # << >> => r.pump = "pushing" /\ ~r.closed
          /\ Len(r.queue) <= Len(t.queue)
          /\ Ordered(r)
          /\ \A p \in Requests : waiting[p] = n /\ Asked(t, p) => Asked(r, p)
      BY <2>3, <3>1, PumpedIs
    <3>3. r.pushed # t.pushed =>
             \E e \in Frames :
                /\ r.pushed = Append(t.pushed, e)
                /\ \A i \in 1..Len(t.pushed) : t.pushed[i].seq < e.seq
                /\ \E j \in 1..Len(t.queue) : e = t.queue[j]
      <4>1. r.pushed # t.pushed =>
             \E e \in Frames :
                /\ ~t.closed /\ r.pushed = Append(t.pushed, e)
                /\ \E j \in 1..Len(t.queue) : e = t.queue[j]
                /\ \A i \in 1..Len(t.pushed) : t.pushed[i].seq < e.seq
                /\ e.asks # NoRequest => waiting[e.asks] = n
        BY <2>3, <3>1, PumpedIs
      <4> QED
        BY <4>1
    <3> QED
      BY <2>2, <2>4, <3>2, <3>3
  <2>8. \A j \in 1..Len(t.queue) : t.queue[j] = f
    BY <1>2, <1>6, <1>11, <2>1, <2>2
  <2>9. r.pushed # s.pushed =>
              \E e \in Frames :
                 /\ r.pushed = Append(s.pushed, e)
                 /\ \A i \in 1..Len(s.pushed) : s.pushed[i].seq < e.seq
                 /\ e.asks = q
    BY <1>3, <2>5, <2>8
  <2>10. Dropped(n) = {}
    <3>1. Len(sub[n].queue) = 0
      BY <2>1 DEF s
    <3> QED
      BY <1>2, <3>1 DEF Dropped, Overflows
  <2>6. Len(r.queue) \in Nat
    BY <2>5 DEF SubType
  <2>7. Moves(r)
    BY <1>2, <2>5, <2>6 DEF Moves
  <2> QED
    BY <1>13, <2>5, <2>7, <2>9, <2>10 DEF s, r, StaysSound, KeepsAsked, PushesGiven
<1>15. CASE s.pump # "idle"
  <2>1. r = t
    BY <1>9, <1>15
  <2>2. Len(t.queue) <= BufferLimit
    BY <1>2, <1>6, <1>11
  <2>3. Moves(r)
    BY <1>7, <1>15, <2>1, <2>2 DEF Moves
  <2> QED
    BY <1>7, <1>8, <1>12, <1>13, <2>1, <2>3 DEF s, r, StaysSound, KeepsAsked, PushesGiven
<1> QED
  BY <1>14, <1>15

(***************************************************************************)
(* The invariant is kept                                                   *)
(***************************************************************************)
LEMMA StreamStarts == Init => IInv
<1> SUFFICES ASSUME Init PROVE IInv
  OBVIOUS
<1>1. << >> \in Seq(Frames) /\ Len(<< >>) = 0
  OBVIOUS
<1>2. None \in Subs \cup {None} /\ None \notin Subs
  BY DEF None, Subs
<1>3. Unmade \in SubType
  BY <1>1 DEF Unmade, SubType
<1>4. TypeOK
  BY <1>2, <1>3 DEF Init, TypeOK, SubType
<1>5. \A n \in Subs : sub[n].session = NoSession /\ sub[n].queue = << >> /\ sub[n].pushed = << >>
  BY DEF Init, Unmade
<1>6. Live = {} /\ Made = {}
  BY <1>5 DEF Init, Live, Made
<1>7. HeldOpen
  BY <1>2, <1>6 DEF HeldOpen, Init
<1>8. PendingOpen /\ PendingAsked
  BY DEF PendingOpen, PendingAsked, Init
<1>9. QueueMoves
  BY <1>5 DEF QueueMoves
<1>10. SubsOrdered
  BY <1>1, <1>5 DEF SubsOrdered, Ordered
<1>11. Untouched
  BY DEF Untouched, Init
<1> QED
  BY <1>4, <1>7, <1>8, <1>9, <1>10, <1>11 DEF IInv, PendingHeld

\* What the invariant says of the subscriptions that are held.
LEMMA LiveIs ==
    ASSUME IInv
    PROVE  /\ Live \subseteq Subs /\ None \notin Live /\ None \notin Subs
           /\ \A n \in Live : sub[n].closed = FALSE /\ sub[n].session \in Sessions
           /\ \A n \in Subs : sub[n] \in SubType /\ Ordered(sub[n]) /\ Moves(sub[n])
           /\ \A x, y \in Sessions : holder[x] = holder[y] /\ holder[x] # None => x = y
<1>1. None \notin Subs
  BY DEF None, Subs
<1>2. /\ \A n \in Subs : sub[n] \in SubType /\ Ordered(sub[n]) /\ Moves(sub[n])
      /\ Live \subseteq Subs /\ None \notin Live
  BY DEF IInv, TypeOK, SubType, SubsOrdered, PendingHeld, QueueMoves, Moves, Live
<1>3. \A n \in Live : sub[n].closed = FALSE /\ sub[n].session \in Sessions
  <2> SUFFICES ASSUME NEW n \in Live PROVE sub[n].closed = FALSE /\ sub[n].session \in Sessions
    OBVIOUS
  <2>1. n \in Subs /\ n \in Made /\ ~sub[n].closed
    BY <1>2 DEF IInv, PendingHeld, HeldOpen
  <2>2. sub[n] \in SubType /\ sub[n].session # NoSession
    BY <1>2, <2>1 DEF Made
  <2> QED
    BY <2>1, <2>2 DEF SubType
<1>4. \A x, y \in Sessions : holder[x] = holder[y] /\ holder[x] # None => x = y
  BY DEF IInv, PendingHeld, HeldOpen
<1> QED
  BY <1>1, <1>2, <1>3, <1>4

\* settle, for those of a set.
LEMMA FailIs ==
    ASSUME IInv, NEW qs \in SUBSET Requests, Fail(qs)
    PROVE  /\ waitsOn' \in Waiting
           /\ outcome' \in [Requests -> {"none", "waiting", "answered", "failed"}]
           /\ \A q \in Requests : (outcome'[q] = "waiting") = (waitsOn'[q] # None)
           /\ \A q \in Requests :
                 waitsOn'[q] # None => q \notin qs /\ waitsOn'[q] = waitsOn[q] /\ waitsOn[q] \in Live
<1>1. /\ waitsOn \in Waiting
      /\ outcome \in [Requests -> {"none", "waiting", "answered", "failed"}]
      /\ \A q \in Requests : (outcome[q] = "waiting") = (waitsOn[q] # None)
      /\ \A q \in Requests : waitsOn[q] # None => waitsOn[q] \in Live
  BY DEF IInv, TypeOK, Waiting, PendingHeld, PendingOpen
<1> QED
  BY <1>1 DEF Fail, Waiting

\* A step that closes the subscriptions ns, whatever its occasion, and fails what
\* waits on them.
LEMMA ClosingKeeps ==
    ASSUME IInv, NEW ns \in SUBSET Made,
           sub' \in [Subs -> SubType],
           \A n \in Subs \ ns : sub'[n] = sub[n],
           \A n \in ns : /\ sub'[n].session = sub[n].session /\ sub'[n].closed = TRUE
                         /\ sub'[n].queue = << >> /\ Ordered(sub'[n]),
           holder' = [x \in Sessions |-> IF holder[x] \in ns THEN None ELSE holder[x]],
           Fail(WaitingOn(ns)),
           published' \in Nat, stopped' \in BOOLEAN, stopped' => Live \subseteq ns
    PROVE  IInv'
<1>1. holder \in [Sessions -> Subs \cup {None}] /\ holder' \in [Sessions -> Subs \cup {None}]
  BY DEF IInv, TypeOK
<1>2. Live' = Live \ ns /\ ns \subseteq Subs
  BY <1>1, LiveIs DEF Live, Made
<1>3. WaitingOn(ns) \in SUBSET Requests
  BY DEF WaitingOn
<1>4. TypeOK'
  BY <1>1, <1>3, FailIs DEF TypeOK, SubType, Waiting
<1>5. \A n \in Subs : sub'[n].session = sub[n].session
  BY <1>2
<1>6. HeldOpen'
  <2>1. \A x \in Sessions : holder'[x] # None => sub'[holder'[x]].session = x
    BY <1>1, <1>5 DEF IInv, PendingHeld, HeldOpen
  <2>2. \A n \in Subs : n \in Live' <=> n \in Made' /\ ~sub'[n].closed
    BY <1>2, <1>5 DEF IInv, PendingHeld, HeldOpen, Made
  <2>3. stopped' => Live' = {}
    BY <1>2
  <2> QED
    BY <2>1, <2>2, <2>3 DEF HeldOpen
<1>7. \A q \in Requests : waitsOn'[q] # None =>
         /\ waitsOn'[q] = waitsOn[q] /\ waitsOn[q] \in Live \ ns
         /\ sub'[waitsOn[q]] = sub[waitsOn[q]]
  BY <1>3, FailIs, LiveIs DEF WaitingOn
<1>8. PendingOpen'
  BY <1>2, <1>3, <1>7, FailIs DEF PendingOpen
<1>9. PendingAsked'
  BY <1>7 DEF IInv, PendingHeld, PendingAsked
<1>10. QueueMoves'
  BY DEF IInv, PendingHeld, QueueMoves
<1>11. SubsOrdered'
  BY DEF IInv, SubsOrdered
<1>12. Untouched'
  BY <1>5 DEF IInv, Untouched, Made
<1> QED
  BY <1>4, <1>6, <1>8, <1>9, <1>10, <1>11, <1>12 DEF IInv, PendingHeld

\* A step that closes nothing.
LEMMA OpenKeeps ==
    ASSUME IInv, sub' \in [Subs -> SubType], holder' = holder, stopped' = stopped,
           published' \in Nat,
           \A n \in Subs : /\ sub'[n].session = sub[n].session /\ sub'[n].closed = sub[n].closed
                           /\ Moves(sub'[n]) /\ Ordered(sub'[n]),
           \A n \in Subs \ Made : sub'[n] = sub[n],
           waitsOn' \in Waiting,
           outcome' \in [Requests -> {"none", "waiting", "answered", "failed"}],
           \A q \in Requests : (outcome'[q] = "waiting") = (waitsOn'[q] # None),
           \A q \in Requests : waitsOn'[q] # None =>
                 waitsOn'[q] \in Live /\ Asked(sub'[waitsOn'[q]], q)
    PROVE  IInv'
<1>1. Live' = Live
  BY DEF Live
<1>2. TypeOK'
  BY DEF IInv, TypeOK, SubType, Waiting
<1>3. HeldOpen'
  <2>1. holder \in [Sessions -> Subs \cup {None}]
    BY DEF IInv, TypeOK
  <2>2. \A x \in Sessions : holder'[x] # None => sub'[holder'[x]].session = x
    BY <2>1 DEF IInv, PendingHeld, HeldOpen
  <2>3. \A n \in Subs : n \in Live' <=> n \in Made' /\ ~sub'[n].closed
    BY <1>1 DEF IInv, PendingHeld, HeldOpen, Made
  <2> QED
    BY <1>1, <2>2, <2>3 DEF IInv, PendingHeld, HeldOpen
<1>4. PendingOpen' /\ PendingAsked'
  BY <1>1 DEF PendingOpen, PendingAsked, Asked
<1>5. QueueMoves' /\ SubsOrdered'
  BY DEF QueueMoves, SubsOrdered, Moves
<1>6. Untouched'
  BY DEF IInv, Untouched, Made
<1> QED
  BY <1>2, <1>3, <1>4, <1>5, <1>6 DEF IInv, PendingHeld

\* What a step may push onto a subscription: nothing, or one newer frame, on an
\* open one, of a caller that waits.
Push(n) ==
    sub'[n].pushed # sub[n].pushed =>
       \E f \in Frames :
          /\ ~sub[n].closed /\ sub'[n].pushed = Append(sub[n].pushed, f)
          /\ \A i \in 1..Len(sub[n].pushed) : sub[n].pushed[i].seq < f.seq
          /\ f.asks # NoRequest => waitsOn'[f.asks] = n

Pushes == \A n \in Subs : Push(n)

\* subscribe.
LEMMA SubscribeKeeps ==
    ASSUME IInv, NEW x \in Sessions, Subscribe(x)
    PROVE  IInv' /\ Pushes
<1>1. PICK n \in Subs \ Made :
         /\ sub' = [m \in Subs |-> IF m = n THEN [Unmade EXCEPT !.session = x]
                                   ELSE IF m = holder[x] THEN Closed(sub[m])
                                   ELSE sub[m]]
         /\ holder' = [holder EXCEPT ![x] = n]
  BY DEF Subscribe
<1> DEFINE made == [Unmade EXCEPT !.session = x]
           old == holder[x]
<1>2. /\ made \in SubType /\ made.session = x /\ made.closed = FALSE /\ made.queue = << >>
      /\ made.pushed = << >> /\ made.pump = "idle" /\ made.seq = 0
  <2>1. << >> \in Seq(Frames)
    OBVIOUS
  <2> QED
    BY <2>1 DEF Unmade, SubType
<1>3. Ordered(made) /\ Moves(made)
  <2> HIDE DEF made
  <2>1. Len(made.queue) = 0 /\ Len(made.pushed) = 0
    BY <1>2
  <2> QED
    BY <1>2, <2>1 DEF Ordered, Moves
<1>4. x # NoSession /\ holder \in [Sessions -> Subs \cup {None}]
  BY StreamAssumption DEF IInv, TypeOK
<1>5. old = None \/ (old \in Live /\ old \in Subs /\ old # n /\ old \in Made)
  BY <1>4, LiveIs DEF Live, IInv, PendingHeld, HeldOpen
<1>6. n \notin Live /\ n # None
  BY LiveIs DEF IInv, PendingHeld, HeldOpen
<1> HIDE DEF made, old
<1>7. /\ sub'[n] = made
      /\ \A m \in Subs : m # n /\ m = old => sub'[m] = Closed(sub[m])
      /\ \A m \in Subs : m # n /\ m # old => sub'[m] = sub[m]
  BY <1>1 DEF made, old
<1>8. \A m \in Subs : sub'[m] \in SubType /\ Ordered(sub'[m]) /\ Moves(sub'[m])
  BY <1>2, <1>3, <1>7, LiveIs, ClosedIs, ClosedKeeps
<1>9. sub' \in [Subs -> SubType]
  BY <1>1, <1>8
<1>10. Live' = (Live \ {old}) \cup {n}
  <2>1. holder' \in [Sessions -> Subs \cup {None}] /\ holder'[x] = n
        /\ \A y \in Sessions \ {x} : holder'[y] = holder[y]
    BY <1>1, <1>4
  <2>2. \A y \in Sessions \ {x} : holder[y] # None => holder[y] # old
    BY LiveIs DEF old
  <2>3. Live' \subseteq (Live \ {old}) \cup {n}
    BY <2>1, <2>2 DEF Live
  <2>4. n \in Live' /\ Live \ {old} \subseteq Live'
    BY <1>6, <2>1 DEF Live, old
  <2> QED
    BY <2>3, <2>4
<1>11. Fail(WaitingOn({old} \ {None})) /\ WaitingOn({old} \ {None}) \in SUBSET Requests
  BY DEF Subscribe, old, WaitingOn
<1>12. published' = published /\ stopped' = stopped /\ stopped = FALSE
  BY DEF Subscribe, IInv, TypeOK
<1>13. TypeOK'
  <2>1. holder' \in [Sessions -> Subs \cup {None}]
    BY <1>1, <1>4
  <2> QED
    BY <1>9, <1>11, <1>12, <2>1, FailIs DEF IInv, TypeOK, SubType, Waiting
<1>14. HeldOpen'
  <2>1. \A y \in Sessions : holder'[y] # None => sub'[holder'[y]].session = y
    <3> SUFFICES ASSUME NEW y \in Sessions, holder'[y] # None
                 PROVE  sub'[holder'[y]].session = y
      OBVIOUS
    <3>1. CASE y = x
      BY <1>1, <1>2, <1>4, <1>7, <3>1
    <3>2. CASE y # x
      <4>1. holder'[y] = holder[y] /\ holder[y] \in Live /\ holder[y] # old
        BY <1>1, <1>4, <3>2, LiveIs DEF Live, old
      <4>2. sub'[holder[y]] = sub[holder[y]]
        BY <1>6, <1>7, <4>1, LiveIs
      <4> QED
        BY <4>1, <4>2 DEF IInv, PendingHeld, HeldOpen
    <3> QED
      BY <3>1, <3>2
  <2>2. \A m \in Subs : m \in Live' <=> m \in Made' /\ ~sub'[m].closed
    <3> SUFFICES ASSUME NEW m \in Subs PROVE m \in Live' <=> m \in Made' /\ ~sub'[m].closed
      OBVIOUS
    <3>1. CASE m = n
      BY <1>2, <1>4, <1>7, <1>10, <3>1 DEF Made
    <3>2. CASE m # n /\ m = old
      <4>1. sub'[m].closed = TRUE
        BY <1>7, <3>2, ClosedIs, LiveIs
      <4>2. m \notin Live'
        BY <1>10, <3>2
      <4> QED
        BY <4>1, <4>2
    <3>3. CASE m # n /\ m # old
      <4>1. sub'[m] = sub[m] /\ (m \in Live' <=> m \in Live)
        BY <1>7, <1>10, <3>3
      <4> QED
        BY <4>1 DEF IInv, PendingHeld, HeldOpen, Made
    <3> QED
      BY <3>1, <3>2, <3>3
  <2> QED
    BY <1>12, <2>1, <2>2 DEF HeldOpen
<1>15. \A q \in Requests : waitsOn'[q] # None =>
          /\ waitsOn'[q] = waitsOn[q] /\ waitsOn[q] \in Live /\ waitsOn[q] # old
          /\ sub'[waitsOn[q]] = sub[waitsOn[q]]
  <2> SUFFICES ASSUME NEW q \in Requests, waitsOn'[q] # None
               PROVE  /\ waitsOn'[q] = waitsOn[q] /\ waitsOn[q] \in Live /\ waitsOn[q] # old
                      /\ sub'[waitsOn[q]] = sub[waitsOn[q]]
    OBVIOUS
  <2>1. waitsOn'[q] = waitsOn[q] /\ waitsOn[q] \in Live /\ q \notin WaitingOn({old} \ {None})
    BY <1>11, FailIs
  <2>2. waitsOn[q] # old
    BY <2>1, LiveIs DEF WaitingOn
  <2> QED
    BY <1>6, <1>7, <2>1, <2>2, LiveIs
<1>16. PendingOpen' /\ PendingAsked'
  BY <1>10, <1>11, <1>15, FailIs DEF PendingOpen, PendingAsked, IInv, PendingHeld
<1>17. QueueMoves' /\ SubsOrdered'
  BY <1>8 DEF QueueMoves, SubsOrdered, Moves
<1>18. Pushes
  <2>1. sub[n].pushed = << >>
    BY DEF IInv, Untouched, Unmade
  <2>2. \A m \in Subs : sub'[m].pushed = sub[m].pushed
    <3> SUFFICES ASSUME NEW m \in Subs PROVE sub'[m].pushed = sub[m].pushed
      OBVIOUS
    <3>1. CASE m = n
      BY <1>2, <1>7, <2>1, <3>1
    <3>2. CASE m # n /\ m = old
      <4>1. sub'[m] = Closed(sub[m])
        BY <1>7, <3>2
      <4>2. sub[m] \in SubType
        BY DEF IInv, TypeOK, SubType
      <4>3. Closed(sub[m]).pushed = sub[m].pushed
        BY <4>2, ClosedIs
      <4> QED
        BY <4>1, <4>3
    <3>3. CASE m # n /\ m # old
      BY <1>7, <3>3
    <3> QED
      BY <3>1, <3>2, <3>3
  <2> QED
    BY <2>2 DEF Pushes, Push
<1>19. Untouched'
  <2>1. \A m \in Subs \ Made' : m # n /\ m # old /\ m \notin Made
    <3> SUFFICES ASSUME NEW m \in Subs \ Made' PROVE m # n /\ m # old /\ m \notin Made
      OBVIOUS
    <3>1. sub'[m].session = NoSession
      BY DEF Made
    <3>2. m # n
      BY <1>2, <1>4, <1>7, <3>1
    <3>3. sub'[m].session = sub[m].session
      BY <1>7, <3>2, ClosedIs, LiveIs
    <3> QED
      BY <1>5, <3>1, <3>2, <3>3, LiveIs DEF Made
  <2> QED
    BY <1>7, <2>1 DEF IInv, Untouched
<1> QED
  BY <1>13, <1>14, <1>16, <1>17, <1>18, <1>19 DEF IInv, PendingHeld

\* CloseAll, of subscriptions that were made.
LEMMA CloseAllIs ==
    ASSUME IInv, NEW ns \in SUBSET Made,
           sub' = [n \in Subs |-> IF n \in ns THEN Closed(sub[n]) ELSE sub[n]]
    PROVE  /\ sub' \in [Subs -> SubType]
           /\ \A n \in Subs \ ns : sub'[n] = sub[n]
           /\ \A n \in ns : /\ sub'[n].session = sub[n].session /\ sub'[n].closed = TRUE
                            /\ sub'[n].queue = << >> /\ Ordered(sub'[n])
           /\ Pushes
<1>1. ns \subseteq Subs
  BY DEF Made
<1>2. \A n \in Subs : sub'[n] \in SubType /\ sub'[n].pushed = sub[n].pushed
  BY LiveIs, ClosedIs
<1>3. Pushes
  BY <1>2 DEF Pushes, Push
<1> QED
  BY <1>1, <1>2, <1>3, LiveIs, ClosedIs, ClosedKeeps

\* Those that are held were made.
LEMMA LiveMade == IInv => Live \subseteq Made
BY LiveIs DEF IInv, PendingHeld, HeldOpen

\* drop, of open subscriptions.
LEMMA DropKeeps ==
    ASSUME IInv, NEW ns \in SUBSET Made, \A n \in ns : ~sub[n].closed, Drop(ns)
    PROVE  IInv' /\ Pushes
<1>1. {n \in ns : ~sub[n].closed} = ns
  OBVIOUS
<1>2. /\ sub' = [n \in Subs |-> IF n \in ns THEN Closed(sub[n]) ELSE sub[n]]
      /\ Fail(WaitingOn(ns))
      /\ holder' = [x \in Sessions |-> IF holder[x] \in ns THEN None ELSE holder[x]]
      /\ published' = published /\ stopped' = stopped
  BY <1>1 DEF Drop, CloseAll
<1>3. published' \in Nat /\ stopped' \in BOOLEAN /\ (stopped' => Live \subseteq ns)
  BY <1>2 DEF IInv, TypeOK, PendingHeld, HeldOpen
<1> QED
  BY <1>2, <1>3, CloseAllIs, ClosingKeeps

LEMMA StopKeeps == ASSUME IInv, Stop PROVE IInv' /\ Pushes
<1>1. /\ sub' = [n \in Subs |-> IF n \in Live THEN Closed(sub[n]) ELSE sub[n]]
      /\ Fail(WaitingOn(Live))
      /\ published' = published /\ stopped' = TRUE
  BY DEF Stop, CloseAll
<1>2. Live \in SUBSET Made
  BY LiveMade
<1>3. holder' = [x \in Sessions |-> IF holder[x] \in Live THEN None ELSE holder[x]]
  <2>1. \A x \in Sessions : holder[x] \in Live \/ holder[x] = None
    BY DEF Live
  <2> QED
    BY <2>1 DEF Stop
<1>4. published' \in Nat /\ stopped' \in BOOLEAN
  BY <1>1 DEF IInv, TypeOK
<1> QED
  BY <1>1, <1>2, <1>3, <1>4, CloseAllIs, ClosingKeeps

\* dropSubscription, of a subscription that may be closed already.
LEMMA GivesUpKeeps ==
    ASSUME IInv, NEW n \in Subs, PumpGivesUp(n)
    PROVE  IInv' /\ Pushes
<1>1. n \in Made
  BY DEF PumpGivesUp, IInv, Untouched, Unmade
<1> DEFINE c == Closed(sub[n])
           d == [c EXCEPT !.pump = "idle"]
<1>2. /\ c \in SubType /\ c.session = sub[n].session /\ c.closed = TRUE
      /\ c.pushed = sub[n].pushed /\ c.queue = << >> /\ c.seq = sub[n].seq /\ Ordered(c)
  BY LiveIs, ClosedIs, ClosedKeeps
<1>3. sub' = [sub EXCEPT ![n] = d]
  BY DEF PumpGivesUp
<1> HIDE DEF c
<1>4. /\ d \in SubType /\ d.session = c.session /\ d.closed = c.closed
      /\ d.pushed = c.pushed /\ d.queue = c.queue /\ d.seq = c.seq
  BY <1>2 DEF SubType
<1> HIDE DEF d
<1>5. Ordered(d)
  BY <1>2, <1>4 DEF Ordered
<1>6. sub \in [Subs -> SubType]
  BY DEF IInv, TypeOK, SubType
<1>7. /\ sub' \in [Subs -> SubType] /\ sub'[n] = d
      /\ \A m \in Subs \ {n} : sub'[m] = sub[m]
  BY <1>3, <1>4, <1>6
<1>8. Pushes
  BY <1>2, <1>4, <1>7 DEF Pushes, Push
<1>9. holder' = [x \in Sessions |-> IF holder[x] \in {n} THEN None ELSE holder[x]]
  BY DEF PumpGivesUp
<1>10. Fail(WaitingOn({n})) /\ published' \in Nat /\ stopped' \in BOOLEAN
       /\ (stopped' => Live \subseteq {n})
  BY DEF PumpGivesUp, IInv, TypeOK, PendingHeld, HeldOpen
<1> QED
  BY <1>1, <1>2, <1>4, <1>5, <1>7, <1>8, <1>9, <1>10, ClosingKeeps

\* What enqueue drops asks for requests, if for anything.
LEMMA DroppedAsks == ASSUME IInv, NEW n \in Subs PROVE Dropped(n) \in SUBSET Requests
<1>1. sub[n].queue \in Seq(Frames) /\ BufferLimit \in Nat \ {0}
  BY LiveIs, StreamAssumption DEF SubType
<1>2. CASE Overflows(n)
  <2>1. sub[n].queue # << >>
    BY <1>1, <1>2 DEF Overflows
  <2>2. Head(sub[n].queue) \in Frames
    BY <1>1, <2>1
  <2> QED
    BY <1>2, <2>2 DEF Dropped, Frames
<1>3. CASE ~Overflows(n)
  BY <1>3 DEF Dropped
<1> QED
  BY <1>2, <1>3

\* Who waits for what, as the invariant has it.
LEMMA WaitingIs ==
    ASSUME IInv
    PROVE  /\ waitsOn \in Waiting
           /\ outcome \in [Requests -> {"none", "waiting", "answered", "failed"}]
           /\ \A q \in Requests : (outcome[q] = "waiting") = (waitsOn[q] # None)
           /\ \A q \in Requests : waitsOn[q] # None =>
                 waitsOn[q] \in Live /\ Asked(sub[waitsOn[q]], q)
           /\ published \in Nat /\ sub \in [Subs -> SubType]
BY DEF IInv, TypeOK, SubType, Waiting, PendingHeld, PendingOpen, PendingAsked, Asked

LEMMA PublishKeeps == ASSUME IInv, Publish PROVE IInv' /\ Pushes
<1>1. PICK ns \in SUBSET Live :
         /\ Fail(UNION {Dropped(n) : n \in ns})
         /\ sub' = [n \in Subs |-> IF n \in ns THEN Enqueued(n, NoRequest, waitsOn) ELSE sub[n]]
  BY DEF Publish
<1> DEFINE qs == UNION {Dropped(n) : n \in ns}
<1>2. qs \in SUBSET Requests
  BY DroppedAsks, LiveIs
<1>3. \A n \in ns : /\ n \in Subs /\ sub[n].closed = FALSE /\ sub'[n] = Enqueued(n, NoRequest, waitsOn)
  BY <1>1, LiveIs
<1>4. \A n \in ns : /\ StaysSound(n, sub'[n])
                     /\ KeepsAsked(n, NoRequest, waitsOn, sub'[n])
                     /\ PushesGiven(n, NoRequest, sub'[n])
  BY <1>3, EnqueuedIs, WaitingIs
<1>5. \A n \in Subs \ ns : sub'[n] = sub[n]
  BY <1>1
<1>6. /\ \A n \in Subs : /\ sub'[n] \in SubType
                         /\ sub'[n].session = sub[n].session /\ sub'[n].closed = sub[n].closed
                         /\ Moves(sub'[n]) /\ Ordered(sub'[n])
      /\ sub' \in [Subs -> SubType]
  BY <1>1, <1>3, <1>4, <1>5, LiveIs DEF StaysSound
<1>7. \A n \in Subs \ Made : sub'[n] = sub[n]
  BY <1>5, LiveMade
<1>8. \A q \in Requests : waitsOn'[q] # None =>
         waitsOn'[q] \in Live /\ Asked(sub'[waitsOn'[q]], q)
  <2> SUFFICES ASSUME NEW q \in Requests, waitsOn'[q] # None
               PROVE  waitsOn'[q] \in Live /\ Asked(sub'[waitsOn'[q]], q)
    OBVIOUS
  <2>1. waitsOn'[q] = waitsOn[q] /\ waitsOn[q] \in Live /\ waitsOn[q] # None /\ q \notin qs
    BY <1>1, <1>2, FailIs
  <2>2. Asked(sub[waitsOn[q]], q)
    BY <2>1, WaitingIs
  <2>3. CASE waitsOn[q] \in ns
    <3>1. q \notin Dropped(waitsOn[q])
      BY <2>1, <2>3
    <3> QED
      BY <1>4, <2>1, <2>2, <2>3, <3>1 DEF KeepsAsked
  <2>4. CASE waitsOn[q] \notin ns
    BY <1>5, <2>1, <2>2, <2>4, LiveIs
  <2> QED
    BY <2>3, <2>4
<1>9. holder' = holder /\ stopped' = stopped /\ published' \in Nat
  BY WaitingIs DEF Publish
<1>10. /\ waitsOn' \in Waiting
       /\ outcome' \in [Requests -> {"none", "waiting", "answered", "failed"}]
       /\ \A q \in Requests : (outcome'[q] = "waiting") = (waitsOn'[q] # None)
  BY <1>1, <1>2, FailIs
<1>11. Pushes
  BY <1>3, <1>4, <1>5 DEF Pushes, Push, PushesGiven
<1> QED
  BY <1>6, <1>7, <1>8, <1>9, <1>10, <1>11, OpenKeeps

LEMMA RequestKeeps ==
    ASSUME IInv, NEW q \in Requests, NEW c \in Clients, Request(q, c)
    PROVE  IInv' /\ Pushes
<1>1. CASE stopped \/ LiveOf(c) = {}
  <2>1. /\ outcome' = [outcome EXCEPT ![q] = "failed"] /\ sub' = sub /\ waitsOn' = waitsOn
        /\ holder' = holder /\ published' = published /\ stopped' = stopped
        /\ outcome[q] = "none"
    BY <1>1 DEF Request
  <2>2. Pushes
    BY <2>1 DEF Pushes, Push
  <2>3. /\ outcome' \in [Requests -> {"none", "waiting", "answered", "failed"}]
        /\ \A p \in Requests : (outcome'[p] = "waiting") = (waitsOn'[p] # None)
    BY <2>1, WaitingIs
  <2> QED
    BY <2>1, <2>2, <2>3, WaitingIs, LiveIs, OpenKeeps
<1>2. CASE ~(stopped \/ LiveOf(c) = {})
  <2> DEFINE n == Newest(c)
             asked == [waitsOn EXCEPT ![q] = n]
  <2>1. n \in Live /\ n \in Subs
    <3>1. LiveOf(c) \in SUBSET Nat /\ LiveOf(c) \subseteq Live
      BY LiveIs DEF LiveOf, Subs
    <3>2. \E m \in LiveOf(c) : \A k \in LiveOf(c) : k <= m
      <4> DEFINE B == {MaxSubs - k : k \in LiveOf(c)}
      <4>1. \A k \in LiveOf(c) : k \in Nat /\ k <= MaxSubs /\ MaxSubs \in Nat
        BY LiveIs, StreamAssumption DEF LiveOf, Subs
      <4>2. B \in SUBSET Nat /\ B # {}
        BY <1>2, <4>1
      <4>3. PICK b \in B : \A d \in B : b <= d
        BY <4>2, LeastExists
      <4>4. PICK m \in LiveOf(c) : b = MaxSubs - m
        BY <4>3
      <4>5. \A k \in LiveOf(c) : MaxSubs - m <= MaxSubs - k
        BY <4>3, <4>4
      <4>6. \A k \in LiveOf(c) : k <= m
        BY <4>1, <4>5
      <4> QED
        BY <4>6
    <3> QED
      BY <3>1, <3>2, LiveIs DEF Newest
  <2>2. /\ waitsOn' = [p \in Requests |-> IF p \in Dropped(n) THEN None ELSE asked[p]]
        /\ outcome' = [p \in Requests |-> IF p \in Dropped(n) THEN "failed"
                                          ELSE IF p = q THEN "waiting" ELSE outcome[p]]
        /\ sub' = [sub EXCEPT ![n] = Enqueued(n, q, asked)]
        /\ holder' = holder /\ published' = published /\ stopped' = stopped
        /\ outcome[q] = "none"
    BY <1>2 DEF Request
  <2> HIDE DEF n
  <2>3. asked \in Waiting /\ asked[q] = n
        /\ \A p \in Requests \ {q} : asked[p] = waitsOn[p]
    BY <2>1, WaitingIs DEF Waiting
  <2> HIDE DEF asked
  <2>4. sub[n].closed = FALSE /\ n # None
    BY <2>1, LiveIs
  <2>5. q # NoRequest
    BY StreamAssumption
  <2>6. /\ sub'[n] = Enqueued(n, q, asked)
        /\ \A m \in Subs \ {n} : sub'[m] = sub[m]
    BY <2>1, <2>2, WaitingIs
  <2>7. /\ StaysSound(n, sub'[n])
        /\ KeepsAsked(n, q, asked, sub'[n])
        /\ PushesGiven(n, q, sub'[n])
    BY <2>1, <2>3, <2>4, <2>6, EnqueuedIs
  <2>8. /\ sub' \in [Subs -> SubType]
        /\ \A m \in Subs : /\ sub'[m].session = sub[m].session /\ sub'[m].closed = sub[m].closed
                           /\ Moves(sub'[m]) /\ Ordered(sub'[m])
        /\ \A m \in Subs \ Made : sub'[m] = sub[m]
    <3>1. sub[n].closed = FALSE /\ n \in Made
      BY <2>1, LiveIs, LiveMade
    <3>2. sub' \in [Subs -> SubType]
      BY <2>2, <2>6, <2>7, WaitingIs DEF StaysSound
    <3>3. \A m \in Subs : /\ sub'[m].session = sub[m].session /\ sub'[m].closed = sub[m].closed
                          /\ Moves(sub'[m]) /\ Ordered(sub'[m])
      BY <2>6, <2>7, <3>1, LiveIs DEF StaysSound
    <3> QED
      BY <2>6, <3>1, <3>2, <3>3
  <2>9. /\ waitsOn' \in Waiting
        /\ outcome' \in [Requests -> {"none", "waiting", "answered", "failed"}]
    BY <2>2, <2>3, WaitingIs DEF Waiting
  <2>10. \A p \in Requests : (outcome'[p] = "waiting") = (waitsOn'[p] # None)
    BY <2>2, <2>3, <2>4, WaitingIs
  <2>11. \A p \in Requests : waitsOn'[p] # None =>
            waitsOn'[p] \in Live /\ Asked(sub'[waitsOn'[p]], p)
    <3> SUFFICES ASSUME NEW p \in Requests, waitsOn'[p] # None
                 PROVE  waitsOn'[p] \in Live /\ Asked(sub'[waitsOn'[p]], p)
      OBVIOUS
    <3>1. p \notin Dropped(n) /\ waitsOn'[p] = asked[p]
      BY <2>2
    <3>2. CASE p = q
      BY <2>1, <2>3, <2>7, <3>1, <3>2 DEF KeepsAsked
    <3>3. CASE p # q
      <4>1. waitsOn'[p] = waitsOn[p] /\ waitsOn[p] \in Live /\ Asked(sub[waitsOn[p]], p)
            /\ waitsOn[p] \in Subs /\ asked[p] = waitsOn[p]
        BY <2>3, <3>1, <3>3, WaitingIs, LiveIs
      <4>2. CASE waitsOn[p] = n
        BY <2>7, <3>1, <4>1, <4>2 DEF KeepsAsked
      <4>3. CASE waitsOn[p] # n
        BY <2>6, <4>1, <4>3
      <4> QED
        BY <4>2, <4>3
    <3> QED
      BY <3>2, <3>3
  <2>12. Pushes
    <3>1. Dropped(n) = {} => waitsOn'[q] = n
      BY <2>2, <2>3
    <3>2. Push(n)
      BY <2>4, <2>7, <3>1 DEF Push, PushesGiven
    <3>3. \A m \in Subs \ {n} : Push(m)
      BY <2>6 DEF Push
    <3> QED
      BY <3>2, <3>3 DEF Pushes
  <2> QED
    BY <2>2, <2>8, <2>9, <2>10, <2>11, <2>12, WaitingIs, OpenKeeps
<1> QED
  BY <1>1, <1>2

\* answer, and a request's timer.
LEMMA SettleKeeps ==
    ASSUME IInv, NEW q \in Requests, Answer(q) \/ Timeout(q)
    PROVE  IInv' /\ Pushes
<1>1. /\ sub' = sub /\ holder' = holder /\ published' = published /\ stopped' = stopped
      /\ waitsOn[q] # None
  BY DEF Answer, Timeout
<1>2. /\ waitsOn' = [waitsOn EXCEPT ![q] = None]
      /\ \E o \in {"answered", "failed"} : outcome' = [outcome EXCEPT ![q] = o]
  <2>1. CASE Answer(q)
    BY <2>1 DEF Answer
  <2>2. CASE Timeout(q)
    BY <2>2, WaitingIs DEF Timeout, Fail, Waiting
  <2> QED
    BY <2>1, <2>2
<1>3. /\ waitsOn' \in Waiting
      /\ outcome' \in [Requests -> {"none", "waiting", "answered", "failed"}]
      /\ \A p \in Requests : (outcome'[p] = "waiting") = (waitsOn'[p] # None)
      /\ \A p \in Requests : waitsOn'[p] # None => waitsOn'[p] = waitsOn[p]
  BY <1>2, WaitingIs DEF Waiting
<1>4. Pushes
  BY <1>1 DEF Pushes, Push
<1> QED
  BY <1>1, <1>3, <1>4, WaitingIs, LiveIs, OpenKeeps

\* A push settles or fails.
LEMMA PushEndsKeeps ==
    ASSUME IInv, NEW n \in Subs, PushSettles(n) \/ PushFails(n)
    PROVE  IInv' /\ Pushes
<1>1. PICK p \in {"settled", "failed"} : sub' = [sub EXCEPT ![n].pump = p]
  BY DEF PushSettles, PushFails
<1>2. /\ holder' = holder /\ published' = published /\ stopped' = stopped
      /\ waitsOn' = waitsOn /\ outcome' = outcome /\ sub[n].pump = "pushing"
  BY DEF PushSettles, PushFails
<1> DEFINE s == sub[n]
           r == sub'[n]
<1>3. s \in SubType /\ Ordered(s) /\ Moves(s)
  BY LiveIs
<1>4. sub' = [sub EXCEPT ![n] = [s EXCEPT !.pump = p]]
  BY <1>1
<1>5. r = [s EXCEPT !.pump = p] /\ \A m \in Subs \ {n} : sub'[m] = sub[m]
  BY <1>4, WaitingIs
<1> HIDE DEF s, r
<1>6. /\ r \in SubType /\ r.session = s.session /\ r.closed = s.closed
      /\ r.queue = s.queue /\ r.pushed = s.pushed /\ r.seq = s.seq /\ r.pump = p
  BY <1>3, <1>5 DEF SubType
<1>7. Ordered(r) /\ Moves(r)
  BY <1>3, <1>6 DEF Ordered, Moves
<1>8. \A q \in Requests : Asked(s, q) => Asked(r, q)
  BY <1>6 DEF Asked
<1>9. n \in Made
  BY <1>2 DEF IInv, Untouched, Unmade
<1>10. sub' \in [Subs -> SubType]
  BY <1>4, <1>5, <1>6, WaitingIs DEF r
<1>11. /\ \A m \in Subs : /\ sub'[m].session = sub[m].session /\ sub'[m].closed = sub[m].closed
                          /\ Moves(sub'[m]) /\ Ordered(sub'[m])
       /\ \A m \in Subs \ Made : sub'[m] = sub[m]
  BY <1>5, <1>6, <1>7, <1>9, LiveIs DEF s, r
<1>12. \A q \in Requests : waitsOn'[q] # None =>
          waitsOn'[q] \in Live /\ Asked(sub'[waitsOn'[q]], q)
  BY <1>2, <1>5, <1>8, WaitingIs, LiveIs DEF s, r
<1>13. Pushes
  BY <1>5, <1>6 DEF Pushes, Push, s, r
<1> QED
  BY <1>2, <1>10, <1>11, <1>12, <1>13, WaitingIs, OpenKeeps

LEMMA ResumesKeeps ==
    ASSUME IInv, NEW n \in Subs, PumpResumes(n)
    PROVE  IInv' /\ Pushes
<1>1. /\ sub' = [sub EXCEPT ![n] = Pumped(n, sub[n], waitsOn)]
      /\ holder' = holder /\ published' = published /\ stopped' = stopped
      /\ waitsOn' = waitsOn /\ outcome' = outcome /\ sub[n].pump = "settled"
  BY DEF PumpResumes
<1> DEFINE s == sub[n]
           r == Pumped(n, sub[n], waitsOn)
<1>2. s \in SubType /\ Ordered(s) /\ Moves(s) /\ waitsOn \in Waiting
  BY LiveIs, WaitingIs
<1>3. s.closed => s.queue = << >>
  BY <1>2 DEF Moves
<1>4. /\ r \in SubType /\ r.session = s.session /\ r.closed = s.closed
      /\ r.queue # << >> => r.pump = "pushing" /\ ~r.closed
      /\ Len(r.queue) <= Len(s.queue)
      /\ Ordered(r)
  BY <1>2, <1>3, PumpedIs
<1>5. ~s.closed => \A q \in Requests : waitsOn[q] = n /\ Asked(s, q) => Asked(r, q)
  BY <1>2, <1>3, PumpedIs
<1>6. r.pushed # s.pushed =>
         \E f \in Frames :
            /\ ~s.closed /\ r.pushed = Append(s.pushed, f)
            /\ \A i \in 1..Len(s.pushed) : s.pushed[i].seq < f.seq
            /\ f.asks # NoRequest => waitsOn[f.asks] = n
  BY <1>2, <1>3, PumpedIs
<1>7. sub'[n] = r /\ \A m \in Subs \ {n} : sub'[m] = sub[m]
  BY <1>1, WaitingIs
<1> HIDE DEF s, r
<1>8. Moves(r)
  <2>1. r.queue # << >> => s.queue # << >>
    <3> SUFFICES ASSUME r.queue # << >>, s.queue = << >> PROVE FALSE
      OBVIOUS
    <3>1. Len(r.queue) = 0 /\ r.queue \in Seq(Frames)
      BY <1>4 DEF SubType
    <3> QED
      BY <3>1
  <2>2. Len(r.queue) \in Nat /\ Len(s.queue) \in Nat /\ BufferLimit \in Nat
    BY <1>2, <1>4, StreamAssumption DEF SubType
  <2> QED
    BY <1>2, <1>4, <2>1, <2>2 DEF Moves
<1>9. n \in Made
  BY <1>1 DEF IInv, Untouched, Unmade
<1>10. sub' \in [Subs -> SubType]
  BY <1>1, <1>4, WaitingIs DEF r
<1>11. /\ \A m \in Subs : /\ sub'[m].session = sub[m].session /\ sub'[m].closed = sub[m].closed
                          /\ Moves(sub'[m]) /\ Ordered(sub'[m])
       /\ \A m \in Subs \ Made : sub'[m] = sub[m]
  BY <1>4, <1>7, <1>8, <1>9, LiveIs DEF s
<1>12. \A q \in Requests : waitsOn'[q] # None =>
          waitsOn'[q] \in Live /\ Asked(sub'[waitsOn'[q]], q)
  BY <1>1, <1>5, <1>7, WaitingIs, LiveIs DEF s
<1>13. Pushes
  BY <1>1, <1>6, <1>7 DEF Pushes, Push, s
<1> QED
  BY <1>1, <1>10, <1>11, <1>12, <1>13, WaitingIs, OpenKeeps

\* Every step keeps the invariant, and pushes what it may.
LEMMA StreamKeeps == IInv /\ Next => IInv' /\ Pushes
<1> SUFFICES ASSUME IInv, Next PROVE IInv' /\ Pushes
  OBVIOUS
<1>1. CASE \E x \in Sessions : Subscribe(x)
  BY <1>1, SubscribeKeeps
<1>2. CASE \E n \in Subs : n \in Made /\ SessionBreaks(n)
  <2>1. PICK n \in Made : ~sub[n].closed /\ Drop({n})
    BY <1>2 DEF SessionBreaks
  <2> QED
    BY <2>1, DropKeeps
<1>3. CASE \E c \in Clients : DropClient(c)
  <2>1. PICK c \in Clients : Drop(LiveOf(c))
    BY <1>3 DEF DropClient
  <2>2. LiveOf(c) \in SUBSET Made /\ \A n \in LiveOf(c) : ~sub[n].closed
    BY LiveIs, LiveMade DEF LiveOf
  <2> QED
    BY <2>1, <2>2, DropKeeps
<1>4. CASE Publish
  BY <1>4, PublishKeeps
<1>5. CASE Stop
  BY <1>5, StopKeeps
<1>6. CASE \E q \in Requests : Answer(q) \/ Timeout(q)
  BY <1>6, SettleKeeps
<1>7. CASE \E q \in Requests, c \in Clients : Request(q, c)
  BY <1>7, RequestKeeps
<1>8. CASE \E n \in Subs : PushSettles(n) \/ PushFails(n)
  BY <1>8, PushEndsKeeps
<1>9. CASE \E n \in Subs : PumpResumes(n)
  BY <1>9, ResumesKeeps
<1>10. CASE \E n \in Subs : PumpGivesUp(n)
  BY <1>10, GivesUpKeeps
<1> QED
  BY <1>1, <1>2, <1>3, <1>4, <1>5, <1>6, <1>7, <1>8, <1>9, <1>10 DEF Next

LEMMA StreamStutters == IInv /\ UNCHANGED vars => IInv'
<1> SUFFICES ASSUME IInv, UNCHANGED vars PROVE IInv'
  OBVIOUS
<1>1. /\ sub' = sub /\ holder' = holder /\ published' = published /\ stopped' = stopped
      /\ waitsOn' = waitsOn /\ outcome' = outcome
  BY DEF vars
<1> QED
  BY <1>1, WaitingIs, LiveIs, OpenKeeps

(***************************************************************************)
(* The theorems                                                            *)
(***************************************************************************)
\* The stream keeps its invariant.
THEOREM StreamInvariance == Spec => []IInv
<1>1. IInv /\ [Next]_vars => IInv'
  BY StreamKeeps, StreamStutters
<1> QED
  BY <1>1, StreamStarts, PTL DEF Spec

\* The maps and queues of EngineEventStream keep their shape.
THEOREM StreamTyped == Spec => []TypeOK
<1>1. IInv => TypeOK
  BY DEF IInv
<1> QED
  BY <1>1, StreamInvariance, PTL

\* No request outlives its subscription or waits for a frame nobody will see, so
\* the check at the end of stop never fails; nothing is queued that no pump takes.
THEOREM RequestsHeld == Spec => []PendingHeld
<1>1. IInv => PendingHeld
  BY DEF IInv
<1> QED
  BY <1>1, StreamInvariance, PTL

\* A subscription is pushed one frame at a time, each newer than all before, none
\* once it is closed, and no request whose caller has stopped waiting.
THEOREM FramesInOrder == Spec => PushesInOrder
<1> DEFINE P == \A n \in Subs : sub'[n].pushed # sub[n].pushed =>
          LET old == sub[n].pushed
              new == sub'[n].pushed[Len(old) + 1]
          IN  /\ ~sub[n].closed
              /\ sub'[n].pushed = Append(old, new)
              /\ \A i \in 1..Len(old) : old[i].seq < new.seq
              /\ new.asks # NoRequest => waitsOn'[new.asks] = n
<1>1. IInv /\ Pushes => P
  <2> SUFFICES ASSUME IInv, Pushes, NEW n \in Subs, sub'[n].pushed # sub[n].pushed
               PROVE  LET old == sub[n].pushed
                          new == sub'[n].pushed[Len(old) + 1]
                      IN  /\ ~sub[n].closed
                          /\ sub'[n].pushed = Append(old, new)
                          /\ \A i \in 1..Len(old) : old[i].seq < new.seq
                          /\ new.asks # NoRequest => waitsOn'[new.asks] = n
    OBVIOUS
  <2>1. PICK f \in Frames :
          /\ ~sub[n].closed /\ sub'[n].pushed = Append(sub[n].pushed, f)
          /\ \A i \in 1..Len(sub[n].pushed) : sub[n].pushed[i].seq < f.seq
          /\ f.asks # NoRequest => waitsOn'[f.asks] = n
    BY DEF Pushes, Push
  <2>2. sub[n].pushed \in Seq(Frames)
    BY LiveIs DEF SubType
  <2>3. sub'[n].pushed[Len(sub[n].pushed) + 1] = f
    BY <2>1, <2>2
  <2> QED
    BY <2>1, <2>3
<1>2. IInv /\ [Next]_vars => [P]_vars
  BY <1>1, StreamKeeps
<1> HIDE DEF P
<1>3. Spec => [][P]_vars
  BY <1>2, StreamInvariance, PTL DEF Spec
<1> QED
  BY <1>3 DEF P, PushesInOrder
================================================================================
