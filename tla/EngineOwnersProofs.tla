-------------------------- MODULE EngineOwnersProofs --------------------------
(* Who owns a run: that every run the engine holds is in the hands of exactly  *)
(* one party until it settles, and what follows for its outcome, its turn, its *)
(* parent and Stop, for any number of runs and any definitions.                *)
EXTENDS EngineRunsProofs, FiniteSetTheorems

(***************************************************************************)
(* Counting pending calls                                                  *)
(***************************************************************************)
\* The calls of a stack about the runs R that are of the kinds ops, and how many
\* there are.
Where(s, R, ops) == {j \in 1..Len(s) : s[j].run \in R /\ s[j].op \in ops}
Tally(s, R, ops) == Cardinality(Where(s, R, ops))

\* The same, of all stacks.
Places(st, R, ops) == UNION {{<<t, i>> : i \in Where(st[t], R, ops)} : t \in Threads}
Number(st, R, ops) == Cardinality(Places(st, R, ops))

\* The stacks there can be.
Calling == Seq(FrameSet)
Stacks  == [Threads -> Calling]

Counts(f, R, ops) == IF f.run \in R /\ f.op \in ops THEN 1 ELSE 0

\* A finite set and one that is a copy of it have as many elements.
LEMMA SameSize ==
    ASSUME NEW A, NEW B, IsFiniteSet(A), NEW f \in [A -> B],
           \A x, y \in A : f[x] = f[y] => x = y, \A z \in B : \E x \in A : f[x] = z
    PROVE  IsFiniteSet(B) /\ Cardinality(B) = Cardinality(A)
<1>1. f \in Bijection(A, B)
  BY DEF Bijection, Injection, Surjection, IsInjective
<1>2. ExistsBijection(A, B)
  BY <1>1 DEF ExistsBijection
<1> QED
  BY <1>2, FS_Bijection

\* A stack has finitely many calls.
LEMMA WhereFinite ==
    ASSUME NEW S, NEW s \in Seq(S), NEW R, NEW ops
    PROVE  IsFiniteSet(Where(s, R, ops)) /\ Tally(s, R, ops) \in Nat
<1>1. IsFiniteSet(1..Len(s))
  BY FS_Interval
<1>2. Where(s, R, ops) \in SUBSET (1..Len(s))
  BY DEF Where
<1>3. IsFiniteSet(Where(s, R, ops))
  BY <1>1, <1>2, FS_Subset
<1> QED
  BY <1>3, FS_CardinalityType DEF Tally

LEMMA EmptyTally ==
    ASSUME NEW R, NEW ops
    PROVE  Tally(<< >>, R, ops) = 0
<1>1. Where(<< >>, R, ops) = {}
  BY DEF Where
<1> QED
  BY <1>1, FS_EmptySet DEF Tally

LEMMA OneTally ==
    ASSUME NEW f, NEW R, NEW ops
    PROVE  Tally(<< f >>, R, ops) = Counts(f, R, ops)
<1>1. Where(<< f >>, R, ops) = IF f.run \in R /\ f.op \in ops THEN {1} ELSE {}
  BY DEF Where
<1> QED
  BY <1>1, FS_EmptySet, FS_Singleton DEF Tally, Counts

\* A set of numbers that are raised by n has as many elements.
LEMMA Raised ==
    ASSUME NEW A \in SUBSET Int, IsFiniteSet(A), NEW n \in Int
    PROVE  LET B == {i \in Int : i - n \in A}
           IN  IsFiniteSet(B) /\ Cardinality(B) = Cardinality(A)
<1> DEFINE B == {i \in Int : i - n \in A}
           f == [i \in A |-> i + n]
<1>1. f \in [A -> B]
  OBVIOUS
<1>2. \A x, y \in A : f[x] = f[y] => x = y
  OBVIOUS
<1>3. \A z \in B : \E x \in A : f[x] = z
  <2> SUFFICES ASSUME NEW z \in B PROVE \E x \in A : f[x] = z
    OBVIOUS
  <2>1. z - n \in A /\ f[z - n] = z
    OBVIOUS
  <2> QED
    BY <2>1
<1> HIDE DEF f, B
<1> QED
  BY <1>1, <1>2, <1>3, SameSize DEF B

\* The calls of two stacks, one above the other.
LEMMA TallyOf ==
    ASSUME NEW S, NEW a \in Seq(S), NEW b \in Seq(S), NEW R, NEW ops
    PROVE  Tally(a \o b, R, ops) = Tally(a, R, ops) + Tally(b, R, ops)
<1> DEFINE A == Where(a, R, ops)
           B == Where(b, R, ops)
           n == Len(a)
           C == {i \in Int : i - n \in B}
<1>1. /\ a \o b \in Seq(S) /\ Len(a \o b) = n + Len(b) /\ n \in Nat /\ Len(b) \in Nat
      /\ \A i \in 1..n : (a \o b)[i] = a[i]
      /\ \A i \in (n + 1)..(n + Len(b)) : (a \o b)[i] = b[i - n]
  OBVIOUS
<1>2. A \subseteq 1..n /\ B \subseteq 1..Len(b)
  BY DEF Where
<1>3. Where(a \o b, R, ops) = A \cup C
  <2>1. ASSUME NEW i \in 1..(n + Len(b))
        PROVE  i \in Where(a \o b, R, ops) <=> i \in A \cup C
    <3>1. CASE i \in 1..n
      <4>1. i \notin C
        BY <1>1, <1>2, <3>1
      <4>2. i \in Where(a \o b, R, ops) <=> i \in A
        BY <1>1, <3>1 DEF Where
      <4> QED
        BY <4>1, <4>2
    <3>2. CASE i \in (n + 1)..(n + Len(b))
      <4>1. i \notin A
        BY <1>1, <1>2, <3>2
      <4>2. i - n \in 1..Len(b) /\ (a \o b)[i] = b[i - n] /\ i \in Int
        BY <1>1, <3>2
      <4>3. i \in Where(a \o b, R, ops) <=> i - n \in B
        BY <1>1, <4>2 DEF Where
      <4> QED
        BY <4>1, <4>2, <4>3
    <3> QED
      BY <1>1, <3>1, <3>2
  <2>2. Where(a \o b, R, ops) \subseteq 1..(n + Len(b))
    BY <1>1 DEF Where
  <2>3. A \cup C \subseteq 1..(n + Len(b))
    BY <1>1, <1>2
  <2> HIDE DEF A, C
  <2> QED
    BY <2>1, <2>2, <2>3
<1>4. IsFiniteSet(A) /\ IsFiniteSet(B) /\ Tally(a, R, ops) \in Nat /\ Tally(b, R, ops) \in Nat
  BY WhereFinite
<1>5. IsFiniteSet(C) /\ Cardinality(C) = Cardinality(B)
  <2>1. B \in SUBSET Int /\ n \in Int
    BY <1>1, <1>2
  <2> HIDE DEF B, n
  <2> QED
    BY <1>4, <2>1, Raised
<1>6. A \cap C = {}
  BY <1>1, <1>2
<1>7. Cardinality(A \cup C) = Cardinality(A) + Cardinality(C) - Cardinality(A \cap C)
  BY <1>4, <1>5, FS_Union
<1>8. Cardinality(A \cup C) = Cardinality(A) + Cardinality(B)
  <2>1. Cardinality(A) \in Nat /\ Cardinality(B) \in Nat
    BY <1>4 DEF Tally
  <2>2. Cardinality(A \cap C) = 0
    BY <1>6, FS_EmptySet
  <2> HIDE DEF A, B, C
  <2> QED
    BY <1>5, <1>7, <2>1, <2>2
<1> QED
  BY <1>3, <1>8 DEF Tally

\* The innermost call, and those below it.
LEMMA TallyTop ==
    ASSUME NEW S, NEW s \in Seq(S), s # << >>, NEW R, NEW ops
    PROVE  /\ Tally(s, R, ops) = Counts(Head(s), R, ops) + Tally(Tail(s), R, ops)
           /\ Tail(s) \in Seq(S)
<1>1. s = << Head(s) >> \o Tail(s) /\ << Head(s) >> \in Seq(S) /\ Tail(s) \in Seq(S)
  OBVIOUS
<1>2. Tally(<< Head(s) >> \o Tail(s), R, ops)
        = Tally(<< Head(s) >>, R, ops) + Tally(Tail(s), R, ops)
  <2> DEFINE a == << Head(s) >>
             b == Tail(s)
  <2>1. a \in Seq(S) /\ b \in Seq(S)
    BY <1>1
  <2> HIDE DEF a, b
  <2>2. Tally(a \o b, R, ops) = Tally(a, R, ops) + Tally(b, R, ops)
    BY <2>1, TallyOf
  <2> QED
    BY <2>2 DEF a, b
<1> QED
  BY <1>1, <1>2, OneTally

\* What a stack and all the others hold, apart from the others.
Elsewhere(st, t, R, ops) == {p \in Places(st, R, ops) : p[1] # t}

LEMMA ThreadsFinite == IsFiniteSet(Threads)
<1>1. IsFiniteSet({1, 2})
  <2>1. IsFiniteSet({1}) /\ IsFiniteSet({2}) /\ {1, 2} = {1} \cup {2}
    BY FS_Singleton
  <2> QED
    BY <2>1, FS_Union
<1>2. IsFiniteSet(Runs \X {1, 2})
  BY <1>1, RunsAssumption, FS_Product
<1>3. /\ IsFiniteSet({<<"api", 0>>}) /\ IsFiniteSet({<<"stop", 0>>})
      /\ IsFiniteSet({<<"queue", 0>>})
  BY FS_Singleton
<1>4. Threads = (((Runs \X {1, 2}) \cup {<<"api", 0>>}) \cup {<<"stop", 0>>})
                  \cup {<<"queue", 0>>}
  BY DEF Threads
<1> QED
  BY <1>2, <1>3, <1>4, FS_Union

\* A place is a thread and a position in its stack.
LEMMA PlaceIs ==
    ASSUME NEW st, NEW R, NEW ops, NEW p
    PROVE  p \in Places(st, R, ops) <=>
              \E t \in Threads : \E i \in Where(st[t], R, ops) : p = <<t, i>>
BY DEF Places

LEMMA PlacesFinite ==
    ASSUME NEW st \in Stacks, NEW R, NEW ops
    PROVE  IsFiniteSet(Places(st, R, ops)) /\ Number(st, R, ops) \in Nat
<1> DEFINE P(t) == {<<t, i>> : i \in Where(st[t], R, ops)}
           All == {P(t) : t \in Threads}
<1>1. \A t \in Threads : IsFiniteSet(P(t))
  <2> SUFFICES ASSUME NEW t \in Threads PROVE IsFiniteSet(P(t))
    OBVIOUS
  <2>1. IsFiniteSet(Where(st[t], R, ops))
    BY WhereFinite DEF Stacks, Calling
  <2> DEFINE W == Where(st[t], R, ops)
             f == [i \in W |-> <<t, i>>]
  <2>2. f \in [W -> P(t)] /\ (\A x, y \in W : f[x] = f[y] => x = y)
        /\ \A z \in P(t) : \E x \in W : f[x] = z
    OBVIOUS
  <2> HIDE DEF f
  <2> QED
    BY <2>1, <2>2, SameSize
<1>2. IsFiniteSet(All)
  <2> DEFINE g == [t \in Threads |-> P(t)]
  <2>1. g \in [Threads -> All] /\ \A z \in All : \E t \in Threads : g[t] = z
    <3> HIDE DEF P
    <3> QED
      OBVIOUS
  <2> HIDE DEF g, All
  <2>2. g \in Surjection(Threads, All)
    BY <2>1 DEF Surjection
  <2> QED
    BY <2>2, ThreadsFinite, FS_Surjection
<1>3. Places(st, R, ops) = UNION All
  BY DEF Places
<1>4. \A T \in All : IsFiniteSet(T)
  BY <1>1
<1> HIDE DEF All
<1>5. IsFiniteSet(Places(st, R, ops))
  BY <1>2, <1>3, <1>4, FS_UNION
<1> QED
  BY <1>5, FS_CardinalityType DEF Number

\* The number of calls is that of one stack and that of the others.
LEMMA NumberSplit ==
    ASSUME NEW st \in Stacks, NEW t \in Threads, NEW R, NEW ops
    PROVE  /\ Cardinality(Elsewhere(st, t, R, ops)) \in Nat
           /\ Number(st, R, ops) = Tally(st[t], R, ops) + Cardinality(Elsewhere(st, t, R, ops))
<1> DEFINE W == Where(st[t], R, ops)
           P == {<<t, i>> : i \in W}
           E == Elsewhere(st, t, R, ops)
           A == Places(st, R, ops)
<1>1. IsFiniteSet(A) /\ IsFiniteSet(W)
  BY PlacesFinite, WhereFinite DEF Stacks, Calling
<1>2. A = P \cup E /\ P \cap E = {}
  BY PlaceIs DEF Elsewhere
<1>3. IsFiniteSet(P) /\ Cardinality(P) = Cardinality(W)
  <2> DEFINE f == [i \in W |-> <<t, i>>]
  <2>1. f \in [W -> P] /\ (\A x, y \in W : f[x] = f[y] => x = y)
        /\ \A z \in P : \E x \in W : f[x] = z
    OBVIOUS
  <2> HIDE DEF f, P, W
  <2> QED
    BY <1>1, <2>1, SameSize
<1>4. IsFiniteSet(E)
  BY <1>1, FS_Subset DEF Elsewhere
<1> HIDE DEF P, E, A
<1>5. Cardinality(A) = Cardinality(P) + Cardinality(E) - Cardinality(P \cap E)
  BY <1>2, <1>3, <1>4, FS_Union
<1>6. /\ Cardinality(P \cap E) = 0 /\ Cardinality(P) \in Nat /\ Cardinality(E) \in Nat
  BY <1>2, <1>3, <1>4, FS_EmptySet, FS_CardinalityType
<1>7. Cardinality(A) = Cardinality(P) + Cardinality(E)
  BY <1>5, <1>6
<1> QED
  BY <1>3, <1>6, <1>7 DEF A, E, Number, Tally

\* The stacks st and new differ in that of t only.
OnlyAt(st, new, t) == \A u \in Threads \ {t} : new[u] = st[u]

\* A stack that is replaced: the rest is as it was.
LEMMA NumberReplaced ==
    ASSUME NEW st \in Stacks, NEW new \in Stacks,
           NEW t \in Threads, OnlyAt(st, new, t), NEW R, NEW ops
    PROVE  /\ Number(new, R, ops)
                = (Number(st, R, ops) - Tally(st[t], R, ops)) + Tally(new[t], R, ops)
           /\ Number(st, R, ops) \in Nat /\ Number(new, R, ops) \in Nat
           /\ Tally(st[t], R, ops) \in Nat /\ Tally(new[t], R, ops) \in Nat
           /\ Tally(st[t], R, ops) <= Number(st, R, ops)
<1>2. Elsewhere(new, t, R, ops) = Elsewhere(st, t, R, ops)
  <2>1. \A p : p \in Places(new, R, ops) /\ p[1] # t => p \in Places(st, R, ops)
    BY PlaceIs DEF OnlyAt
  <2>2. \A p : p \in Places(st, R, ops) /\ p[1] # t => p \in Places(new, R, ops)
    BY PlaceIs DEF OnlyAt
  <2> QED
    BY <2>1, <2>2 DEF Elsewhere
<1>3. /\ Number(st, R, ops) = Tally(st[t], R, ops) + Cardinality(Elsewhere(st, t, R, ops))
      /\ Cardinality(Elsewhere(st, t, R, ops)) \in Nat
  BY NumberSplit
<1>4. Number(new, R, ops) = Tally(new[t], R, ops) + Cardinality(Elsewhere(new, t, R, ops))
  BY NumberSplit
<1>5. /\ Number(st, R, ops) \in Nat /\ Number(new, R, ops) \in Nat
      /\ Tally(st[t], R, ops) \in Nat /\ Tally(new[t], R, ops) \in Nat
  <2>1. st[t] \in Calling /\ new[t] \in Calling
    BY DEF Stacks
  <2> QED
    BY <2>1, PlacesFinite, WhereFinite DEF Calling
<1> QED
  BY <1>2, <1>3, <1>4, <1>5

\* The calls of the shapes the engine makes.
LEMMA FrameCounts ==
    ASSUME NEW op, NEW r, NEW arg, NEW R, NEW ops
    PROVE  /\ Counts(Frame(op, r, arg), R, ops) = IF r \in R /\ op \in ops THEN 1 ELSE 0
           /\ Tally(<< Frame(op, r, arg) >>, R, ops) = IF r \in R /\ op \in ops THEN 1 ELSE 0
BY OneTally DEF Counts, Frame

LEMMA SettleCounts ==
    ASSUME NEW r \in Runs, NEW o \in Outcomes \cup {EngineStopped}, NEW R, NEW ops
    PROVE  /\ Settle(r, o) \in Calling
           /\ Tally(Settle(r, o), R, ops)
                = (IF r \in R /\ "count" \in ops THEN 1 ELSE 0)
                    + (IF r \in R /\ "release" \in ops THEN 1 ELSE 0)
<1> DEFINE a == << Frame("count", r, o) >>
           b == << Frame("release", r, None) >>
<1>1. Frame("count", r, o) \in FrameSet /\ Frame("release", r, None) \in FrameSet
  BY DEF Frame, FrameSet, None
<1>2. a \in Seq(FrameSet) /\ b \in Seq(FrameSet) /\ Settle(r, o) = a \o b
  BY <1>1 DEF Settle
<1>3. /\ Tally(a, R, ops) = IF r \in R /\ "count" \in ops THEN 1 ELSE 0
      /\ Tally(b, R, ops) = IF r \in R /\ "release" \in ops THEN 1 ELSE 0
  BY FrameCounts
<1> HIDE DEF a, b
<1>4. Tally(a \o b, R, ops) = Tally(a, R, ops) + Tally(b, R, ops)
  BY <1>2, TallyOf
<1>5. a \o b \in Seq(FrameSet)
  BY <1>2
<1> QED
  BY <1>2, <1>3, <1>4, <1>5 DEF Calling

\* There is none if and only if no call is one.
LEMMA TallyNone ==
    ASSUME NEW s \in Calling, NEW R, NEW ops
    PROVE  Tally(s, R, ops) = 0 <=> \A i \in 1..Len(s) : s[i].run \notin R \/ s[i].op \notin ops
<1>1. IsFiniteSet(Where(s, R, ops))
  BY WhereFinite DEF Calling
<1>2. Tally(s, R, ops) = 0 <=> Where(s, R, ops) = {}
  BY <1>1, FS_EmptySet DEF Tally
<1> QED
  BY <1>2 DEF Where

\* There is none if and only if no stack has one.
LEMMA NumberNone ==
    ASSUME NEW st \in Stacks, NEW R, NEW ops
    PROVE  Number(st, R, ops) = 0 <=>
              \A t \in Threads : \A i \in 1..Len(st[t]) : st[t][i].run \notin R \/ st[t][i].op \notin ops
<1>1. Number(st, R, ops) = 0 <=> Places(st, R, ops) = {}
  BY PlacesFinite, FS_EmptySet DEF Number
<1>2. Places(st, R, ops) = {} <=> \A t \in Threads : Where(st[t], R, ops) = {}
  <2>1. ASSUME NEW t \in Threads, NEW i \in Where(st[t], R, ops)
        PROVE  Places(st, R, ops) # {}
    <3>1. <<t, i>> \in Places(st, R, ops)
      BY DEF Places
    <3> QED
      BY <3>1
  <2>2. ASSUME NEW p \in Places(st, R, ops)
        PROVE  \E t \in Threads : Where(st[t], R, ops) # {}
    BY PlaceIs
  <2> QED
    BY <2>1, <2>2
<1>3. \A t \in Threads : Where(st[t], R, ops) = {} <=>
         \A i \in 1..Len(st[t]) : st[t][i].run \notin R \/ st[t][i].op \notin ops
  BY DEF Where
<1> QED
  BY <1>1, <1>2, <1>3

\* The calls about a run, as the model counts them.
LEMMA FramesCounted ==
    ASSUME NEW r, NEW ops
    PROVE  Frames(r, ops) = Places(stack, {r}, ops)
<1>1. ASSUME NEW p \in Frames(r, ops) PROVE p \in Places(stack, {r}, ops)
  <2>1. PICK t \in Threads :
           p \in {<<t, i>> : i \in {j \in 1..Len(stack[t]) :
                                      stack[t][j].run = r /\ stack[t][j].op \in ops}}
    BY <1>1 DEF Frames
  <2>2. PICK i \in Where(stack[t], {r}, ops) : p = <<t, i>>
    BY <2>1 DEF Where
  <2> QED
    BY <2>2, PlaceIs
<1>2. ASSUME NEW p \in Places(stack, {r}, ops) PROVE p \in Frames(r, ops)
  <2>1. PICK t \in Threads : \E i \in Where(stack[t], {r}, ops) : p = <<t, i>>
    BY <1>2, PlaceIs
  <2>2. PICK i \in Where(stack[t], {r}, ops) : p = <<t, i>>
    BY <2>1
  <2>3. i \in {j \in 1..Len(stack[t]) : stack[t][j].run = r /\ stack[t][j].op \in ops}
    BY <2>2 DEF Where
  <2> QED
    BY <2>2, <2>3 DEF Frames
<1> QED
  BY <1>1, <1>2

(***************************************************************************)
(* The inductive invariant                                                 *)
(***************************************************************************)
\* The calls of whoever owns a run: to settle it, or to take it further.
LiveOps   == DriveOps \ {"count", "claim"}
SettleOps == {"count", "claim", "record"}
QueueOps  == {"enqueue", "turn", "await"}

Drives(r)  == Number(stack, {r}, DriveOps)
Lives(r)   == Number(stack, {r}, LiveOps)
Turned(r)  == Number(stack, {r}, {"turn"})
Ending(r)  == Number(stack, {r}, {"abandon", "count", "claim"})
Records(r) == Number(stack, {r}, {"record"})
Armed(r)   == \E w \in armed : w.run = r
Waiting(r) == \E w \in waiters : w.parent = r
One(b)     == IF b THEN 1 ELSE 0

\* Only settled runs leave the table.
EvictedSettled == \A r \in begun \ table : control[r].settled

\* A run that is not queued has at most one owner until it is settled and none
\* from then on; a queued one has none until somebody ends it, and then only to
\* settle it.
Owned(r) ==
    /\ control[r].queued => /\ ~Armed(r) /\ ~Waiting(r) /\ Lives(r) = 0
                            /\ Ended(control[r]) \/ Drives(r) = 0
    /\ ~control[r].queued =>
          Drives(r) + One(Armed(r)) + One(Waiting(r)) <= One(~control[r].settled)
OwnedOnce == \A r \in begun : Owned(r)

PausedOnce == /\ \A u, v \in armed : u.run = v.run => u = v
              /\ \A u, v \in waiters : u.parent = v.parent => u = v

\* The calls below the innermost one.
Rest(s)  == IF s = << >> THEN << >> ELSE Tail(s)
Below(t) == Rest(stack[t])

\* Whoever takes a run further does it in the innermost call of a thread.
LiveOnTop == \A t \in Threads : Tally(Below(t), Runs, LiveOps) = 0

\* A goroutine of a run that is neither queued nor settled drives it, or has only
\* the signal of its turn left to give; and that is all it has left to do when it
\* takes the run further.
Open(r) == r \in begun /\ ~control[r].queued /\ ~control[r].settled
IsLive(f, r) == f.run = r /\ f.op \in LiveOps
Bare(k, s) == s = << >> \/ (k = 1 /\ Len(s) = 1 /\ s[1].op = "signal")
Goroutine(r, k) ==
    LET s == stack[<<r, k>>] IN
    /\ r \notin begun \/ control[r].queued => s = << >>
    /\ Open(r) /\ Tally(s, {r}, DriveOps) = 0 => Bare(k, s)
    /\ s # << >> /\ IsLive(Head(s), r) => Bare(k, Rest(s))
Goroutines == \A r \in Runs, k \in {1, 2} : Goroutine(r, k)

\* Turns are taken by the ordered queue alone, one for each of its runs, and none
\* before all of them have begun.
TurnsOnce ==
    /\ \A t \in Threads \ {Queuer} : Tally(stack[t], Runs, QueueOps) = 0
    /\ \A r \in Runs : Turned(r) <= 1 /\ (Turned(r) = 1 => control[r].queued)
    /\ \A r \in Runs : control[r].queued => r \in Queued
    /\ Number(stack, Runs, {"enqueue"}) # 0 =>
          /\ At(Queuer, "enqueue") /\ Len(stack[Queuer]) = 1
          /\ \A j \in 1..(Top(Queuer).arg - 1) : control[Queue[j]].queued

\* A queued run is owned by its turn, or by whoever decided to end it.
TurnOwned ==
    \A r \in begun : ~control[r].settled /\ control[r].queued =>
        IF control[r].cancelRequested \/ control[r].stopped
        THEN Ending(r) # 0
        ELSE At(Queuer, "enqueue") \/ Turned(r) # 0

\* The run whose turn it is.
Turning == {r \in Queued \cap begun : ~control[r].queued /\ r \notin returned \cup overran}
TurnAlone ==
    /\ \A p, q \in Turning : p = q
    /\ ~stopping => \A r \in Turning : At(Queuer, "await") /\ Top(Queuer).run = r

\* settling counts the outcomes claimed, or about to be, and not yet recorded.
SettlesCounted ==
    /\ settling = Number(stack, Runs, {"claim", "record"})
    /\ \A r \in Runs : control[r].settled => recorded[r] # << >> \/ Records(r) # 0
    /\ \A r \in Runs : recorded[r] # << >> => control[r].settled
    /\ \A r \in stop.seen : control[r].settled
    /\ stop.at = "done" => \A r \in stop.seen : recorded[r] # << >>

\* A run's parent is told once its outcome is recorded: the call that records it
\* comes first.
Recorded == {r \in Runs : recorded[r] # << >>}
ByStop   == {r \in Runs : control[r].byStop}
Follows(s, D) ==
    \A i \in 1..Len(s) : s[i].op = "release" /\ s[i].run \notin D =>
        i > 1 /\ s[i - 1].run = s[i].run /\ s[i - 1].op \in SettleOps
Sound(D, B) ==
    {f \in FrameSet : /\ f.op = "register" => f.arg.child \notin Queued
                      /\ f.op = "resumeParent" => f.arg.child \in D \ B}
ReleasedAfter ==
    /\ \A t \in Threads : Follows(stack[t], Recorded \cup Queued)
    /\ stack \in [Threads -> Seq(Sound(Recorded, ByStop))]
    /\ \A w \in waiters : w.child \notin Queued

JInv == /\ EvictedSettled /\ OwnedOnce /\ PausedOnce /\ LiveOnTop /\ Goroutines
        /\ TurnsOnce /\ TurnOwned /\ TurnAlone /\ SettlesCounted /\ ReleasedAfter

(***************************************************************************)
(* What a step makes of the stacks                                         *)
(***************************************************************************)
\* Thread t makes its innermost call, if it has one, and goes on with those in
\* frames; thread u, which had nothing to do, is given those in more.
Moved(t, frames, u, more) ==
    /\ frames \in Calling /\ more \in Calling
    /\ IF u = t
       THEN more = << >> /\ stack' = [stack EXCEPT ![t] = frames \o Below(t)]
       ELSE Idle(u) /\ stack' = [stack EXCEPT ![t] = frames \o Below(t), ![u] = more]

\* The call that thread t makes, counted.
Out(t, R, ops) == IF Idle(t) THEN 0 ELSE Counts(Top(t), R, ops)

LEMMA StacksTyped ==
    ASSUME IInv
    PROVE  stack \in Stacks /\ \A t \in Threads : stack[t] \in Calling
BY DEF IInv, TypeOK, Stacks, Calling

LEMMA NumberNat ==
    ASSUME NEW st \in Stacks
    PROVE  \A R, ops : Number(st, R, ops) \in Nat
BY PlacesFinite

LEMMA BelowTally ==
    ASSUME stack \in Stacks, NEW t \in Threads
    PROVE  /\ Below(t) \in Calling
           /\ \A R, ops : /\ Tally(stack[t], R, ops) = Out(t, R, ops) + Tally(Below(t), R, ops)
                          /\ Tally(Below(t), R, ops) \in Nat /\ Out(t, R, ops) \in {0, 1}
                          /\ Tally(stack[t], R, ops) \in Nat
<1>1. stack[t] \in Calling
  BY DEF Stacks
<1>2. CASE Idle(t)
  <2>1. Below(t) = << >> /\ stack[t] = << >> /\ << >> \in Calling
    BY <1>2 DEF Below, Rest, Idle, Calling
  <2>2. \A R, ops : Tally(<< >>, R, ops) = 0
    BY EmptyTally
  <2> QED
    BY <1>2, <2>1, <2>2 DEF Out
<1>3. CASE ~Idle(t)
  <2>1. Below(t) = Tail(stack[t]) /\ stack[t] # << >>
    BY <1>3 DEF Below, Rest, Idle
  <2>2. Below(t) \in Calling
    BY <1>1, <2>1 DEF Calling
  <2>3. ASSUME NEW R, NEW ops
        PROVE  Tally(stack[t], R, ops) = Counts(Head(stack[t]), R, ops) + Tally(Tail(stack[t]), R, ops)
    BY <1>1, <2>1, TallyTop DEF Calling
  <2>4. \A R, ops : /\ Tally(Below(t), R, ops) \in Nat /\ Tally(stack[t], R, ops) \in Nat
                    /\ Out(t, R, ops) = Counts(Head(stack[t]), R, ops) /\ Out(t, R, ops) \in {0, 1}
    BY <1>1, <1>3, <2>2, WhereFinite DEF Calling, Out, Top, Counts
  <2> QED
    BY <2>1, <2>2, <2>3, <2>4
<1> QED
  BY <1>2, <1>3

\* What the threads have to do after the step, and how much of it there is.
LEMMA MovedStacks ==
    ASSUME stack \in Stacks, NEW t \in Threads, NEW u \in Threads, NEW frames, NEW more,
           Moved(t, frames, u, more)
    PROVE  /\ stack' \in Stacks /\ stack'[t] = frames \o Below(t)
           /\ u # t => stack'[u] = more /\ stack[u] = << >>
           /\ \A v \in Threads \ {t, u} : stack'[v] = stack[v]
           /\ frames \in Calling /\ more \in Calling
<1>1. Below(t) \in Calling
  BY BelowTally
<1>2. frames \o Below(t) \in Calling
  BY <1>1 DEF Moved, Calling
<1> QED
  BY <1>2 DEF Moved, Stacks, Idle

LEMMA MovedTallies ==
    ASSUME stack \in Stacks, NEW t \in Threads, NEW u \in Threads, NEW frames, NEW more,
           Moved(t, frames, u, more)
    PROVE  \A R, ops :
              /\ Tally(stack'[t], R, ops) = Tally(frames, R, ops) + Tally(Below(t), R, ops)
              /\ Tally(frames, R, ops) \in Nat /\ Tally(more, R, ops) \in Nat
              /\ u # t => Tally(stack[u], R, ops) = 0
              /\ u = t => Tally(more, R, ops) = 0
<1> SUFFICES ASSUME NEW R, NEW ops
             PROVE  /\ Tally(stack'[t], R, ops) = Tally(frames, R, ops) + Tally(Below(t), R, ops)
                    /\ Tally(frames, R, ops) \in Nat /\ Tally(more, R, ops) \in Nat
                    /\ u # t => Tally(stack[u], R, ops) = 0
                    /\ u = t => Tally(more, R, ops) = 0
  OBVIOUS
<1> DEFINE b == Below(t)
<1>1. b \in Seq(FrameSet) /\ frames \in Seq(FrameSet) /\ more \in Seq(FrameSet)
  BY BelowTally, MovedStacks DEF Calling
<1>2. stack'[t] = frames \o b /\ (u # t => stack[u] = << >>) /\ (u = t => more = << >>)
  <2>1. stack'[t] = frames \o b /\ (u # t => stack[u] = << >>)
    BY MovedStacks
  <2>2. u = t => more = << >>
    BY DEF Moved
  <2> QED
    BY <2>1, <2>2
<1> HIDE DEF b
<1>3. Tally(frames \o b, R, ops) = Tally(frames, R, ops) + Tally(b, R, ops)
  BY <1>1, TallyOf
<1>4. Tally(frames, R, ops) \in Nat /\ Tally(more, R, ops) \in Nat
  BY <1>1, WhereFinite
<1>5. Tally(<< >>, R, ops) = 0
  BY EmptyTally
<1> QED
  BY <1>2, <1>3, <1>4, <1>5 DEF b

LEMMA MovedCounts ==
    ASSUME stack \in Stacks, NEW t \in Threads, NEW u \in Threads, NEW frames, NEW more,
           Moved(t, frames, u, more), NEW R, NEW ops
    PROVE  /\ Number(stack, R, ops) \in Nat /\ Number(stack', R, ops) \in Nat
           /\ Tally(frames, R, ops) \in Nat /\ Tally(more, R, ops) \in Nat
           /\ Out(t, R, ops) \in {0, 1} /\ Out(t, R, ops) <= Number(stack, R, ops)
           /\ Number(stack', R, ops) = ((Number(stack, R, ops) - Out(t, R, ops))
                                          + Tally(frames, R, ops)) + Tally(more, R, ops)
<1> DEFINE mid == [stack EXCEPT ![t] = frames \o Below(t)]
<1>1. /\ frames \o Below(t) \in Calling
      /\ mid \in Stacks /\ mid[t] = frames \o Below(t) /\ OnlyAt(stack, mid, t)
  <2>1. frames \o Below(t) \in Calling
    BY BelowTally DEF Moved, Calling
  <2> QED
    BY <2>1 DEF Stacks, OnlyAt
<1>2. stack' \in Stacks /\ OnlyAt(mid, stack', u) /\ (u = t => stack' = mid)
  <2>1. stack' \in Stacks
    BY MovedStacks
  <2>2. u = t => stack' = mid
    BY DEF Moved
  <2>3. u # t => stack' = [mid EXCEPT ![u] = more]
    BY DEF Moved
  <2>4. OnlyAt(mid, stack', u)
    <3>1. DOMAIN mid = Threads
      BY <1>1 DEF Stacks
    <3> HIDE DEF mid
    <3> QED
      BY <2>2, <2>3, <3>1 DEF OnlyAt
  <2> QED
    BY <2>1, <2>2, <2>4
<1>3. /\ u # t => mid[u] = << >> /\ stack'[u] = more
      /\ stack'[t] = mid[t]
  BY <1>1, MovedStacks DEF OnlyAt
<1> HIDE DEF mid
<1>4. /\ Number(mid, R, ops)
            = (Number(stack, R, ops) - Tally(stack[t], R, ops)) + Tally(mid[t], R, ops)
      /\ Number(stack, R, ops) \in Nat /\ Number(mid, R, ops) \in Nat
      /\ Tally(stack[t], R, ops) \in Nat /\ Tally(mid[t], R, ops) \in Nat
      /\ Tally(stack[t], R, ops) <= Number(stack, R, ops)
  BY <1>1, NumberReplaced
<1>5. u # t => Number(stack', R, ops)
                 = (Number(mid, R, ops) - Tally(mid[u], R, ops)) + Tally(stack'[u], R, ops)
  BY <1>1, <1>2, NumberReplaced
<1>6. Tally(<< >>, R, ops) = 0
  BY EmptyTally
<1>7. /\ Tally(stack'[t], R, ops) = Tally(frames, R, ops) + Tally(Below(t), R, ops)
      /\ Tally(frames, R, ops) \in Nat /\ Tally(more, R, ops) \in Nat
      /\ u = t => Tally(more, R, ops) = 0
  BY MovedTallies
<1>8. /\ Tally(stack[t], R, ops) = Out(t, R, ops) + Tally(Below(t), R, ops)
      /\ Tally(Below(t), R, ops) \in Nat /\ Out(t, R, ops) \in {0, 1}
  BY BelowTally
<1>9. Number(stack', R, ops) = Number(mid, R, ops) + Tally(more, R, ops)
  BY <1>2, <1>3, <1>4, <1>5, <1>6, <1>7
<1>10. Number(stack', R, ops) \in Nat
  BY <1>2, NumberNat
<1>11. Tally(mid[t], R, ops) = Tally(frames, R, ops) + Tally(Below(t), R, ops)
  BY <1>3, <1>7
<1>12. Number(mid, R, ops) = (Number(stack, R, ops) - Out(t, R, ops)) + Tally(frames, R, ops)
  <2>1. Number(mid, R, ops)
          = (Number(stack, R, ops) - (Out(t, R, ops) + Tally(Below(t), R, ops)))
              + (Tally(frames, R, ops) + Tally(Below(t), R, ops))
    BY <1>4, <1>8, <1>11
  <2> QED
    BY <1>4, <1>7, <1>8, <2>1
<1>13. Out(t, R, ops) <= Number(stack, R, ops)
  <2>1. Out(t, R, ops) + Tally(Below(t), R, ops) <= Number(stack, R, ops)
    BY <1>4, <1>8
  <2> QED
    BY <1>4, <1>8, <2>1
<1> QED
  BY <1>4, <1>7, <1>8, <1>9, <1>10, <1>12, <1>13

(***************************************************************************)
(* Calls that leave the queue and the outcomes alone                       *)
(***************************************************************************)
Free(s, ops) == \A i \in 1..Len(s) : s[i].op \notin ops

LEMMA FreeTally ==
    ASSUME NEW s \in Calling, NEW ops, Free(s, ops), NEW some, some \subseteq ops
    PROVE  \A R : Tally(s, R, some) = 0
<1> SUFFICES ASSUME NEW R PROVE Tally(s, R, some) = 0
  OBVIOUS
<1>1. \A i \in 1..Len(s) : s[i].run \notin R \/ s[i].op \notin some
  BY DEF Free
<1> QED
  BY <1>1, TallyNone

\* A thread goes on with calls that follow, and its own call either settles
\* nothing, or is done with it, or leaves it to the last of these calls.
Leads(f, frames, D) ==
    \/ f.op \notin SettleOps \/ f.run \in D
    \/ /\ frames # << >> /\ frames[Len(frames)].run = f.run
       /\ frames[Len(frames)].op \in SettleOps

LEMMA FollowsOn ==
    ASSUME NEW s \in Calling, NEW frames \in Calling, NEW D, NEW E, D \subseteq E,
           Follows(s, D), Follows(frames, E), s # << >> => Leads(Head(s), frames, E)
    PROVE  Follows(frames \o Rest(s), E)
<1>1. CASE s = << >>
  <2>1. frames \o << >> = frames
    BY DEF Calling
  <2> QED
    BY <1>1, <2>1 DEF Rest
<1>2. CASE s # << >>
  <2> DEFINE n == Len(frames)
             b == Tail(s)
             new == frames \o b
  <2>1. /\ n \in Nat /\ Len(b) \in Nat /\ Len(s) = Len(b) + 1 /\ Len(new) = n + Len(b)
        /\ \A i \in 1..n : new[i] = frames[i]
        /\ \A i \in (n + 1)..(n + Len(b)) : new[i] = s[(i - n) + 1]
    BY <1>2 DEF Calling
  <2>2. Head(s) = s[1] /\ Rest(s) = b
    BY <1>2 DEF Rest
  <2> HIDE DEF n, b, new
  <2>3. ASSUME NEW i \in 1..Len(new), new[i].op = "release", new[i].run \notin E
        PROVE  i > 1 /\ new[i - 1].run = new[i].run /\ new[i - 1].op \in SettleOps
    <3>1. CASE i \in 1..n
      <4>1. i > 1 /\ frames[i - 1].run = frames[i].run /\ frames[i - 1].op \in SettleOps
        BY <2>1, <2>3, <3>1 DEF Follows, n
      <4> QED
        BY <2>1, <3>1, <4>1
    <3>2. CASE i = n + 1
      <4>1. new[i] = s[2] /\ 2 \in 1..Len(s)
        BY <2>1, <3>2
      <4>2. s[1].run = s[2].run /\ s[1].op \in SettleOps
        BY <2>3, <4>1 DEF Follows
      <4>3. frames # << >> /\ frames[n].run = s[1].run /\ frames[n].op \in SettleOps
        BY <1>2, <2>2, <2>3, <4>1, <4>2 DEF Leads, n
      <4>4. n \in 1..n
        BY <2>1, <4>3 DEF n, Calling
      <4> QED
        BY <2>1, <3>2, <4>1, <4>2, <4>3, <4>4
    <3>3. CASE i > n + 1
      <4>1. /\ (i - n) + 1 \in 1..Len(s) /\ new[i] = s[(i - n) + 1]
            /\ i - 1 \in (n + 1)..(n + Len(b)) /\ new[i - 1] = s[i - n]
        BY <2>1, <3>3
      <4>2. s[((i - n) + 1) - 1].run = s[(i - n) + 1].run /\ s[((i - n) + 1) - 1].op \in SettleOps
        BY <2>3, <4>1 DEF Follows
      <4>3. ((i - n) + 1) - 1 = i - n
        BY <2>1
      <4> QED
        BY <2>1, <3>3, <4>1, <4>2, <4>3
    <3> QED
      BY <2>1, <3>1, <3>2, <3>3
  <2> QED
    BY <2>2, <2>3 DEF Follows, new
<1> QED
  BY <1>1, <1>2

\* The kinds of calls that the settles in progress are counted by, with the queue's.
CalmOps == QueueOps \cup {"claim", "record"}

\* Calls that belong to neither, and that tell no parent too early.
Fine(s) == /\ s \in Seq(Sound(Recorded, ByStop)) /\ Free(s, CalmOps)
           /\ Follows(s, Recorded \cup Queued)

\* A step of the threads that does not concern the queue ...
OffQueue ==
    /\ stack' \in Stacks
    /\ \A v \in Threads \ {Queuer} : Tally(stack'[v], Runs, QueueOps) = 0
    /\ \A R : /\ Number(stack', R, {"turn"}) = Number(stack, R, {"turn"})
              /\ Number(stack', R, {"enqueue"}) = Number(stack, R, {"enqueue"})
    /\ stack'[Queuer] = stack[Queuer] \/ (~At(Queuer, "enqueue") /\ ~At(Queuer, "await"))

\* ... or a settle in progress.
OffSettles ==
    /\ \A R : /\ Number(stack', R, {"record"}) = Number(stack, R, {"record"})
              /\ Number(stack', R, {"claim", "record"}) = Number(stack, R, {"claim", "record"})
    /\ \A v \in Threads : Follows(stack'[v], Recorded \cup Queued)
    /\ stack' \in [Threads -> Seq(Sound(Recorded, ByStop))]

LEMMA SameCalm == ASSUME IInv, JInv, UNCHANGED stack PROVE OffQueue /\ OffSettles
<1>1. stack \in Stacks
  BY StacksTyped
<1> QED
  BY <1>1 DEF OffQueue, OffSettles, JInv, TurnsOnce, ReleasedAfter

LEMMA QueuerIs == Queuer \in Threads /\ API \in Threads /\ Stopper \in Threads
BY DEF Queuer, API, Stopper, Threads

LEMMA SeqRest ==
    ASSUME NEW S, NEW s \in Seq(S), NEW frames \in Seq(S)
    PROVE  frames \o Rest(s) \in Seq(S)
BY DEF Rest

LEMMA MovedSame ==
    ASSUME stack \in Stacks, NEW t \in Threads, NEW u \in Threads, NEW frames, NEW more,
           Moved(t, frames, u, more), NEW ops, Free(frames, ops), Free(more, ops),
           Idle(t) \/ Top(t).op \notin ops
    PROVE  /\ \A some \in SUBSET ops : \A R :
                 /\ Tally(frames, R, some) = 0 /\ Tally(more, R, some) = 0 /\ Out(t, R, some) = 0
                 /\ Number(stack', R, some) = Number(stack, R, some)
<1> SUFFICES ASSUME NEW some \in SUBSET ops, NEW R
             PROVE  /\ Tally(frames, R, some) = 0 /\ Tally(more, R, some) = 0
                    /\ Out(t, R, some) = 0
                    /\ Number(stack', R, some) = Number(stack, R, some)
  OBVIOUS
<1>1. frames \in Calling /\ more \in Calling
  BY MovedStacks
<1>2. Tally(frames, R, some) = 0 /\ Tally(more, R, some) = 0
  BY <1>1, FreeTally
<1>3. Out(t, R, some) = 0
  BY DEF Out, Counts
<1>4. /\ Number(stack', R, some) = ((Number(stack, R, some) - Out(t, R, some))
                                      + Tally(frames, R, some)) + Tally(more, R, some)
      /\ Number(stack, R, some) \in Nat
  BY MovedCounts
<1> QED
  BY <1>2, <1>3, <1>4

LEMMA MovedOffQueue ==
    ASSUME IInv, JInv, NEW t \in Threads, NEW u \in Threads, NEW frames, NEW more,
           Moved(t, frames, u, more), Free(frames, QueueOps), Free(more, QueueOps),
           u # t => u # Queuer, Idle(t) \/ Top(t).op \notin QueueOps
    PROVE  OffQueue
<1>0. stack \in Stacks /\ stack[t] \in Calling
  BY StacksTyped
<1>1. /\ stack' \in Stacks /\ stack'[t] = frames \o Rest(stack[t])
      /\ u # t => stack'[u] = more /\ stack[u] = << >>
      /\ \A v \in Threads \ {t, u} : stack'[v] = stack[v]
  BY <1>0, MovedStacks DEF Below
<1>2. \A some \in SUBSET QueueOps : \A R :
         /\ Tally(frames, R, some) = 0 /\ Tally(more, R, some) = 0 /\ Out(t, R, some) = 0
         /\ Number(stack', R, some) = Number(stack, R, some)
  BY <1>0, MovedSame
<1>4. {"turn"} \in SUBSET QueueOps /\ {"enqueue"} \in SUBSET QueueOps
  BY DEF QueueOps
<1>5. \A v \in Threads \ {Queuer} : Tally(stack'[v], Runs, QueueOps) = 0
  <2> SUFFICES ASSUME NEW v \in Threads \ {Queuer}
               PROVE  Tally(stack'[v], Runs, QueueOps) = 0
    OBVIOUS
  <2>0. Tally(stack[v], Runs, QueueOps) = 0
    BY DEF JInv, TurnsOnce
  <2>1. CASE v = t
    <3>1. /\ Tally(stack'[t], Runs, QueueOps)
               = Tally(frames, Runs, QueueOps) + Tally(Below(t), Runs, QueueOps)
      BY <1>0, MovedTallies
    <3>2. /\ Tally(stack[t], Runs, QueueOps)
               = Out(t, Runs, QueueOps) + Tally(Below(t), Runs, QueueOps)
          /\ Tally(Below(t), Runs, QueueOps) \in Nat
      BY <1>0, BelowTally
    <3> QED
      BY <1>2, <2>0, <2>1, <3>1, <3>2
  <2>2. CASE v = u /\ u # t
    BY <1>1, <1>2, <2>2
  <2>3. CASE v \notin {t, u}
    BY <1>1, <2>0, <2>3
  <2> QED
    BY <2>1, <2>2, <2>3
<1>6. stack'[Queuer] = stack[Queuer] \/ (~At(Queuer, "enqueue") /\ ~At(Queuer, "await"))
  BY <1>1, QueuerIs DEF At, QueueOps
<1> QED
  BY <1>1, <1>2, <1>4, <1>5, <1>6 DEF OffQueue

\* Threads go on with calls that follow and that are sound.
LEMMA MovedFollows ==
    ASSUME IInv, NEW t \in Threads, NEW u \in Threads, NEW frames, NEW more,
           Moved(t, frames, u, more), NEW D, NEW E, D \subseteq E,
           \A v \in Threads : Follows(stack[v], D), Follows(frames, E), Follows(more, E),
           Idle(t) \/ Leads(Top(t), frames, E)
    PROVE  \A v \in Threads : Follows(stack'[v], E)
<1>0. stack \in Stacks /\ stack[t] \in Calling
  BY StacksTyped
<1>1. /\ stack'[t] = frames \o Rest(stack[t])
      /\ u # t => stack'[u] = more /\ stack[u] = << >>
      /\ \A v \in Threads \ {t, u} : stack'[v] = stack[v]
      /\ frames \in Calling /\ more \in Calling
  BY <1>0, MovedStacks DEF Below
<1> SUFFICES ASSUME NEW v \in Threads PROVE Follows(stack'[v], E)
  OBVIOUS
<1>2. CASE v = t
  <2>1. stack[t] # << >> => Leads(Head(stack[t]), frames, E)
    BY DEF Idle, Top
  <2> QED
    <3> DEFINE s == stack[t]
    <3>1. /\ s \in Calling /\ Follows(s, D) /\ frames \in Calling
          /\ s # << >> => Leads(Head(s), frames, E)
      BY <1>0, <1>1, <2>1
    <3> HIDE DEF s
    <3>2. Follows(frames \o Rest(s), E)
      BY <3>1, FollowsOn
    <3> QED
      BY <1>1, <1>2, <3>2 DEF s
<1>3. CASE v = u /\ u # t
  BY <1>1, <1>3
<1>4. CASE v \notin {t, u}
  BY <1>1, <1>4 DEF Follows
<1> QED
  BY <1>2, <1>3, <1>4

LEMMA MovedInto ==
    ASSUME IInv, NEW t \in Threads, NEW u \in Threads, NEW frames, NEW more,
           Moved(t, frames, u, more), NEW S, stack \in [Threads -> Seq(S)],
           frames \in Seq(S), more \in Seq(S)
    PROVE  stack' \in [Threads -> Seq(S)]
<1>0. stack \in Stacks
  BY StacksTyped
<1>1. /\ stack' \in Stacks /\ stack'[t] = frames \o Rest(stack[t])
      /\ u # t => stack'[u] = more /\ stack[u] = << >>
      /\ \A v \in Threads \ {t, u} : stack'[v] = stack[v]
  BY <1>0, MovedStacks DEF Below
<1>2. frames \o Rest(stack[t]) \in Seq(S)
  BY SeqRest
<1>3. \A v \in Threads : stack'[v] \in Seq(S)
  BY <1>1, <1>2
<1>4. stack' = [v \in Threads |-> stack'[v]]
  BY <1>1 DEF Stacks
<1> QED
  BY <1>3, <1>4

LEMMA MovedCalm ==
    ASSUME IInv, JInv, NEW t \in Threads, NEW u \in Threads, NEW frames, NEW more,
           Moved(t, frames, u, more), Fine(frames), Fine(more), u # t => u # Queuer,
           Idle(t) \/ Top(t).op \notin CalmOps \cup {"count"}
    PROVE  OffQueue /\ OffSettles
<1>0. stack \in Stacks
  BY StacksTyped
<1>1. OffQueue
  <2>1. Free(frames, QueueOps) /\ Free(more, QueueOps) /\ (Idle(t) \/ Top(t).op \notin QueueOps)
    BY DEF Fine, Free, CalmOps
  <2> QED
    BY <2>1, MovedOffQueue
<1>2. \A some \in SUBSET CalmOps : \A R : Number(stack', R, some) = Number(stack, R, some)
  <2>1. \A some \in SUBSET CalmOps : \A R :
           /\ Tally(frames, R, some) = 0 /\ Tally(more, R, some) = 0 /\ Out(t, R, some) = 0
           /\ Number(stack', R, some) = Number(stack, R, some)
    BY <1>0, MovedSame DEF Fine
  <2> QED
    BY <2>1
<1>3. {"record"} \in SUBSET CalmOps /\ {"claim", "record"} \in SUBSET CalmOps
  BY DEF CalmOps
<1>4. \A v \in Threads : Follows(stack'[v], Recorded \cup Queued)
  <2> DEFINE D == Recorded \cup Queued
  <2>1. Idle(t) \/ Leads(Top(t), frames, D)
    BY DEF Leads, CalmOps, SettleOps
  <2>2. /\ \A v \in Threads : Follows(stack[v], D)
        /\ Follows(frames, D) /\ Follows(more, D)
    BY DEF JInv, ReleasedAfter, Fine
  <2> HIDE DEF D
  <2>3. \A v \in Threads : Follows(stack'[v], D)
    BY <2>1, <2>2, MovedFollows
  <2> QED
    BY <2>3 DEF D
<1>5. stack' \in [Threads -> Seq(Sound(Recorded, ByStop))]
  <2> DEFINE S == Sound(Recorded, ByStop)
  <2>1. stack \in [Threads -> Seq(S)] /\ frames \in Seq(S) /\ more \in Seq(S)
    BY DEF JInv, ReleasedAfter, Fine
  <2> HIDE DEF S
  <2>2. stack' \in [Threads -> Seq(S)]
    BY <2>1, MovedInto
  <2> QED
    BY <2>2 DEF S
<1> QED
  BY <1>1, <1>2, <1>3, <1>4, <1>5 DEF OffSettles

\* Runs begin, are cancelled, given up on and settled.
Going ==
    /\ begun \subseteq begun' /\ table \subseteq table'
    /\ begun' \ begun \subseteq table' /\ begun' \subseteq Runs
    /\ (begun' \ begun) \cap Queued = {}
    /\ \A r \in Runs : /\ control'[r].queued = control[r].queued
                       /\ control[r].settled => control'[r].settled
                       /\ control[r].cancelRequested => control'[r].cancelRequested
                       /\ control[r].stopped => control'[r].stopped

\* None takes a turn, ...
Aside == returned \cup overran \subseteq returned' \cup overran' /\ (stopping => stopping')

\* ... and none is settled, recorded or looked at by Stop.
Undecided ==
    /\ \A r \in Runs : /\ control'[r].settled = control[r].settled
                       /\ control'[r].byStop = control[r].byStop
    /\ UNCHANGED <<settling, recorded>>
    /\ stop'.seen = stop.seen /\ (stop'.at = "done" => stop.at = "done")

\* A queued run that somebody ends stays in his hands.
EndsKept ==
    \A r \in begun : control[r].queued /\ ~control'[r].settled =>
        /\ Ending(r) # 0 => Ending(r)' # 0
        /\ control'[r].cancelRequested \/ control'[r].stopped =>
              control[r].cancelRequested \/ control[r].stopped \/ Ending(r)' # 0

LEMMA QueueKeeps ==
    ASSUME IInv, JInv, OffQueue, Going, Aside, EndsKept
    PROVE  EvictedSettled' /\ TurnsOnce' /\ TurnOwned' /\ TurnAlone'
<1>0. begun \subseteq Runs /\ table \subseteq begun
  BY DEF IInv, TypeOK
<1>1. EvictedSettled'
  BY <1>0 DEF JInv, EvictedSettled, Going
<1>2. \A r \in Runs : Turned(r)' = Turned(r)
  BY DEF OffQueue, Turned
<1>3. Number(stack, Runs, {"enqueue"})' = Number(stack, Runs, {"enqueue"})
  BY DEF OffQueue
<1>4. At(Queuer, "enqueue") => At(Queuer, "enqueue")' /\ stack'[Queuer] = stack[Queuer]
  BY DEF OffQueue, At, Idle, Top
<1>5. TurnsOnce'
  <2>1. \A t \in Threads \ {Queuer} : Tally(stack'[t], Runs, QueueOps) = 0
    BY DEF OffQueue
  <2>2. \A r \in Runs : Turned(r)' <= 1 /\ (Turned(r)' = 1 => control'[r].queued)
    BY <1>2 DEF JInv, TurnsOnce, Going
  <2>3. \A r \in Runs : control'[r].queued => r \in Queued
    BY DEF JInv, TurnsOnce, Going
  <2>4. Number(stack, Runs, {"enqueue"})' # 0 =>
          /\ At(Queuer, "enqueue")' /\ Len(stack'[Queuer]) = 1
          /\ \A j \in 1..(Head(stack'[Queuer]).arg - 1) : control'[Queue[j]].queued
    <3> SUFFICES ASSUME Number(stack, Runs, {"enqueue"}) # 0
                 PROVE  /\ At(Queuer, "enqueue")' /\ Len(stack'[Queuer]) = 1
                        /\ \A j \in 1..(Head(stack'[Queuer]).arg - 1) : control'[Queue[j]].queued
      BY <1>3
    <3>1. /\ At(Queuer, "enqueue") /\ Len(stack[Queuer]) = 1
          /\ \A j \in 1..(Top(Queuer).arg - 1) : control[Queue[j]].queued
      BY DEF JInv, TurnsOnce
    <3>2. \A j \in 1..(Top(Queuer).arg - 1) : Queue[j] \in Runs
      <4>1. Top(Queuer) \in FrameSet
        BY <3>1, TopCall, QueuerIs DEF At
      <4>2. Top(Queuer).arg \in 1..Len(Queue)
        BY <3>1, <4>1 DEF At, FrameSet
      <4> QED
        BY <4>2, RunsAssumption
    <3> QED
      BY <1>4, <3>1, <3>2 DEF Going, Top
  <2> QED
    BY <2>1, <2>2, <2>3, <2>4 DEF TurnsOnce, Top
<1>6. TurnOwned'
  <2> SUFFICES ASSUME NEW r \in begun', ~control'[r].settled, control'[r].queued
               PROVE  IF control'[r].cancelRequested \/ control'[r].stopped
                      THEN Ending(r)' # 0
                      ELSE At(Queuer, "enqueue")' \/ Turned(r)' # 0
    BY DEF TurnOwned
  <2>1. r \in Runs /\ r \in Queued
    BY DEF JInv, TurnsOnce, Going
  <2>2. r \in begun
    BY <2>1 DEF Going
  <2>3. r \in Runs /\ control[r].queued /\ ~control[r].settled
    BY <1>0, <2>2 DEF Going
  <2>4. IF control[r].cancelRequested \/ control[r].stopped
        THEN Ending(r) # 0 ELSE At(Queuer, "enqueue") \/ Turned(r) # 0
    BY <2>2, <2>3 DEF JInv, TurnOwned
  <2> QED
    BY <1>2, <1>4, <2>2, <2>3, <2>4 DEF EndsKept, Going
<1>7. TurnAlone'
  <2>1. Turning' \subseteq Turning
    BY <1>0 DEF Turning, Going, Aside
  <2>2. At(Queuer, "await") => At(Queuer, "await")' /\ Top(Queuer)' = Top(Queuer)
    BY DEF OffQueue, At, Idle, Top
  <2> QED
    BY <2>1, <2>2 DEF JInv, TurnAlone, Aside
<1> QED
  BY <1>1, <1>5, <1>6, <1>7

LEMMA SettlesKeep ==
    ASSUME IInv, JInv, OffSettles, Undecided, \A w \in waiters' : w.child \notin Queued
    PROVE  SettlesCounted' /\ ReleasedAfter'
<1>0. stop.seen \subseteq Runs
  BY DEF IInv, TypeOK
<1>1. \A r \in Runs : Records(r)' = Records(r)
  BY DEF OffSettles, Records
<1>2. Number(stack, Runs, {"claim", "record"})' = Number(stack, Runs, {"claim", "record"})
  BY DEF OffSettles
<1>3. SettlesCounted'
  BY <1>0, <1>1, <1>2 DEF JInv, SettlesCounted, Undecided
<1>4. Recorded' = Recorded /\ ByStop' = ByStop
  BY DEF Recorded, ByStop, Undecided
<1>5. \A t \in Threads : Follows(stack[t], Recorded \cup Queued)'
  BY <1>4 DEF OffSettles, Follows
<1>6. stack' \in [Threads -> Seq(Sound(Recorded, ByStop)')]
  BY <1>4 DEF OffSettles, Sound
<1> QED
  BY <1>3, <1>5, <1>6 DEF ReleasedAfter

(***************************************************************************)
(* Goroutines                                                              *)
(***************************************************************************)
\* A thread replaces its call by ones of which only the first takes a run further.
LEMMA RestTally ==
    ASSUME NEW frames \in Calling, NEW b \in Calling, NEW R, NEW ops,
           Tally(b, R, ops) = 0, Tally(Rest(frames), R, ops) = 0
    PROVE  Tally(Rest(frames \o b), R, ops) = 0
<1>1. CASE frames = << >>
  <2>1. frames \o b = b
    BY <1>1 DEF Calling
  <2>2. CASE b = << >>
    BY <1>1, <2>1, <2>2
  <2>3. CASE b # << >>
    <3>1. /\ Tally(b, R, ops) = Counts(Head(b), R, ops) + Tally(Tail(b), R, ops)
          /\ Tail(b) \in Seq(FrameSet)
      BY <2>3, TallyTop DEF Calling
    <3>2. Tally(Tail(b), R, ops) \in Nat /\ Counts(Head(b), R, ops) \in {0, 1}
      BY <3>1, WhereFinite DEF Counts
    <3> QED
      BY <2>1, <2>3, <3>1, <3>2 DEF Rest
  <2> QED
    BY <2>2, <2>3
<1>2. CASE frames # << >>
  <2> DEFINE a == Tail(frames)
  <2>1. a \in Seq(FrameSet) /\ b \in Seq(FrameSet) /\ Rest(frames) = a
    BY <1>2 DEF Calling, Rest
  <2>2. Rest(frames \o b) = a \o b
    BY <1>2 DEF Calling, Rest
  <2> HIDE DEF a
  <2>3. Tally(a \o b, R, ops) = Tally(a, R, ops) + Tally(b, R, ops)
    BY <2>1, TallyOf
  <2> QED
    BY <2>1, <2>2, <2>3
<1> QED
  BY <1>1, <1>2

LEMMA MovedOnTop ==
    ASSUME stack \in Stacks, LiveOnTop, NEW t \in Threads, NEW u \in Threads,
           NEW frames, NEW more, Moved(t, frames, u, more),
           Tally(Rest(frames), Runs, LiveOps) = 0, Tally(Rest(more), Runs, LiveOps) = 0
    PROVE  LiveOnTop'
<1>1. /\ stack' \in Stacks /\ stack'[t] = frames \o Below(t)
      /\ u # t => stack'[u] = more /\ stack[u] = << >>
      /\ \A v \in Threads \ {t, u} : stack'[v] = stack[v]
      /\ frames \in Calling /\ more \in Calling
  BY MovedStacks
<1>2. Below(t) \in Calling /\ Tally(Below(t), Runs, LiveOps) = 0
  BY BelowTally DEF LiveOnTop
<1>3. Tally(Rest(frames \o Below(t)), Runs, LiveOps) = 0
  BY <1>1, <1>2, RestTally
<1>4. \A v \in Threads : Tally(Rest(stack'[v]), Runs, LiveOps) = 0
  BY <1>1, <1>3 DEF LiveOnTop, Below
<1> QED
  BY <1>4 DEF LiveOnTop, Below

\* What becomes of the runs: they begin and settle, and leave the queue.
Later == \A r \in Runs : /\ r \in begun => r \in begun'
                         /\ r \in begun /\ control'[r].queued => control[r].queued
                         /\ r \in begun /\ control[r].settled => control'[r].settled

LEMMA GoroutineStays ==
    ASSUME NEW r \in Runs, NEW k \in {1, 2}, Goroutine(r, k), Later,
           stack'[<<r, k>>] = stack[<<r, k>>]
    PROVE  Goroutine(r, k)'
<1> DEFINE s == stack[<<r, k>>]
<1>1. r \notin begun' \/ control'[r].queued => s = << >>
  BY DEF Goroutine, Later
<1>2. Open(r)' => Open(r) \/ s = << >>
  BY DEF Goroutine, Later, Open
<1>3. Open(r)' /\ Tally(s, {r}, DriveOps) = 0 => Bare(k, s)
  BY <1>2 DEF Goroutine, Bare
<1>4. s # << >> /\ IsLive(Head(s), r) => Bare(k, Rest(s))
  BY DEF Goroutine
<1> QED
  BY <1>1, <1>3, <1>4 DEF Goroutine

\* A new goroutine.
LEMMA GoroutineStarts ==
    ASSUME NEW r \in Runs, NEW k \in {1, 2}, NEW more \in Calling,
           stack'[<<r, k>>] = more, r \in begun', ~control'[r].queued,
           more # << >>, IsLive(Head(more), r), Bare(k, Rest(more))
    PROVE  Goroutine(r, k)'
<1>1. Tally(more, {r}, DriveOps) # 0
  <2>1. 1 \in 1..Len(more) /\ more[1] = Head(more)
    BY DEF Calling
  <2>2. more[1].run \in {r} /\ more[1].op \in DriveOps
    BY <2>1 DEF IsLive, LiveOps
  <2> QED
    BY <2>1, <2>2, TallyNone
<1> QED
  BY <1>1 DEF Goroutine

\* A thread that owns a run hands it on; one that ends its turn is done; and one
\* that goes on to take a run further did so before, or is no goroutine of it.
Hands(t, frames) ==
    /\ Top(t).op = "signal" => frames = << >>
    /\ Top(t).op \in LiveOps => frames = << >> \/ Tally(frames, {Top(t).run}, DriveOps) # 0
    /\ Top(t).op = "count" => Tally(frames, {Top(t).run}, DriveOps) # 0
    /\ Top(t).op = "claim" => control'[Top(t).run].settled
    /\ frames # << >> /\ Head(frames).op \in LiveOps =>
          /\ Len(frames) = 1
          /\ \/ IsLive(Top(t), Head(frames).run)
             \/ t \notin {<<Head(frames).run, 1>>, <<Head(frames).run, 2>>}

LEMMA RestOne ==
    ASSUME NEW frames \in Calling, Len(frames) = 1, NEW b \in Calling
    PROVE  Rest(frames \o b) = b
<1>1. frames = << frames[1] >>
  BY DEF Calling
<1>2. Tail(<< frames[1] >> \o b) = b /\ << frames[1] >> \o b # << >>
  BY DEF Calling
<1> QED
  BY <1>1, <1>2 DEF Rest

LEMMA GoroutineGoes ==
    ASSUME stack \in Stacks, LiveOnTop, NEW r \in Runs, NEW k \in {1, 2},
           Goroutine(r, k), Later, ~Idle(<<r, k>>), <<r, k>> \in Threads,
           NEW frames \in Calling, stack'[<<r, k>>] = frames \o Below(<<r, k>>),
           Hands(<<r, k>>, frames)
    PROVE  Goroutine(r, k)'
<1> DEFINE t == <<r, k>>
           s == stack[t]
           b == Below(t)
           new == stack'[t]
<1>0. s \in Calling /\ s # << >> /\ b \in Calling /\ b = Tail(s) /\ Top(t) = Head(s)
  BY BelowTally DEF Stacks, Idle, Below, Rest, Top
<1>1. r \in begun /\ ~control[r].queued
  BY <1>0 DEF Goroutine
<1>2. r \in begun' /\ ~control'[r].queued
  BY <1>1 DEF Later
<1>3. /\ Tally(s, {r}, DriveOps) = Counts(Top(t), {r}, DriveOps) + Tally(b, {r}, DriveOps)
      /\ Tally(b, {r}, DriveOps) \in Nat
  <2>1. /\ Tally(stack[t], {r}, DriveOps) = Out(t, {r}, DriveOps) + Tally(Below(t), {r}, DriveOps)
        /\ Tally(Below(t), {r}, DriveOps) \in Nat
    BY BelowTally
  <2> QED
    BY <2>1 DEF Out
<1>4. /\ Tally(new, {r}, DriveOps) = Tally(frames, {r}, DriveOps) + Tally(b, {r}, DriveOps)
      /\ Tally(frames, {r}, DriveOps) \in Nat
  <2>1. frames \in Seq(FrameSet) /\ b \in Seq(FrameSet)
    BY <1>0 DEF Calling
  <2> HIDE DEF b
  <2>2. Tally(frames \o b, {r}, DriveOps) = Tally(frames, {r}, DriveOps) + Tally(b, {r}, DriveOps)
    BY <2>1, TallyOf
  <2> QED
    BY <2>1, <2>2, WhereFinite DEF b
<1>5. frames = << >> => new = b
  BY <1>0 DEF Calling
<1>6. ASSUME Open(r)', Tally(new, {r}, DriveOps) = 0
      PROVE  Bare(k, new)
  <2>1. Open(r)
    BY <1>1, <1>6 DEF Open, Later
  <2>2. Tally(frames, {r}, DriveOps) = 0 /\ Tally(b, {r}, DriveOps) = 0
    BY <1>3, <1>4, <1>6
  <2>3. CASE ~IsLive(Top(t), r) /\ ~(Top(t).run = r /\ Top(t).op \in {"count", "claim"})
    <3>1. Counts(Top(t), {r}, DriveOps) = 0
      BY <2>3 DEF Counts, IsLive, LiveOps
    <3>2. Tally(s, {r}, DriveOps) = 0
      BY <1>3, <2>2, <3>1
    <3>3. Bare(k, s)
      BY <2>1, <3>2 DEF Goroutine
    <3>4. s[1].op = "signal" /\ Len(s) = 1
      BY <1>0, <3>3 DEF Bare
    <3>5. b = << >> /\ Top(t).op = "signal"
      <4>1. PICK q \in Seq(FrameSet) : q = s
        BY <1>0 DEF Calling
      <4>2. Len(q) = 1
        BY <3>4, <4>1
      <4>3. q = << q[1] >>
        BY <4>2
      <4>4. Tail(<< q[1] >>) = << >> /\ Head(<< q[1] >>) = q[1]
        OBVIOUS
      <4>5. Tail(s) = << >> /\ Head(s) = s[1]
        BY <4>1, <4>3, <4>4
      <4> QED
        BY <1>0, <3>4, <4>5
    <3> QED
      BY <1>5, <3>5 DEF Hands, Bare
  <2>4. CASE IsLive(Top(t), r)
    <3>1. frames = << >>
      BY <2>2, <2>4 DEF Hands, IsLive
    <3>2. Bare(k, Rest(s))
      BY <1>0, <2>4 DEF Goroutine
    <3> QED
      BY <1>5, <3>1, <3>2 DEF Below
  <2>5. CASE Top(t).run = r /\ Top(t).op \in {"count", "claim"}
    BY <1>6, <2>2, <2>5 DEF Hands, Open
  <2> QED
    BY <2>3, <2>4, <2>5
<1>7. ASSUME new # << >>, IsLive(Head(new), r)
      PROVE  Bare(k, Rest(new))
  <2>1. CASE frames = << >>
    <3>1. b # << >> /\ IsLive(b[1], r) /\ 1 \in 1..Len(b)
      BY <1>0, <1>5, <1>7, <2>1 DEF Calling
    <3>2. Tally(b, Runs, LiveOps) = 0
      BY DEF LiveOnTop
    <3> QED
      BY <1>0, <3>1, <3>2, TallyNone DEF IsLive
  <2>2. CASE frames # << >>
    <3>1. Head(new) = Head(frames)
      BY <1>0, <2>2 DEF Calling
    <3>2. Len(frames) = 1 /\ IsLive(Top(t), r)
      BY <1>7, <2>2, <3>1 DEF Hands, IsLive
    <3>3. Rest(new) = b
      BY <1>0, <3>2, RestOne
    <3>4. Bare(k, Rest(s))
      BY <1>0, <3>2 DEF Goroutine
    <3> QED
      BY <3>3, <3>4 DEF Below
  <2> QED
    BY <2>1, <2>2
<1>8. /\ Goroutine(r, k)' <=> /\ r \notin begun' \/ control'[r].queued => new = << >>
                              /\ Open(r)' /\ Tally(new, {r}, DriveOps) = 0 => Bare(k, new)
                              /\ new # << >> /\ IsLive(Head(new), r) => Bare(k, Rest(new))
  BY DEF Goroutine
<1> QED
  BY <1>2, <1>6, <1>7, <1>8

\* A thread with nothing to do is given calls: if it is a goroutine of a run, they
\* take that run further.
Fresh(t, frames) ==
    \A r \in Runs, k \in {1, 2} : t = <<r, k>> =>
        /\ r \in begun' /\ ~control'[r].queued
        /\ frames # << >> /\ IsLive(Head(frames), r) /\ Bare(k, Rest(frames))

LEMMA OwnThread == \A r \in Runs, k \in {1, 2} : <<r, k>> \in Threads
BY DEF Threads

LEMMA GoroutinesMoved ==
    ASSUME stack \in Stacks, LiveOnTop, Goroutines, Later, NEW t \in Threads, NEW u \in Threads,
           NEW frames, NEW more, Moved(t, frames, u, more),
           Idle(t) => Fresh(t, frames), ~Idle(t) => Hands(t, frames), u # t => Fresh(u, more)
    PROVE  Goroutines'
<1> SUFFICES ASSUME NEW r \in Runs, NEW k \in {1, 2} PROVE Goroutine(r, k)'
  BY DEF Goroutines
<1>0. Goroutine(r, k) /\ <<r, k>> \in Threads
  BY OwnThread DEF Goroutines
<1>1. /\ stack'[t] = frames \o Below(t)
      /\ u # t => stack'[u] = more
      /\ \A v \in Threads \ {t, u} : stack'[v] = stack[v]
      /\ frames \in Calling /\ more \in Calling
  BY MovedStacks
<1>2. CASE <<r, k>> \notin {t, u}
  BY <1>0, <1>1, <1>2, GoroutineStays
<1>3. CASE <<r, k>> = u /\ u # t
  BY <1>1, <1>3, GoroutineStarts DEF Fresh
<1>4. CASE <<r, k>> = t /\ Idle(t)
  <2>1. frames \o Below(t) = frames
    BY <1>1, <1>4 DEF Below, Rest, Idle, Calling
  <2> QED
    BY <1>1, <1>4, <2>1, GoroutineStarts DEF Fresh
<1>5. CASE <<r, k>> = t /\ ~Idle(t)
  BY <1>0, <1>1, <1>5, GoroutineGoes
<1> QED
  BY <1>2, <1>3, <1>4, <1>5

(***************************************************************************)
(* The calls the engine makes                                              *)
(***************************************************************************)
LEMMA FineEmpty == Fine(<< >>)
BY DEF Fine, Free, Follows

LEMMA FineOne ==
    ASSUME NEW f \in Sound(Recorded, ByStop), f.op \notin CalmOps \cup {"release"}
    PROVE  Fine(<< f >>) /\ << f >> \in Calling
<1>1. << f >> \in Seq(Sound(Recorded, ByStop))
  OBVIOUS
<1>2. Free(<< f >>, CalmOps) /\ Follows(<< f >>, Recorded \cup Queued)
  BY DEF Free, Follows
<1>3. f \in FrameSet
  BY DEF Sound
<1> QED
  BY <1>1, <1>2, <1>3 DEF Fine, Calling

LEMMA FineFrames ==
    ASSUME NEW r \in Runs
    PROVE  /\ \A op \in {"run", "action", "arm", "resumeWait", "reenter"}, n \in Nat :
                 Fine(<< Frame(op, r, n) >>) /\ << Frame(op, r, n) >> \in Calling
           /\ \A op \in {"abandonParent", "cancel"} :
                 Fine(<< Frame(op, r, None) >>) /\ << Frame(op, r, None) >> \in Calling
           /\ \A op \in {"abandon", "claimWait", "claimWaiter"}, a \in {None, "children"} :
                 Fine(<< Frame(op, r, a) >>) /\ << Frame(op, r, a) >> \in Calling
<1>1. ASSUME NEW op \in {"run", "action", "arm", "resumeWait", "reenter"}, NEW n \in Nat
      PROVE  Fine(<< Frame(op, r, n) >>) /\ << Frame(op, r, n) >> \in Calling
  <2>1. Frame(op, r, n) \in Sound(Recorded, ByStop)
    BY DEF Sound, Frame, FrameSet
  <2>2. Frame(op, r, n).op \notin CalmOps \cup {"release"}
    BY DEF Frame, CalmOps, QueueOps
  <2> QED
    BY <2>1, <2>2, FineOne
<1>2. ASSUME NEW op \in {"abandonParent", "cancel"}
      PROVE  Fine(<< Frame(op, r, None) >>) /\ << Frame(op, r, None) >> \in Calling
  <2>1. Frame(op, r, None) \in Sound(Recorded, ByStop)
    BY DEF Sound, Frame, FrameSet, None
  <2>2. Frame(op, r, None).op \notin CalmOps \cup {"release"}
    BY DEF Frame, CalmOps, QueueOps
  <2> QED
    BY <2>1, <2>2, FineOne
<1>3. ASSUME NEW op \in {"abandon", "claimWait", "claimWaiter"}, NEW a \in {None, "children"}
      PROVE  Fine(<< Frame(op, r, a) >>) /\ << Frame(op, r, a) >> \in Calling
  <2>1. Frame(op, r, a) \in Sound(Recorded, ByStop)
    BY DEF Sound, Frame, FrameSet, None
  <2>2. Frame(op, r, a).op \notin CalmOps \cup {"release"}
    BY DEF Frame, CalmOps, QueueOps
  <2> QED
    BY <2>1, <2>2, FineOne
<1> QED
  BY <1>1, <1>2, <1>3

LEMMA FinePair ==
    ASSUME NEW r \in Runs, NEW k \in Runs, NEW n \in Nat
    PROVE  /\ k \notin Queued =>
                 /\ Fine(<< Frame("register", r, [child |-> k, at |-> n]) >>)
                 /\ << Frame("register", r, [child |-> k, at |-> n]) >> \in Calling
           /\ k \in Recorded \ ByStop =>
                 /\ Fine(<< Frame("resumeParent", r, [child |-> k, at |-> n]) >>)
                 /\ << Frame("resumeParent", r, [child |-> k, at |-> n]) >> \in Calling
<1> DEFINE f == Frame("register", r, [child |-> k, at |-> n])
           g == Frame("resumeParent", r, [child |-> k, at |-> n])
<1>1. k \notin Queued => f \in Sound(Recorded, ByStop)
  BY DEF Sound, Frame, FrameSet
<1>2. k \in Recorded \ ByStop => g \in Sound(Recorded, ByStop)
  BY DEF Sound, Frame, FrameSet
<1>3. f.op \notin CalmOps \cup {"release"} /\ g.op \notin CalmOps \cup {"release"}
  BY DEF Frame, CalmOps, QueueOps
<1> QED
  BY <1>1, <1>2, <1>3, FineOne

LEMMA FineSettle ==
    ASSUME NEW r \in Runs, NEW o \in Outcomes \cup {EngineStopped}
    PROVE  /\ Fine(Settle(r, o)) /\ Free(Settle(r, o), LiveOps) /\ Settle(r, o) # << >>
           /\ Settle(r, o) \in Calling /\ Head(Settle(r, o)).op \notin LiveOps
<1> DEFINE a == Frame("count", r, o)
           b == Frame("release", r, None)
<1>1. a \in Sound(Recorded, ByStop) /\ b \in Sound(Recorded, ByStop)
  BY DEF Sound, Frame, FrameSet, None
<1>2. << a, b >> \in Seq(Sound(Recorded, ByStop)) /\ Len(<< a, b >>) = 2
  BY <1>1
<1>3. a.op = "count" /\ a.run = r /\ b.op = "release" /\ b.run = r
  BY DEF Frame
<1>4. Free(<< a, b >>, CalmOps) /\ Free(<< a, b >>, LiveOps)
  BY <1>3 DEF Free, CalmOps, QueueOps, LiveOps, DriveOps
<1>5. Follows(<< a, b >>, Recorded \cup Queued)
  <2> SUFFICES ASSUME NEW i \in 1..2, << a, b >>[i].op = "release"
               PROVE  /\ i > 1 /\ << a, b >>[i - 1].run = << a, b >>[i].run
                      /\ << a, b >>[i - 1].op \in SettleOps
    BY <1>2 DEF Follows
  <2>1. CASE i = 1
    BY <1>3, <2>1
  <2>2. CASE i = 2
    BY <1>3, <2>2 DEF SettleOps
  <2> QED
    BY <2>1, <2>2
<1>6. Settle(r, o) = << a, b >>
  BY DEF Settle
<1>7. Settle(r, o) \in Calling
  BY SettleCounts
<1>8. Head(<< a, b >>).op \notin LiveOps
  BY <1>3 DEF LiveOps, DriveOps
<1> QED
  BY <1>2, <1>4, <1>5, <1>6, <1>7, <1>8 DEF Fine

LEMMA ConcatIs ==
    ASSUME NEW S, NEW a \in Seq(S), NEW b \in Seq(S)
    PROVE  /\ a \o b \in Seq(S) /\ Len(a \o b) = Len(a) + Len(b)
           /\ \A i \in 1..Len(a) : (a \o b)[i] = a[i]
           /\ \A i \in (Len(a) + 1)..(Len(a) + Len(b)) : (a \o b)[i] = b[i - Len(a)]
OBVIOUS

LEMMA FineCancelSettle ==
    ASSUME NEW c \in Runs, NEW r \in Runs, NEW o \in Outcomes \cup {EngineStopped}
    PROVE  LET s == << Frame("cancel", c, None) >> \o Settle(r, o) IN
           /\ Fine(s) /\ Free(s, LiveOps) /\ s # << >> /\ s \in Calling
           /\ Head(s).op \notin LiveOps
           /\ \A R, ops : "cancel" \notin ops => Tally(s, R, ops) = Tally(Settle(r, o), R, ops)
<1> DEFINE x == Frame("cancel", c, None)
           a == Frame("count", r, o)
           b == Frame("release", r, None)
           q == Settle(r, o)
           s == << x >> \o q
<1>1. x \in Sound(Recorded, ByStop) /\ a \in Sound(Recorded, ByStop) /\ b \in Sound(Recorded, ByStop)
  BY DEF Sound, Frame, FrameSet, None
<1>2. s \in Seq(Sound(Recorded, ByStop)) /\ Len(s) = 3 /\ s[1] = x /\ s[2] = a /\ s[3] = b
  <2> DEFINE S == Sound(Recorded, ByStop)
             p == << x >>
  <2>1. q \in Seq(S) /\ Len(q) = 2 /\ q[1] = a /\ q[2] = b
    BY <1>1 DEF Settle
  <2>2. p \in Seq(S) /\ Len(p) = 1 /\ p[1] = x
    BY <1>1
  <2> HIDE DEF S, p, q, a, b, x
  <2>3. /\ p \o q \in Seq(S) /\ Len(p \o q) = 3 /\ (p \o q)[1] = p[1]
        /\ (p \o q)[2] = q[1] /\ (p \o q)[3] = q[2]
    <3>1. /\ p \o q \in Seq(S) /\ Len(p \o q) = Len(p) + Len(q)
          /\ \A i \in 1..Len(p) : (p \o q)[i] = p[i]
          /\ \A i \in (Len(p) + 1)..(Len(p) + Len(q)) : (p \o q)[i] = q[i - Len(p)]
      BY <2>1, <2>2, ConcatIs
    <3>2. 1 \in 1..1 /\ 2 \in (1 + 1)..(1 + 2) /\ 3 \in (1 + 1)..(1 + 2) /\ 2 - 1 = 1 /\ 3 - 1 = 2
      OBVIOUS
    <3> QED
      BY <2>1, <2>2, <3>1, <3>2
  <2> QED
    BY <2>1, <2>2, <2>3 DEF S, p
<1> HIDE DEF s
<1>3. x.op = "cancel" /\ a.op = "count" /\ a.run = r /\ b.op = "release" /\ b.run = r
  BY DEF Frame
<1>4. Free(s, CalmOps) /\ Free(s, LiveOps)
  BY <1>2, <1>3 DEF Free, CalmOps, QueueOps, LiveOps, DriveOps
<1>5. Follows(s, Recorded \cup Queued)
  <2> SUFFICES ASSUME NEW i \in 1..3, s[i].op = "release"
               PROVE  /\ i > 1 /\ s[i - 1].run = s[i].run /\ s[i - 1].op \in SettleOps
    BY <1>2 DEF Follows
  <2>1. CASE i = 1
    BY <1>2, <1>3, <2>1
  <2>2. CASE i = 2
    BY <1>2, <1>3, <2>2
  <2>3. CASE i = 3
    BY <1>2, <1>3, <2>3 DEF SettleOps
  <2>4. i = 1 \/ i = 2 \/ i = 3
    OBVIOUS
  <2> QED
    BY <2>1, <2>2, <2>3, <2>4
<1>7. s \in Calling
  <2>1. Sound(Recorded, ByStop) \subseteq FrameSet
    BY DEF Sound
  <2> QED
    BY <1>2, <2>1, SeqMonotonic DEF Calling
<1>8. Head(s).op \notin LiveOps /\ s # << >>
  <2>1. s # << >> /\ Head(s) = s[1]
    BY <1>2
  <2> QED
    BY <1>2, <1>3, <2>1 DEF LiveOps, DriveOps
<1>9. ASSUME NEW R, NEW ops, "cancel" \notin ops
      PROVE  Tally(s, R, ops) = Tally(Settle(r, o), R, ops)
  <2> DEFINE p == << x >>
  <2>1. p \in Seq(FrameSet) /\ q \in Seq(FrameSet)
    BY <1>1, SettleCounts DEF Calling, Sound
  <2>2. Tally(p, R, ops) = 0
    BY <1>3, <1>9, OneTally DEF Counts
  <2> HIDE DEF p, q
  <2>3. Tally(p \o q, R, ops) = Tally(p, R, ops) + Tally(q, R, ops)
    BY <2>1, TallyOf
  <2>4. Tally(q, R, ops) \in Nat
    BY <2>1, WhereFinite
  <2> QED
    BY <2>2, <2>3, <2>4 DEF p, q, s
<1> QED
  BY <1>2, <1>4, <1>5, <1>7, <1>8, <1>9 DEF Fine, s

\* Calls none of which takes a run further.
LEMMA FreeLive ==
    ASSUME NEW s \in Calling, Free(s, LiveOps)
    PROVE  /\ Tally(Rest(s), Runs, LiveOps) = 0
           /\ s # << >> => Head(s).op \notin LiveOps
<1>1. CASE s = << >>
  BY <1>1, EmptyTally DEF Rest
<1>2. CASE s # << >>
  <2>1. Tail(s) \in Calling /\ Free(Tail(s), LiveOps) /\ Head(s).op \notin LiveOps
    BY <1>2 DEF Calling, Free
  <2> QED
    BY <1>2, <2>1, FreeTally DEF Rest
<1> QED
  BY <1>1, <1>2

\* A single call.
LEMMA OneLive ==
    ASSUME NEW f
    PROVE  /\ Rest(<< f >>) = << >> /\ Tally(Rest(<< f >>), Runs, LiveOps) = 0
           /\ Head(<< f >>) = f /\ Len(<< f >>) = 1 /\ << f >> # << >>
           /\ \A k : Bare(k, Rest(<< f >>))
<1>1. Rest(<< f >>) = << >> /\ Head(<< f >>) = f /\ Len(<< f >>) = 1 /\ << f >> # << >>
  BY DEF Rest
<1> QED
  BY <1>1, EmptyTally DEF Bare

\* Of a kind with fewer calls there are no more.
LEMMA FewerNone ==
    ASSUME NEW s \in Calling, NEW R, NEW ops, NEW some \in SUBSET ops, Tally(s, R, ops) = 0
    PROVE  Tally(s, R, some) = 0
<1>1. \A i \in 1..Len(s) : s[i].run \notin R \/ s[i].op \notin ops
  BY TallyNone
<1>2. \A i \in 1..Len(s) : s[i].run \notin R \/ s[i].op \notin some
  BY <1>1
<1> QED
  BY <1>2, TallyNone

(***************************************************************************)
(* Owners                                                                  *)
(***************************************************************************)
LEMMA OutNumber ==
    ASSUME stack \in Stacks, NEW t \in Threads, NEW R, NEW ops
    PROVE  /\ Out(t, R, ops) <= Number(stack, R, ops) /\ Out(t, R, ops) \in {0, 1}
           /\ Tally(stack[t], R, ops) <= Number(stack, R, ops) /\ Tally(stack[t], R, ops) \in Nat
           /\ Number(stack, R, ops) \in Nat
<1>1. /\ Tally(stack[t], R, ops) = Out(t, R, ops) + Tally(Below(t), R, ops)
      /\ Tally(Below(t), R, ops) \in Nat /\ Out(t, R, ops) \in {0, 1}
      /\ Tally(stack[t], R, ops) \in Nat
  BY BelowTally
<1>2. /\ Cardinality(Elsewhere(stack, t, R, ops)) \in Nat
      /\ Number(stack, R, ops) = Tally(stack[t], R, ops) + Cardinality(Elsewhere(stack, t, R, ops))
  BY NumberSplit
<1> QED
  BY <1>1, <1>2

LEMMA TopOut ==
    ASSUME stack \in Stacks, NEW t \in Threads, ~Idle(t), NEW ops, Top(t).op \in ops
    PROVE  Number(stack, {Top(t).run}, ops) >= 1
<1>1. Out(t, {Top(t).run}, ops) = 1
  BY DEF Out, Counts
<1>2. /\ Out(t, {Top(t).run}, ops) <= Number(stack, {Top(t).run}, ops)
      /\ Number(stack, {Top(t).run}, ops) \in Nat
  BY OutNumber
<1> QED
  BY <1>1, <1>2

\* Whoever takes a run further is its only owner.
LEMMA DriverOwns ==
    ASSUME IInv, JInv, NEW t \in Threads, ~Idle(t), Top(t).op \in LiveOps
    PROVE  LET r == Top(t).run
           IN  /\ r \in Runs /\ r \in begun /\ r \in table
               /\ ~control[r].queued /\ ~control[r].settled
               /\ Drives(r) = 1 /\ ~Armed(r) /\ ~Waiting(r)
<1> DEFINE r == Top(t).run
<1>1. r \in begun /\ r \in Runs
  BY TopCall DEF LiveOps, DriveOps
<1>2. stack \in Stacks
  BY StacksTyped
<1>3. Lives(r) >= 1 /\ Drives(r) >= 1 /\ Lives(r) \in Nat /\ Drives(r) \in Nat
  <2>1. Top(t).op \in DriveOps
    BY DEF LiveOps
  <2> QED
    BY <1>2, <2>1, TopOut, NumberNat DEF Lives, Drives
<1>4. Owned(r)
  BY <1>1 DEF JInv, OwnedOnce
<1>5. ~control[r].queued
  BY <1>3, <1>4 DEF Owned
<1>6. Drives(r) + One(Armed(r)) + One(Waiting(r)) <= One(~control[r].settled)
  BY <1>4, <1>5 DEF Owned
<1>7. ~control[r].settled /\ Drives(r) = 1 /\ ~Armed(r) /\ ~Waiting(r)
  BY <1>3, <1>6 DEF One
<1>8. r \in table
  BY <1>1, <1>7 DEF JInv, EvictedSettled
<1> QED
  BY <1>1, <1>5, <1>7, <1>8

\* A run whose owner is a wait or a waiter, and whose goroutines are thus at rest.
LEMMA PausedRests ==
    ASSUME IInv, JInv, NEW r \in begun, Armed(r) \/ Waiting(r)
    PROVE  /\ r \in Runs /\ r \in table /\ ~control[r].queued /\ ~control[r].settled
           /\ Drives(r) = 0 /\ ~(Armed(r) /\ Waiting(r))
           /\ \A k \in {1, 2} : Bare(k, stack[<<r, k>>])
<1>1. r \in Runs
  BY DEF IInv, TypeOK
<1>2. stack \in Stacks /\ Drives(r) \in Nat
  BY StacksTyped, NumberNat DEF Drives
<1>3. Owned(r)
  BY DEF JInv, OwnedOnce
<1>4. ~control[r].queued
  BY <1>3 DEF Owned
<1>5. Drives(r) + One(Armed(r)) + One(Waiting(r)) <= One(~control[r].settled)
  BY <1>3, <1>4 DEF Owned
<1>6. ~control[r].settled /\ Drives(r) = 0 /\ ~(Armed(r) /\ Waiting(r))
  BY <1>2, <1>5 DEF One
<1>7. r \in table
  BY <1>6 DEF JInv, EvictedSettled
<1>8. ASSUME NEW k \in {1, 2} PROVE Bare(k, stack[<<r, k>>])
  <2>1. Goroutine(r, k) /\ <<r, k>> \in Threads
    BY <1>1, OwnThread DEF JInv, Goroutines
  <2>2. Tally(stack[<<r, k>>], {r}, DriveOps) <= Number(stack, {r}, DriveOps)
        /\ Tally(stack[<<r, k>>], {r}, DriveOps) \in Nat
    BY <1>2, <2>1, OutNumber
  <2>3. Tally(stack[<<r, k>>], {r}, DriveOps) = 0
    BY <1>2, <1>6, <2>2 DEF Drives
  <2> QED
    BY <1>4, <1>6, <2>1, <2>3 DEF Goroutine, Open
<1> QED
  BY <1>1, <1>4, <1>6, <1>7, <1>8

\* A run that a step has nothing to do with.
LEMMA OwnedSame ==
    ASSUME NEW r, Owned(r), control'[r].queued = control[r].queued,
           control'[r].settled = control[r].settled,
           Ended(control[r]) => Ended(control'[r]),
           Armed(r)' => Armed(r), Waiting(r)' => Waiting(r),
           Drives(r) \in Nat, Drives(r)' = Drives(r), Lives(r)' = Lives(r)
    PROVE  Owned(r)'
<1>1. CASE control[r].queued
  BY <1>1 DEF Owned
<1>2. CASE ~control[r].queued
  <2>1. Drives(r) + One(Armed(r)) + One(Waiting(r)) <= One(~control[r].settled)
    BY <1>2 DEF Owned
  <2>2. One(Armed(r))' <= One(Armed(r)) /\ One(Waiting(r))' <= One(Waiting(r))
        /\ One(Armed(r))' \in {0, 1} /\ One(Armed(r)) \in {0, 1}
        /\ One(Waiting(r))' \in {0, 1} /\ One(Waiting(r)) \in {0, 1}
    BY DEF One
  <2>3. Drives(r)' + One(Armed(r))' + One(Waiting(r))' <= One(~control[r].settled)'
    BY <2>1, <2>2 DEF One
  <2> QED
    BY <1>2, <2>3 DEF Owned
<1> QED
  BY <1>1, <1>2

\* Calls that leave one owner to run r, and concern no other.
Carries(r, frames) ==
    /\ Fine(frames) /\ frames \in Calling /\ frames # << >>
    /\ \A q \in Runs : Tally(frames, {q}, DriveOps) = One(q = r)
    /\ Free(frames, LiveOps) \/ (Len(frames) = 1 /\ IsLive(Head(frames), r))

LEMMA CarriesOne ==
    ASSUME NEW r \in Runs, NEW f, IsLive(f, r), Fine(<< f >>), << f >> \in Calling
    PROVE  Carries(r, << f >>)
<1>1. f.run = r /\ f.op \in DriveOps
  BY DEF IsLive, LiveOps
<1>2. \A q \in Runs : Tally(<< f >>, {q}, DriveOps) = One(q = r)
  BY <1>1, OneTally DEF Counts, One
<1>3. Head(<< f >>) = f /\ Len(<< f >>) = 1 /\ << f >> # << >>
  BY OneLive
<1> QED
  BY <1>2, <1>3 DEF Carries

LEMMA CarriesCalls ==
    ASSUME NEW r \in Runs
    PROVE  /\ \A op \in {"run", "action", "arm", "resumeWait", "reenter"}, n \in Nat :
                 Carries(r, << Frame(op, r, n) >>)
           /\ \A o \in Outcomes \cup {EngineStopped} : Carries(r, Settle(r, o))
           /\ \A c \in Runs, o \in Outcomes \cup {EngineStopped} :
                 Carries(r, << Frame("cancel", c, None) >> \o Settle(r, o))
           /\ Carries(r, << Frame("abandonParent", r, None) >>)
<1>1. ASSUME NEW op \in {"run", "action", "arm", "resumeWait", "reenter"}, NEW n \in Nat
      PROVE  Carries(r, << Frame(op, r, n) >>)
  <2>1. Fine(<< Frame(op, r, n) >>) /\ << Frame(op, r, n) >> \in Calling
    BY FineFrames
  <2>2. IsLive(Frame(op, r, n), r)
    BY DEF LiveOps, DriveOps, IsLive, Frame
  <2> QED
    BY <2>1, <2>2, CarriesOne
<1>2. ASSUME NEW o \in Outcomes \cup {EngineStopped}
      PROVE  Carries(r, Settle(r, o)) /\ \A q : Tally(Settle(r, o), {q}, DriveOps) = One(q = r)
  <2>1. \A q : Tally(Settle(r, o), {q}, DriveOps) = One(q = r)
    BY SettleCounts DEF DriveOps, One
  <2> QED
    BY <2>1, FineSettle DEF Carries
<1>3. ASSUME NEW c \in Runs, NEW o \in Outcomes \cup {EngineStopped}
      PROVE  Carries(r, << Frame("cancel", c, None) >> \o Settle(r, o))
  <2> DEFINE s == << Frame("cancel", c, None) >> \o Settle(r, o)
  <2>1. /\ Fine(s) /\ Free(s, LiveOps) /\ s # << >> /\ s \in Calling
        /\ \A R, ops : "cancel" \notin ops => Tally(s, R, ops) = Tally(Settle(r, o), R, ops)
    BY FineCancelSettle
  <2> HIDE DEF s
  <2>2. "cancel" \notin DriveOps
    BY DEF DriveOps
  <2>3. Carries(r, s)
    BY <1>2, <2>1, <2>2 DEF Carries
  <2> QED
    BY <2>3 DEF s
<1>4. Carries(r, << Frame("abandonParent", r, None) >>)
  <2>1. /\ Fine(<< Frame("abandonParent", r, None) >>)
        /\ << Frame("abandonParent", r, None) >> \in Calling
    BY FineFrames
  <2>2. IsLive(Frame("abandonParent", r, None), r)
    BY DEF LiveOps, DriveOps, IsLive, Frame
  <2> QED
    BY <2>1, <2>2, CarriesOne
<1> QED
  BY <1>1, <1>2, <1>3, <1>4

LEMMA CarriesLive ==
    ASSUME NEW r \in Runs, NEW frames, Carries(r, frames)
    PROVE  /\ Tally(Rest(frames), Runs, LiveOps) = 0
           /\ \A q \in Runs \ {r} : Tally(frames, {q}, LiveOps) = 0
           /\ Head(frames).op \in LiveOps => Len(frames) = 1 /\ Head(frames).run = r
<1>1. \A q \in Runs \ {r} : Tally(frames, {q}, LiveOps) = 0
  <2>1. LiveOps \in SUBSET DriveOps
    BY DEF LiveOps
  <2>2. \A q \in Runs \ {r} : Tally(frames, {q}, DriveOps) = 0
    BY DEF Carries, One
  <2>3. ASSUME NEW q \in Runs \ {r} PROVE Tally(frames, {q}, LiveOps) = 0
    <3>1. Tally(frames, {q}, DriveOps) = 0 /\ frames \in Calling
      BY <2>2 DEF Carries
    <3> QED
      BY <2>1, <3>1, FewerNone
  <2> QED
    BY <2>3
<1>2. CASE Free(frames, LiveOps)
  BY <1>1, <1>2, FreeLive DEF Carries
<1>3. CASE Len(frames) = 1 /\ IsLive(Head(frames), r)
  <2>1. frames = << Head(frames) >>
    BY <1>3 DEF Carries, Calling
  <2>2. Tally(Rest(<< Head(frames) >>), Runs, LiveOps) = 0
    BY OneLive
  <2> QED
    BY <1>1, <1>3, <2>1, <2>2 DEF IsLive
<1> QED
  BY <1>2, <1>3 DEF Carries

LEMMA ContinueMoves ==
    ASSUME NEW t \in Threads, ~Idle(t), NEW frames \in Calling, stack' = Continue(t, frames)
    PROVE  Moved(t, frames, t, << >>)
BY DEF Moved, Continue, Below, Rest, Idle, Calling

EndOps == {"abandon", "count", "claim"}

LEMMA SomeLeft ==
    ASSUME NEW a \in Nat, NEW o \in {0, 1}, NEW f \in Nat, NEW m \in Nat, a # 0, o = 0 \/ f # 0
    PROVE  ((a - o) + f) + m # 0
OBVIOUS

LEMMA EndsMoved ==
    ASSUME IInv, NEW t \in Threads, NEW u \in Threads, NEW frames, NEW more,
           Moved(t, frames, u, more),
           \/ Idle(t) \/ Top(t).op \notin EndOps \/ ~control[Top(t).run].queued
           \/ control'[Top(t).run].settled
           \/ Tally(frames, {Top(t).run}, EndOps) # 0,
           \A r \in begun : control[r].queued /\ ~control'[r].settled
                              /\ (control'[r].cancelRequested \/ control'[r].stopped) =>
              control[r].cancelRequested \/ control[r].stopped \/ Ending(r)' # 0
    PROVE  EndsKept
<1>0. stack \in Stacks
  BY StacksTyped
<1>1. ASSUME NEW r \in begun, control[r].queued, ~control'[r].settled, Ending(r) # 0
      PROVE  Ending(r)' # 0
  <2>1. /\ Number(stack, {r}, EndOps) \in Nat /\ Number(stack', {r}, EndOps) \in Nat
        /\ Tally(frames, {r}, EndOps) \in Nat /\ Tally(more, {r}, EndOps) \in Nat
        /\ Out(t, {r}, EndOps) \in {0, 1}
        /\ Number(stack', {r}, EndOps) = ((Number(stack, {r}, EndOps) - Out(t, {r}, EndOps))
                                             + Tally(frames, {r}, EndOps)) + Tally(more, {r}, EndOps)
    BY <1>0, MovedCounts
  <2>2. Out(t, {r}, EndOps) = 0 \/ Tally(frames, {r}, EndOps) # 0
    BY <1>1 DEF Out, Counts
  <2>3. Ending(r) = Number(stack, {r}, EndOps) /\ Ending(r)' = Number(stack', {r}, EndOps)
    BY DEF Ending, EndOps
  <2>4. Number(stack, {r}, EndOps) # 0
    BY <1>1, <2>3
  <2>5. Number(stack', {r}, EndOps) # 0
    BY <2>1, <2>2, <2>4, SomeLeft
  <2> QED
    BY <2>3, <2>5
<1> QED
  BY <1>1 DEF EndsKept

\* What is left to show of a step that does not concern the queue or a settle.
LEMMA KeptBut ==
    ASSUME IInv, JInv, NEW t \in Threads, NEW u \in Threads, NEW frames, NEW more,
           Moved(t, frames, u, more), Fine(frames), Fine(more), u # t => u # Queuer,
           Idle(t) \/ Top(t).op \notin CalmOps \cup {"count"},
           Tally(Rest(frames), Runs, LiveOps) = 0, Tally(Rest(more), Runs, LiveOps) = 0,
           Idle(t) => Fresh(t, frames), ~Idle(t) => Hands(t, frames), u # t => Fresh(u, more),
           Going, Aside, Undecided, EndsKept, \A w \in waiters' : w.child \notin Queued,
           OwnedOnce', PausedOnce'
    PROVE  JInv'
<1>0. stack \in Stacks
  BY StacksTyped
<1>1. OffQueue /\ OffSettles
  BY MovedCalm
<1>2. EvictedSettled' /\ TurnsOnce' /\ TurnOwned' /\ TurnAlone'
  BY <1>1, QueueKeeps
<1>3. SettlesCounted' /\ ReleasedAfter'
  BY <1>1, SettlesKeep
<1>4. LiveOnTop'
  BY <1>0, MovedOnTop DEF JInv
<1>5. Later
  BY DEF Going, Later
<1>6. Goroutines'
  BY <1>0, <1>5, GoroutinesMoved DEF JInv
<1> QED
  BY <1>2, <1>3, <1>4, <1>6 DEF JInv

LEMMA NoneMore ==
    /\ Fine(<< >>) /\ << >> \in Calling /\ Tally(Rest(<< >>), Runs, LiveOps) = 0
    /\ \A R, ops : Tally(<< >>, R, ops) = 0
BY FineEmpty, EmptyTally DEF Rest, Calling

LEMMA DrivesMoved ==
    ASSUME stack \in Stacks, NEW t \in Threads, NEW u \in Threads, NEW frames, NEW more,
           Moved(t, frames, u, more), NEW q
    PROVE  /\ Drives(q) \in Nat /\ Drives(q)' \in Nat
           /\ Drives(q)' = ((Drives(q) - Out(t, {q}, DriveOps)) + Tally(frames, {q}, DriveOps))
                              + Tally(more, {q}, DriveOps)
BY MovedCounts DEF Drives

LEMMA LivesMoved ==
    ASSUME stack \in Stacks, NEW t \in Threads, NEW u \in Threads, NEW frames, NEW more,
           Moved(t, frames, u, more), NEW q
    PROVE  /\ Lives(q) \in Nat /\ Lives(q)' \in Nat
           /\ Lives(q)' = ((Lives(q) - Out(t, {q}, LiveOps)) + Tally(frames, {q}, LiveOps))
                              + Tally(more, {q}, LiveOps)
BY MovedCounts DEF Lives

\* A run that the step is not about.
LEMMA OthersMoved ==
    ASSUME stack \in Stacks, NEW t \in Threads, NEW u \in Threads, NEW frames, NEW more,
           Moved(t, frames, u, more), NEW q,
           Out(t, {q}, DriveOps) = 0, Out(t, {q}, LiveOps) = 0,
           Tally(frames, {q}, DriveOps) = 0, Tally(frames, {q}, LiveOps) = 0,
           Tally(more, {q}, DriveOps) = 0, Tally(more, {q}, LiveOps) = 0
    PROVE  Drives(q)' = Drives(q) /\ Lives(q)' = Lives(q) /\ Drives(q) \in Nat
<1>1. /\ Drives(q) \in Nat
      /\ Drives(q)' = ((Drives(q) - Out(t, {q}, DriveOps)) + Tally(frames, {q}, DriveOps))
                         + Tally(more, {q}, DriveOps)
  BY DrivesMoved
<1>2. /\ Lives(q) \in Nat
      /\ Lives(q)' = ((Lives(q) - Out(t, {q}, LiveOps)) + Tally(frames, {q}, LiveOps))
                         + Tally(more, {q}, LiveOps)
  BY LivesMoved
<1>3. Drives(q)' = Drives(q)
  BY <1>1
<1>4. Lives(q)' = Lives(q)
  BY <1>2
<1> QED
  BY <1>1, <1>3, <1>4

\* Calls that concern the owners of the runs in A only.
About(A, s) == s \in Calling /\ \A q \in Runs \ A : Tally(s, {q}, DriveOps) = 0

LEMMA AboutNone == \A A : About(A, << >>)
BY EmptyTally DEF About, Calling

LEMMA CarriesAbout ==
    ASSUME NEW r \in Runs, NEW frames, Carries(r, frames), NEW A, r \in A
    PROVE  About(A, frames)
BY DEF Carries, About, One

LEMMA FreeAbout ==
    ASSUME NEW A, NEW s \in Calling, Free(s, DriveOps)
    PROVE  About(A, s)
BY FreeTally DEF About

\* The runs in A aside, every run has the owner it had.
LEMMA OwnedBut ==
    ASSUME IInv, JInv, NEW t \in Threads, NEW u \in Threads, NEW frames, NEW more,
           Moved(t, frames, u, more), NEW A, About(A, frames), About(A, more),
           Idle(t) \/ Top(t).run \in A \/ Top(t).op \notin DriveOps,
           begun' \subseteq begun \cup A,
           \A q \in Runs \ A : /\ control'[q].queued = control[q].queued
                               /\ control'[q].settled = control[q].settled
                               /\ Ended(control[q]) => Ended(control'[q])
                               /\ Armed(q)' => Armed(q)
                               /\ Waiting(q)' => Waiting(q),
           \A q \in begun' : q \in A => Owned(q)'
    PROVE  OwnedOnce'
<1>0. stack \in Stacks /\ begun \subseteq Runs
  BY StacksTyped DEF IInv, TypeOK
<1> SUFFICES ASSUME NEW q \in begun', q \notin A PROVE Owned(q)'
  BY DEF OwnedOnce
<1>1. q \in begun /\ q \in Runs /\ Owned(q)
  BY <1>0 DEF JInv, OwnedOnce
<1>2. frames \in Calling /\ more \in Calling /\ LiveOps \in SUBSET DriveOps
  BY DEF About, LiveOps
<1>3. Tally(frames, {q}, DriveOps) = 0 /\ Tally(more, {q}, DriveOps) = 0
  BY <1>1 DEF About
<1>4. Tally(frames, {q}, LiveOps) = 0 /\ Tally(more, {q}, LiveOps) = 0
  BY <1>2, <1>3, FewerNone
<1>5. Out(t, {q}, DriveOps) = 0 /\ Out(t, {q}, LiveOps) = 0
  BY DEF Out, Counts, LiveOps
<1>6. Drives(q)' = Drives(q) /\ Lives(q)' = Lives(q) /\ Drives(q) \in Nat
  BY <1>0, <1>3, <1>4, <1>5, OthersMoved
<1> QED
  BY <1>1, <1>6, OwnedSame

\* The owner of a run takes it further, or goes on to settle it.
LEMMA Passes ==
    ASSUME IInv, JInv, NEW t \in Threads, ~Idle(t), Top(t).op \in LiveOps,
           NEW r, Top(t).run = r,
           NEW frames, Carries(r, frames), stack' = Continue(t, frames),
           UNCHANGED <<table, begun, pauseVars, settling, recorded, stopVars, turnVars>>,
           UNCHANGED control \/ MarkStopped(r)
    PROVE  JInv'
<1>0. /\ stack \in Stacks /\ r \in Runs /\ begun \subseteq Runs /\ table \subseteq begun
      /\ control \in [Runs -> Controls]
  BY StacksTyped, DriverOwns DEF IInv, TypeOK
<1>1. Moved(t, frames, t, << >>)
  BY ContinueMoves DEF Carries
<1>2. /\ r \in begun /\ ~control[r].queued /\ ~control[r].settled
      /\ Drives(r) = 1 /\ ~Armed(r) /\ ~Waiting(r)
  BY DriverOwns
<1>3. /\ \A q \in Runs : /\ control'[q].queued = control[q].queued
                         /\ control'[q].settled = control[q].settled
                         /\ control'[q].byStop = control[q].byStop
                         /\ control'[q].cancelRequested = control[q].cancelRequested
                         /\ control[q].stopped => control'[q].stopped
      /\ \A q \in Runs \ {r} : control'[q] = control[q]
  BY <1>0 DEF MarkStopped, Controls
<1>4. Going /\ Aside /\ Undecided
  BY <1>0, <1>3 DEF Going, Aside, Undecided, stopVars, turnVars
<1>5. EndsKept
  <2>1. Top(t).op \notin EndOps
    BY DEF LiveOps, DriveOps, EndOps
  <2>2. \A q \in begun : control[q].queued /\ ~control'[q].settled
                           /\ (control'[q].cancelRequested \/ control'[q].stopped) =>
           control[q].cancelRequested \/ control[q].stopped \/ Ending(q)' # 0
    BY <1>0, <1>2, <1>3
  <2> QED
    BY <1>1, <2>1, <2>2, EndsMoved
<1>6. Hands(t, frames)
  <2>1. Tally(frames, {r}, DriveOps) # 0 /\ frames # << >>
    BY <1>0 DEF Carries, One
  <2>2. Head(frames).op \in LiveOps => Len(frames) = 1 /\ Head(frames).run = r
    BY <1>0, CarriesLive
  <2>3. IsLive(Top(t), r)
    BY DEF IsLive
  <2>4. Top(t).op \notin {"signal", "count", "claim"}
    BY DEF LiveOps, DriveOps
  <2> QED
    BY <2>1, <2>2, <2>3, <2>4 DEF Hands
<1>8. Drives(r)' = 1
  <2>1. Tally(frames, {r}, DriveOps) = 1 /\ Tally(<< >>, {r}, DriveOps) = 0
    BY <1>0, EmptyTally DEF Carries, One
  <2>2. Out(t, {r}, DriveOps) = 1
    BY DEF Out, Counts, LiveOps
  <2>3. Drives(r)' = ((Drives(r) - Out(t, {r}, DriveOps)) + Tally(frames, {r}, DriveOps))
                       + Tally(<< >>, {r}, DriveOps)
    BY <1>0, <1>1, DrivesMoved
  <2> QED
    BY <1>2, <2>1, <2>2, <2>3
<1>9. \A q \in Runs : (Armed(q)' <=> Armed(q)) /\ (Waiting(q)' <=> Waiting(q))
  BY DEF Armed, Waiting, pauseVars
<1>10. OwnedOnce'
  <2>1. ~control'[r].queued /\ ~control'[r].settled /\ ~Armed(r)' /\ ~Waiting(r)'
    BY <1>0, <1>2, <1>3, <1>9
  <2>2. Owned(r)'
    BY <1>8, <2>1 DEF Owned, One
  <2>3. About({r}, frames) /\ About({r}, << >>)
    BY <1>0, CarriesAbout, AboutNone
  <2>4. \A q \in Runs \ {r} : /\ control'[q].queued = control[q].queued
                              /\ control'[q].settled = control[q].settled
                              /\ Ended(control[q]) => Ended(control'[q])
                              /\ Armed(q)' => Armed(q)
                              /\ Waiting(q)' => Waiting(q)
    BY <1>3, <1>9
  <2>5. \A q \in begun' : q \in {r} => Owned(q)'
    BY <2>2
  <2> QED
    BY <1>1, <2>3, <2>4, <2>5, OwnedBut
<1>11. PausedOnce'
  BY DEF JInv, PausedOnce, pauseVars
<1>12. \A w \in waiters' : w.child \notin Queued
  BY DEF JInv, ReleasedAfter, pauseVars
<1>13. Fine(frames) /\ Tally(Rest(frames), Runs, LiveOps) = 0
  BY <1>0, CarriesLive DEF Carries
<1>14. Top(t).op \notin CalmOps \cup {"count"}
  BY DEF LiveOps, DriveOps, CalmOps, QueueOps
<1> QED
  BY <1>1, <1>4, <1>5, <1>6, <1>10, <1>11, <1>12, <1>13, <1>14, KeptBut, NoneMore

(***************************************************************************)
(* Steps of the thread that owns a run                                     *)
(***************************************************************************)
\* The owner of a run, and what it was asked to do.
LEMMA TopOwner ==
    ASSUME IInv, JInv, NEW t \in Threads, ~Idle(t), Top(t).op \in LiveOps
    PROVE  /\ \E r \in Runs : r = Top(t).run /\ r \in table
           /\ Top(t).op \in {"run", "action", "arm", "resumeWait", "reenter"} => Top(t).arg \in Nat
           /\ Top(t).op \in {"register", "resumeParent"} =>
                 Top(t).arg \in [child : Runs, at : Nat]
<1>1. Top(t) \in FrameSet
  BY TopCall
<1>2. \E r \in Runs : r = Top(t).run /\ r \in table
  BY DriverOwns
<1> QED
  BY <1>1, <1>2 DEF FrameSet

LEMMA TaskPasses ==
    ASSUME IInv, JInv, NEW t \in Threads,
           \/ StopIfCancelled(t) \/ RunCompletes(t) \/ RunFails(t) \/ TaskSkipped(t)
           \/ ActionStarts(t) \/ ActionReturns(t) \/ ActionAbandoned(t)
    PROVE  JInv'
<1>1. ~Idle(t) /\ Top(t).op \in {"run", "action"} /\ Top(t).op \in LiveOps
  BY DEF StopIfCancelled, RunCompletes, RunFails, TaskSkipped, ActionStarts, ActionReturns,
         ActionAbandoned, AtStep, At, LiveOps, DriveOps
<1>2. PICK r \in Runs : r = Top(t).run /\ r \in table
  BY <1>1, TopOwner
<1>3. Top(t).arg \in Nat
  BY <1>1, TopOwner
<1>4. UNCHANGED <<runVars, pauseVars, endVars, stopVars, turnVars>>
  BY DEF StopIfCancelled, RunCompletes, RunFails, TaskSkipped, ActionStarts, ActionReturns,
         ActionAbandoned
<1>5. \/ \E o \in Outcomes : stack' = Continue(t, Settle(r, o))
      \/ \E op \in {"run", "action"}, n \in Nat : stack' = Continue(t, << Frame(op, r, n) >>)
  BY <1>2, <1>3 DEF StopIfCancelled, RunCompletes, RunFails, TaskSkipped, ActionStarts,
         ActionReturns, ActionAbandoned, Outcomes
<1>6. PICK frames : Carries(r, frames) /\ stack' = Continue(t, frames)
  <2>1. CASE \E o \in Outcomes : stack' = Continue(t, Settle(r, o))
    BY <2>1, CarriesCalls
  <2>2. CASE \E op \in {"run", "action"}, n \in Nat : stack' = Continue(t, << Frame(op, r, n) >>)
    BY <2>2, CarriesCalls
  <2> QED
    BY <1>5, <2>1, <2>2
<1>7. /\ UNCHANGED <<table, begun, pauseVars, settling, recorded, stopVars, turnVars>>
      /\ UNCHANGED control
  BY <1>4 DEF runVars, endVars
<1> QED
  BY <1>1, <1>2, <1>6, <1>7, Passes

LEMMA WaitPasses ==
    ASSUME IInv, JInv, NEW t \in Threads,
           \/ WaitReached(t) \/ ArmRefused(t) \/ ResumeWaitStopped(t) \/ ResumeWait(t) \/ Reenter(t)
    PROVE  JInv'
<1>1. ~Idle(t) /\ Top(t).op \in {"run", "arm", "resumeWait", "reenter"} /\ Top(t).op \in LiveOps
  BY DEF WaitReached, ArmRefused, ResumeWaitStopped, ResumeWait, Reenter, AtStep, At, LiveOps,
         DriveOps
<1>2. PICK r \in Runs : r = Top(t).run /\ r \in table
  BY <1>1, TopOwner
<1>3. Top(t).arg \in Nat
  BY <1>1, TopOwner
<1>4. /\ UNCHANGED <<table, begun, pauseVars, endVars, stopVars, turnVars>>
      /\ UNCHANGED control \/ MarkStopped(r)
  BY <1>2 DEF WaitReached, ArmRefused, ResumeWaitStopped, ResumeWait, Reenter, runVars
<1>5. \/ \E o \in Outcomes \cup {EngineStopped} : stack' = Continue(t, Settle(r, o))
      \/ \E op \in {"run", "arm", "reenter"}, n \in Nat : stack' = Continue(t, << Frame(op, r, n) >>)
  BY <1>2, <1>3 DEF WaitReached, ArmRefused, ResumeWaitStopped, ResumeWait, Reenter, Outcomes,
         IfHeld
<1>6. PICK frames : Carries(r, frames) /\ stack' = Continue(t, frames)
  <2>1. CASE \E o \in Outcomes \cup {EngineStopped} : stack' = Continue(t, Settle(r, o))
    BY <2>1, CarriesCalls
  <2>2. CASE \E op \in {"run", "arm", "reenter"}, n \in Nat : stack' = Continue(t, << Frame(op, r, n) >>)
    BY <2>2, CarriesCalls
  <2> QED
    BY <1>5, <2>1, <2>2
<1>7. UNCHANGED <<table, begun, pauseVars, settling, recorded, stopVars, turnVars>>
  BY <1>4 DEF endVars
<1> QED
  BY <1>1, <1>2, <1>4, <1>6, <1>7, Passes

LEMMA ParentPasses ==
    ASSUME IInv, JInv, NEW t \in Threads,
           RegisterRefused(t) \/ AbandonParent(t) \/ ResumeParent(t)
    PROVE  JInv'
<1>1. /\ ~Idle(t) /\ Top(t).op \in {"register", "abandonParent", "resumeParent"}
      /\ Top(t).op \in LiveOps
  BY DEF RegisterRefused, AbandonParent, ResumeParent, At, LiveOps, DriveOps
<1>2. PICK r \in Runs : r = Top(t).run /\ r \in table
  BY <1>1, TopOwner
<1>3. Top(t).op \in {"register", "resumeParent"} =>
         Top(t).arg.child \in Runs /\ Top(t).arg.at \in Nat
  BY <1>1, TopOwner
<1>4. /\ UNCHANGED <<table, begun, pauseVars, endVars, stopVars, turnVars>>
      /\ UNCHANGED control \/ MarkStopped(r)
  BY <1>2 DEF RegisterRefused, AbandonParent, ResumeParent, runVars
<1>5. \/ \E o \in Outcomes : stack' = Continue(t, Settle(r, o))
      \/ \E n \in Nat : stack' = Continue(t, << Frame("run", r, n) >>)
      \/ \E c \in Runs : stack' = Continue(t, << Frame("cancel", c, None) >> \o Settle(r, "cancelled"))
  <2>1. CASE RegisterRefused(t)
    BY <1>2, <1>3, <2>1 DEF RegisterRefused, At
  <2>2. CASE AbandonParent(t)
    BY <1>2, <2>2 DEF AbandonParent, Outcomes
  <2>3. CASE ResumeParent(t)
    BY <1>2, <1>3, <2>3 DEF ResumeParent, At, Outcomes, IfHeld
  <2> QED
    BY <2>1, <2>2, <2>3
<1>6. PICK frames : Carries(r, frames) /\ stack' = Continue(t, frames)
  <2>0. "cancelled" \in Outcomes
    BY DEF Outcomes
  <2>1. CASE \E o \in Outcomes : stack' = Continue(t, Settle(r, o))
    BY <2>1, CarriesCalls
  <2>2. CASE \E n \in Nat : stack' = Continue(t, << Frame("run", r, n) >>)
    BY <2>2, CarriesCalls
  <2>3. CASE \E c \in Runs : stack' = Continue(t, << Frame("cancel", c, None) >> \o Settle(r, "cancelled"))
    BY <2>0, <2>3, CarriesCalls
  <2> QED
    BY <1>5, <2>1, <2>2, <2>3
<1>7. UNCHANGED <<table, begun, pauseVars, settling, recorded, stopVars, turnVars>>
  BY <1>4 DEF endVars
<1> QED
  BY <1>1, <1>2, <1>4, <1>6, <1>7, Passes

(***************************************************************************)
(* Runs that begin                                                         *)
(***************************************************************************)
LEMMA CarriesPair ==
    ASSUME NEW r \in Runs, NEW k \in Runs, NEW n \in Nat
    PROVE  /\ k \notin Queued => Carries(r, << Frame("register", r, [child |-> k, at |-> n]) >>)
           /\ k \in Recorded \ ByStop =>
                 Carries(r, << Frame("resumeParent", r, [child |-> k, at |-> n]) >>)
<1> DEFINE a == [child |-> k, at |-> n]
<1>1. ASSUME NEW op \in {"register", "resumeParent"},
             Fine(<< Frame(op, r, a) >>), << Frame(op, r, a) >> \in Calling
      PROVE  Carries(r, << Frame(op, r, a) >>)
  <2> HIDE DEF a
  <2>1. op \in DriveOps /\ IsLive(Frame(op, r, a), r)
    BY DEF LiveOps, DriveOps, IsLive, Frame
  <2>2. /\ Head(<< Frame(op, r, a) >>) = Frame(op, r, a) /\ Len(<< Frame(op, r, a) >>) = 1
        /\ << Frame(op, r, a) >> # << >>
    BY OneLive
  <2>3. \A q \in Runs : Tally(<< Frame(op, r, a) >>, {q}, DriveOps) = One(q = r)
    BY <2>1, FrameCounts DEF One
  <2> QED
    BY <1>1, <2>1, <2>2, <2>3 DEF Carries
<1> QED
  BY <1>1, FinePair

\* No call is about a run that has not begun, but to begin it.
LEMMA UnbegunNone ==
    ASSUME IInv, NEW r \in Runs \ begun, NEW ops, "enqueue" \notin ops
    PROVE  Number(stack, {r}, ops) = 0
<1>0. stack \in Stacks
  BY StacksTyped
<1>1. ASSUME NEW t \in Threads, NEW i \in 1..Len(stack[t])
      PROVE  stack[t][i].run \notin {r} \/ stack[t][i].op \notin ops
  <2>1. stack[t] \in Seq(Calls(begun, control, table))
    BY DEF IInv, StackInv
  <2>2. stack[t][i] \in Calls(begun, control, table)
    BY <2>1
  <2> QED
    BY <2>2 DEF Calls
<1> QED
  BY <1>0, <1>1, NumberNone

LEMMA UnbegunPauses ==
    ASSUME IInv, NEW r \in Runs \ begun
    PROVE  ~Armed(r) /\ ~Waiting(r) /\ control[r] = NewControl(FALSE)
BY DEF IInv, PauseInv, ControlInv, Armed, Waiting

\* A goroutine of run r is added while thread t goes on, ...
LEMMA SpawnMoves ==
    ASSUME stack \in Stacks, NEW t \in Threads, ~Idle(t), NEW frames \in Calling,
           NEW more \in Calling, NEW r \in Runs, t \notin {<<r, 1>>, <<r, 2>>},
           Idle(<<r, 1>>) \/ Idle(<<r, 2>>), stack' = Spawn(Continue(t, frames), r, more)
    PROVE  \E k \in {1, 2} : /\ Idle(<<r, k>>) /\ Moved(t, frames, <<r, k>>, more)
                             /\ Idle(<<r, 1>>) => k = 1
<1> DEFINE st == Continue(t, frames)
<1>1. <<r, 1>> \in Threads /\ <<r, 2>> \in Threads
  BY OwnThread
<1>2. st = [stack EXCEPT ![t] = frames \o Below(t)]
  BY DEF Continue, Below, Rest, Idle
<1>3. st[<<r, 1>>] = stack[<<r, 1>>]
  BY <1>1, <1>2 DEF Stacks
<1> HIDE DEF st
<1>4. CASE Idle(<<r, 1>>)
  <2>1. stack' = [st EXCEPT ![<<r, 1>>] = more]
    BY <1>3, <1>4 DEF Spawn, Idle, st
  <2>2. Moved(t, frames, <<r, 1>>, more)
    BY <1>2, <1>4, <2>1 DEF Moved
  <2> QED
    BY <1>4, <2>2
<1>5. CASE ~Idle(<<r, 1>>)
  <2>1. stack' = [st EXCEPT ![<<r, 2>>] = more]
    BY <1>3, <1>5 DEF Spawn, Idle, st
  <2>2. Moved(t, frames, <<r, 2>>, more)
    BY <1>2, <1>5, <2>1 DEF Moved
  <2> QED
    BY <1>5, <2>2
<1> QED
  BY <1>4, <1>5

\* ... or on its own.
LEMMA SpawnStarts ==
    ASSUME stack \in Stacks, NEW more \in Calling, NEW r \in Runs,
           Idle(<<r, 1>>) \/ Idle(<<r, 2>>), stack' = Spawn(stack, r, more)
    PROVE  \E k \in {1, 2} : /\ Idle(<<r, k>>) /\ Moved(<<r, k>>, more, <<r, k>>, << >>)
                             /\ Idle(<<r, 1>>) => k = 1
<1>1. more \o << >> = more /\ << >> \in Calling
  BY DEF Calling
<1>2. \A k \in {1, 2} : Idle(<<r, k>>) => Below(<<r, k>>) = << >>
  BY DEF Below, Rest, Idle
<1>3. CASE Idle(<<r, 1>>)
  <2>1. stack' = [stack EXCEPT ![<<r, 1>>] = more]
    BY <1>3 DEF Spawn, Idle
  <2> QED
    BY <1>1, <1>2, <1>3, <2>1 DEF Moved
<1>4. CASE ~Idle(<<r, 1>>)
  <2>1. stack' = [stack EXCEPT ![<<r, 2>>] = more]
    BY <1>4 DEF Spawn, Idle
  <2> QED
    BY <1>1, <1>2, <1>4, <2>1 DEF Moved
<1> QED
  BY <1>3, <1>4

\* The first goroutine of a run: one call, and a queued run's signal after it.
LEMMA FreshOne ==
    ASSUME NEW r \in Runs, r \in begun', ~control'[r].queued, NEW f, IsLive(f, r), NEW k
    PROVE  Fresh(<<r, k>>, << f >>)
<1>1. Head(<< f >>) = f /\ << f >> # << >> /\ \A j : Bare(j, Rest(<< f >>))
  BY OneLive
<1> QED
  BY <1>1 DEF Fresh

LEMMA ThreadsDiffer ==
    /\ \A r \in Runs, k \in {1, 2} : <<r, k>> \notin {Queuer, API, Stopper}
    /\ Queuer # API /\ API # Stopper /\ Queuer # Stopper
BY DEF Queuer, API, Stopper

LEMMA ChildBegins ==
    ASSUME IInv, JInv, NEW t \in Threads, ~Idle(t), Top(t).op \in LiveOps,
           NEW r, Top(t).run = r, NEW frames, Carries(r, frames), NEW c, StartChild(t, c, frames)
    PROVE  JInv'
<1>0. /\ stack \in Stacks /\ r \in Runs /\ begun \subseteq Runs /\ table \subseteq begun
      /\ control \in [Runs -> Controls] /\ c \in Runs \ begun /\ c \notin Queued
  BY StacksTyped, DriverOwns DEF IInv, TypeOK, StartChild, SubRuns
<1>1. /\ r \in begun /\ ~control[r].queued /\ ~control[r].settled
      /\ Drives(r) = 1 /\ ~Armed(r) /\ ~Waiting(r)
  BY DriverOwns
<1>2. /\ ~Armed(c) /\ ~Waiting(c) /\ control[c] = NewControl(FALSE) /\ Drives(c) = 0 /\ r # c
  <2>1. "enqueue" \notin DriveOps
    BY DEF DriveOps
  <2> QED
    BY <1>0, <1>1, <2>1, UnbegunPauses, UnbegunNone DEF Drives
<1>3. /\ control' = control /\ begun' = begun \cup {c} /\ table' = table \cup {c}
      /\ UNCHANGED <<pauseVars, endVars, stopVars, turnVars>>
  BY <1>0, <1>2 DEF StartChild
<1>4. Idle(<<c, 1>>) /\ Idle(<<c, 2>>)
  BY <1>0 DEF JInv, Goroutines, Goroutine, Idle
<1> DEFINE f == Frame("run", c, 1)
<1>5. Carries(c, << f >>) /\ IsLive(f, c)
  <2>1. 1 \in Nat /\ c \in Runs
    BY <1>0
  <2> QED
    BY <2>1, CarriesCalls DEF IsLive, Frame, LiveOps, DriveOps
<1>6. stack' = Spawn(Continue(t, frames), c, << f >>)
  BY DEF StartChild
<1> HIDE DEF f
<1>7. Moved(t, frames, <<c, 1>>, << f >>) /\ t # <<c, 1>> /\ <<c, 1>> # Queuer
  <2>1. t \notin {<<c, 1>>, <<c, 2>>} /\ frames \in Calling /\ << f >> \in Calling
    BY <1>4, <1>5 DEF Carries
  <2> QED
    BY <1>0, <1>4, <1>6, <2>1, SpawnMoves, ThreadsDiffer
<1>8. Going /\ Aside /\ Undecided
  BY <1>0, <1>3 DEF Going, Aside, Undecided, endVars, stopVars, turnVars
<1>9. <<c, 1>> \in Threads
  BY <1>0, OwnThread
<1>10. EndsKept
  <2>1. Top(t).op \notin EndOps
    BY DEF LiveOps, DriveOps, EndOps
  <2> QED
    BY <1>3, <1>7, <1>9, <2>1, EndsMoved
<1>11. Hands(t, frames)
  <2>1. Tally(frames, {r}, DriveOps) # 0 /\ frames # << >>
    BY <1>0 DEF Carries, One
  <2>2. Head(frames).op \in LiveOps => Len(frames) = 1 /\ Head(frames).run = r
    BY <1>0, CarriesLive
  <2>3. IsLive(Top(t), r)
    BY DEF IsLive
  <2>4. Top(t).op \notin {"signal", "count", "claim"}
    BY DEF LiveOps, DriveOps
  <2> QED
    BY <2>1, <2>2, <2>3, <2>4 DEF Hands
<1>12. Fresh(<<c, 1>>, << f >>)
  BY <1>0, <1>2, <1>3, <1>5, FreshOne DEF NewControl
<1>13. Drives(r)' = 1 /\ Drives(c)' = 1
  <2>1. /\ Tally(frames, {r}, DriveOps) = 1 /\ Tally(<< f >>, {r}, DriveOps) = 0
        /\ Tally(frames, {c}, DriveOps) = 0 /\ Tally(<< f >>, {c}, DriveOps) = 1
    BY <1>0, <1>2, <1>5 DEF Carries, One
  <2>2. Out(t, {r}, DriveOps) = 1 /\ Out(t, {c}, DriveOps) = 0
    BY <1>2 DEF Out, Counts, LiveOps
  <2>3. Drives(r)' = ((Drives(r) - Out(t, {r}, DriveOps)) + Tally(frames, {r}, DriveOps))
                       + Tally(<< f >>, {r}, DriveOps)
    BY <1>0, <1>7, <1>9, DrivesMoved
  <2>4. Drives(c)' = ((Drives(c) - Out(t, {c}, DriveOps)) + Tally(frames, {c}, DriveOps))
                       + Tally(<< f >>, {c}, DriveOps)
    BY <1>0, <1>7, <1>9, DrivesMoved
  <2>5. Drives(r)' = 1
    BY <1>1, <2>1, <2>2, <2>3
  <2>6. Drives(c)' = 1
    BY <1>2, <2>1, <2>2, <2>4
  <2> QED
    BY <2>5, <2>6
<1>14. \A q \in Runs : (Armed(q)' <=> Armed(q)) /\ (Waiting(q)' <=> Waiting(q))
  BY <1>3 DEF Armed, Waiting, pauseVars
<1>15. OwnedOnce'
  <2>1. Owned(r)'
    <3>1. ~control'[r].queued /\ ~control'[r].settled /\ ~Armed(r)' /\ ~Waiting(r)'
      BY <1>0, <1>1, <1>3, <1>14
    <3> QED
      BY <1>13, <3>1 DEF Owned, One
  <2>2. Owned(c)'
    <3>1. ~control'[c].queued /\ ~control'[c].settled /\ ~Armed(c)' /\ ~Waiting(c)'
      BY <1>0, <1>2, <1>3, <1>14 DEF NewControl
    <3> QED
      BY <1>13, <3>1 DEF Owned, One
  <2>3. About({r, c}, frames) /\ About({r, c}, << f >>)
    BY <1>0, <1>5, CarriesAbout
  <2>4. \A q \in Runs \ {r, c} : /\ control'[q].queued = control[q].queued
                                 /\ control'[q].settled = control[q].settled
                                 /\ Ended(control[q]) => Ended(control'[q])
                                 /\ Armed(q)' => Armed(q)
                                 /\ Waiting(q)' => Waiting(q)
    BY <1>3, <1>14
  <2>5. \A q \in begun' : q \in {r, c} => Owned(q)'
    BY <2>1, <2>2
  <2>6. begun' \subseteq begun \cup {r, c}
    BY <1>3
  <2> QED
    BY <1>7, <1>9, <2>3, <2>4, <2>5, <2>6, OwnedBut
<1>16. PausedOnce' /\ \A w \in waiters' : w.child \notin Queued
  <2>1. armed' = armed /\ waiters' = waiters
    BY <1>3 DEF pauseVars
  <2>2. PausedOnce /\ \A w \in waiters : w.child \notin Queued
    BY DEF JInv, ReleasedAfter
  <2> QED
    BY <2>1, <2>2 DEF PausedOnce
<1>17. /\ Fine(frames) /\ Tally(Rest(frames), Runs, LiveOps) = 0
       /\ Fine(<< f >>) /\ Tally(Rest(<< f >>), Runs, LiveOps) = 0
  BY <1>0, <1>5, CarriesLive DEF Carries
<1>18. Top(t).op \notin CalmOps \cup {"count"}
  BY DEF LiveOps, DriveOps, CalmOps, QueueOps
<1> QED
  BY <1>7, <1>8, <1>9, <1>10, <1>11, <1>12, <1>15, <1>16, <1>17, <1>18, KeptBut

LEMMA SubWorkflowSteps ==
    ASSUME IInv, JInv, NEW t \in Threads, SubWorkflowReached(t) \/ SubWorkflowDetached(t)
    PROVE  JInv'
<1>1. ~Idle(t) /\ Top(t).op = "run" /\ Top(t).op \in LiveOps
  BY DEF SubWorkflowReached, SubWorkflowDetached, AtStep, At, LiveOps, DriveOps
<1>2. PICK r \in Runs : r = Top(t).run /\ r \in table
  BY <1>1, TopOwner
<1>3. Top(t).arg \in Nat
  BY <1>1, TopOwner
<1>4. CASE SubWorkflowReached(t)
  <2>1. PICK c \in SubRuns :
           StartChild(t, c, << Frame("register", r, [child |-> c, at |-> Top(t).arg]) >>)
    BY <1>2, <1>4 DEF SubWorkflowReached
  <2>2. Carries(r, << Frame("register", r, [child |-> c, at |-> Top(t).arg]) >>)
    BY <1>3, CarriesPair DEF SubRuns
  <2> QED
    BY <1>1, <1>2, <2>1, <2>2, ChildBegins
<1>5. CASE SubWorkflowDetached(t)
  <2>1. PICK c \in SubRuns : StartChild(t, c, << Frame("run", r, Top(t).arg + 1) >>)
    BY <1>2, <1>5 DEF SubWorkflowDetached
  <2>2. \A n \in Nat : Carries(r, << Frame("run", r, n) >>)
    BY CarriesCalls
  <2>3. Top(t).arg + 1 \in Nat
    BY <1>3
  <2>4. Carries(r, << Frame("run", r, Top(t).arg + 1) >>)
    BY <2>2, <2>3
  <2> QED
    BY <1>1, <1>2, <2>1, <2>4, ChildBegins
<1> QED
  BY <1>4, <1>5

(***************************************************************************)
(* Runs that pause                                                         *)
(***************************************************************************)
\* The owner of a run leaves it to a wait, or to a registration on its child.
LEMMA Pauses ==
    ASSUME IInv, JInv, NEW t \in Threads, ~Idle(t), Top(t).op \in LiveOps,
           NEW r, Top(t).run = r, stack' = Continue(t, << >>),
           UNCHANGED <<runVars, endVars, stopVars, turnVars>>,
           armed \subseteq armed', waiters \subseteq waiters',
           \A w \in armed' \ armed : w.run = r, \A w \in waiters' \ waiters : w.parent = r,
           \A u, v \in armed' \ armed : u = v, \A u, v \in waiters' \ waiters : u = v,
           \A w \in waiters' \ waiters : w.child \notin Queued,
           armed' = armed \/ waiters' = waiters
    PROVE  JInv'
<1>0. /\ stack \in Stacks /\ r \in Runs /\ begun \subseteq Runs /\ table \subseteq begun
  BY StacksTyped, DriverOwns DEF IInv, TypeOK
<1>1. Moved(t, << >>, t, << >>)
  BY ContinueMoves, NoneMore
<1>2. /\ r \in begun /\ ~control[r].queued /\ ~control[r].settled
      /\ Drives(r) = 1 /\ ~Armed(r) /\ ~Waiting(r)
  BY DriverOwns
<1>3. Going /\ Aside /\ Undecided
  BY <1>0 DEF Going, Aside, Undecided, runVars, endVars, stopVars, turnVars
<1>4. EndsKept
  <2>1. Top(t).op \notin EndOps
    BY DEF LiveOps, DriveOps, EndOps
  <2> QED
    BY <1>1, <2>1, EndsMoved DEF runVars
<1>5. Hands(t, << >>)
  BY DEF Hands, LiveOps, DriveOps
<1>6. Drives(r)' = 0
  <2>1. Tally(<< >>, {r}, DriveOps) = 0
    BY EmptyTally
  <2>2. Out(t, {r}, DriveOps) = 1
    BY DEF Out, Counts, LiveOps
  <2>3. Drives(r)' = ((Drives(r) - Out(t, {r}, DriveOps)) + Tally(<< >>, {r}, DriveOps))
                       + Tally(<< >>, {r}, DriveOps)
    BY <1>0, <1>1, DrivesMoved
  <2> QED
    BY <1>2, <2>1, <2>2, <2>3
<1>7. \A q \in Runs \ {r} : (Armed(q)' => Armed(q)) /\ (Waiting(q)' => Waiting(q))
  BY DEF Armed, Waiting
<1>8. OwnedOnce'
  <2>1. Owned(r)'
    <3>1. ~control'[r].queued /\ ~control'[r].settled /\ (~Armed(r)' \/ ~Waiting(r)')
      BY <1>2 DEF runVars, Armed, Waiting
    <3> QED
      BY <1>6, <3>1 DEF Owned, One
  <2>2. About({r}, << >>)
    BY AboutNone
  <2>3. \A q \in Runs \ {r} : /\ control'[q].queued = control[q].queued
                              /\ control'[q].settled = control[q].settled
                              /\ Ended(control[q]) => Ended(control'[q])
                              /\ Armed(q)' => Armed(q)
                              /\ Waiting(q)' => Waiting(q)
    BY <1>7 DEF runVars
  <2>4. \A q \in begun' : q \in {r} => Owned(q)'
    BY <2>1
  <2>5. begun' \subseteq begun \cup {r}
    BY DEF runVars
  <2> QED
    BY <1>1, <2>2, <2>3, <2>4, <2>5, OwnedBut
<1>9. PausedOnce'
  <2>1. \A w \in armed : w.run # r
    BY <1>2 DEF Armed
  <2>2. \A w \in waiters : w.parent # r
    BY <1>2 DEF Waiting
  <2>3. \A u, v \in armed' : u.run = v.run => u = v
    BY <2>1 DEF JInv, PausedOnce
  <2>4. \A u, v \in waiters' : u.parent = v.parent => u = v
    BY <2>2 DEF JInv, PausedOnce
  <2> QED
    BY <2>3, <2>4 DEF PausedOnce
<1>10. \A w \in waiters' : w.child \notin Queued
  BY DEF JInv, ReleasedAfter
<1>11. Top(t).op \notin CalmOps \cup {"count"}
  BY DEF LiveOps, DriveOps, CalmOps, QueueOps
<1> QED
  BY <1>1, <1>3, <1>4, <1>5, <1>8, <1>9, <1>10, <1>11, KeptBut, NoneMore

\* A pending call is sound.
LEMMA TopSound ==
    ASSUME IInv, JInv, NEW t \in Threads, ~Idle(t)
    PROVE  Top(t) \in Sound(Recorded, ByStop)
<1>1. stack[t] \in Seq(Sound(Recorded, ByStop)) /\ stack[t] # << >>
  BY DEF JInv, ReleasedAfter, Idle
<1> QED
  BY <1>1, TopIsCall DEF Top

LEMMA PauseSteps ==
    ASSUME IInv, JInv, NEW t \in Threads, ArmWait(t) \/ Register(t)
    PROVE  JInv'
<1>1. ~Idle(t) /\ Top(t).op \in {"arm", "register"} /\ Top(t).op \in LiveOps
  BY DEF ArmWait, Register, At, LiveOps, DriveOps
<1>2. PICK r \in Runs : r = Top(t).run /\ r \in table
  BY <1>1, TopOwner
<1>3. CASE ArmWait(t)
  <2>1. /\ armed' = armed \cup {[run |-> r, at |-> Top(t).arg]} /\ waiters' = waiters
        /\ stack' = Continue(t, << >>) /\ UNCHANGED <<runVars, endVars, stopVars, turnVars>>
    BY <1>2, <1>3 DEF ArmWait
  <2>2. \A w \in armed' \ armed : w.run = r
    BY <2>1
  <2>3. armed \subseteq armed' /\ (\A u, v \in armed' \ armed : u = v)
    BY <2>1
  <2> QED
    BY <1>1, <1>2, <2>1, <2>2, <2>3, Pauses
<1>4. CASE Register(t)
  <2>0. Top(t).arg.child \notin Queued
    BY <1>1, <1>4, TopSound DEF Sound, Register, At
  <2>1. /\ waiters' = waiters \cup {[child |-> Top(t).arg.child, parent |-> r, at |-> Top(t).arg.at]}
        /\ armed' = armed
        /\ stack' = Continue(t, << >>) /\ UNCHANGED <<runVars, endVars, stopVars, turnVars>>
    BY <1>2, <1>4 DEF Register
  <2>2. \A w \in waiters' \ waiters : w.parent = r /\ w.child \notin Queued
    BY <2>0, <2>1
  <2>3. waiters \subseteq waiters' /\ (\A u, v \in waiters' \ waiters : u = v)
    BY <2>1
  <2> QED
    BY <1>1, <1>2, <2>1, <2>2, <2>3, Pauses
<1> QED
  BY <1>3, <1>4

(***************************************************************************)
(* Runs taken from their pause                                             *)
(***************************************************************************)
\* Whoever takes a paused run out of its wait or registration is its new owner.
LEMMA Takes ==
    ASSUME IInv, JInv, NEW t \in Threads, NEW u \in Threads, NEW frames, NEW more,
           Moved(t, frames, u, more), NEW r \in begun, Armed(r) \/ Waiting(r),
           Idle(t) \/ Top(t).op \in {"release", "claimWait", "claimWaiter"},
           \/ Carries(r, frames) /\ more = << >>
           \/ Carries(r, more) /\ frames = << >>,
           Idle(t) => Fresh(t, frames), ~Idle(t) => Hands(t, frames), u # t => Fresh(u, more),
           u # t => u # Queuer,
           ~Armed(r)', ~Waiting(r)', armed' \subseteq armed, waiters' \subseteq waiters,
           UNCHANGED <<runVars, endVars, stopVars, turnVars>>
    PROVE  JInv'
<1>0. /\ stack \in Stacks /\ r \in Runs /\ begun \subseteq Runs /\ table \subseteq begun
  BY StacksTyped DEF IInv, TypeOK
<1>1. ~control[r].queued /\ ~control[r].settled /\ Drives(r) = 0
  BY PausedRests
<1>2. Going /\ Aside /\ Undecided
  BY <1>0 DEF Going, Aside, Undecided, runVars, endVars, stopVars, turnVars
<1>3. EndsKept
  <2>1. Idle(t) \/ Top(t).op \notin EndOps
    BY DEF EndOps
  <2> QED
    BY <2>1, EndsMoved DEF runVars
<1>4. Drives(r)' = 1
  <2>1. Tally(<< >>, {r}, DriveOps) = 0
    BY EmptyTally
  <2>2. Out(t, {r}, DriveOps) = 0
    BY DEF Out, Counts, DriveOps
  <2>3. \/ Tally(frames, {r}, DriveOps) = 1 /\ Tally(more, {r}, DriveOps) = 0
        \/ Tally(frames, {r}, DriveOps) = 0 /\ Tally(more, {r}, DriveOps) = 1
    BY <1>0, <2>1 DEF Carries, One
  <2>4. Drives(r)' = ((Drives(r) - Out(t, {r}, DriveOps)) + Tally(frames, {r}, DriveOps))
                       + Tally(more, {r}, DriveOps)
    BY <1>0, DrivesMoved
  <2> QED
    BY <1>1, <2>2, <2>3, <2>4
<1>5. \A q \in Runs : (Armed(q)' => Armed(q)) /\ (Waiting(q)' => Waiting(q))
  BY DEF Armed, Waiting
<1>6. OwnedOnce'
  <2>1. Owned(r)'
    <3>1. ~control'[r].queued /\ ~control'[r].settled
      BY <1>1 DEF runVars
    <3> QED
      BY <1>4, <3>1 DEF Owned, One
  <2>2. About({r}, frames) /\ About({r}, more)
    BY <1>0, AboutNone, CarriesAbout
  <2>3. \A q \in Runs \ {r} : /\ control'[q].queued = control[q].queued
                              /\ control'[q].settled = control[q].settled
                              /\ Ended(control[q]) => Ended(control'[q])
                              /\ Armed(q)' => Armed(q)
                              /\ Waiting(q)' => Waiting(q)
    BY <1>5 DEF runVars
  <2>4. \A q \in begun' : q \in {r} => Owned(q)'
    BY <2>1
  <2>5. begun' \subseteq begun \cup {r}
    BY DEF runVars
  <2>6. Idle(t) \/ Top(t).op \notin DriveOps
    BY DEF DriveOps
  <2> QED
    BY <2>2, <2>3, <2>4, <2>5, <2>6, OwnedBut
<1>7. PausedOnce' /\ \A w \in waiters' : w.child \notin Queued
  BY DEF JInv, PausedOnce, ReleasedAfter
<1>8. Idle(t) \/ Top(t).op \notin CalmOps \cup {"count"}
  BY DEF CalmOps, QueueOps
<1>9. /\ Fine(frames) /\ Tally(Rest(frames), Runs, LiveOps) = 0
      /\ Fine(more) /\ Tally(Rest(more), Runs, LiveOps) = 0
  BY <1>0, NoneMore, CarriesLive DEF Carries
<1> QED
  BY <1>2, <1>3, <1>6, <1>7, <1>8, <1>9, KeptBut

\* A thread with another call to make is no goroutine of a paused run.
LEMMA PausedApart ==
    ASSUME IInv, JInv, NEW r \in begun, Armed(r) \/ Waiting(r), NEW t \in Threads,
           ~Idle(t), Top(t).op # "signal"
    PROVE  t \notin {<<r, 1>>, <<r, 2>>} /\ Idle(<<r, 2>>)
<1>1. Bare(1, stack[<<r, 1>>]) /\ Bare(2, stack[<<r, 2>>])
  BY PausedRests
<1>2. Idle(<<r, 2>>)
  BY <1>1 DEF Bare, Idle
<1>3. t # <<r, 1>>
  <2> SUFFICES ASSUME t = <<r, 1>> PROVE FALSE
    OBVIOUS
  <2>1. stack[t] # << >> /\ stack[t] \in Calling
    BY StacksTyped DEF Idle
  <2>2. stack[t][1].op = "signal" /\ Head(stack[t]) = stack[t][1]
    BY <1>1, <2>1 DEF Bare, Calling
  <2> QED
    BY <2>2 DEF Top
<1> QED
  BY <1>2, <1>3

LEMMA WaitEndsTakes ==
    ASSUME IInv, JInv, NEW w \in armed, WaitEnds(w)
    PROVE  JInv'
<1>0. stack \in Stacks /\ w.at \in Nat
  BY StacksTyped DEF IInv, TypeOK
<1>1. PICK r \in begun : r = w.run
  BY DEF IInv, PauseInv
<1>2. Armed(r)
  BY <1>1 DEF Armed
<1>3. r \in Runs /\ ~control[r].queued /\ Idle(<<r, 2>>) /\ ~Waiting(r)
  <2>1. /\ r \in Runs /\ ~control[r].queued /\ ~(Armed(r) /\ Waiting(r))
        /\ Bare(2, stack[<<r, 2>>])
    BY <1>2, PausedRests
  <2> QED
    BY <1>2, <2>1 DEF Bare, Idle
<1> DEFINE f == Frame("resumeWait", r, w.at)
<1>4. Carries(r, << f >>) /\ IsLive(f, r)
  BY <1>0, <1>3, CarriesCalls DEF IsLive, Frame, LiveOps, DriveOps
<1>5. /\ stack' = Spawn(stack, r, << f >>) /\ armed' = armed \ {w} /\ waiters' = waiters
      /\ UNCHANGED <<runVars, endVars, stopVars, turnVars>>
  BY <1>1 DEF WaitEnds
<1> HIDE DEF f
<1>6. PICK k \in {1, 2} : Idle(<<r, k>>) /\ Moved(<<r, k>>, << f >>, <<r, k>>, << >>)
  BY <1>0, <1>3, <1>4, <1>5, SpawnStarts DEF Carries
<1>7. Fresh(<<r, k>>, << f >>)
  BY <1>3, <1>4, <1>5, FreshOne DEF runVars
<1>8. ~Armed(r)' /\ ~Waiting(r)'
  BY <1>1, <1>3, <1>5 DEF JInv, PausedOnce, Armed, Waiting
<1>9. <<r, k>> \in Threads
  BY <1>3, OwnThread
<1> QED
  BY <1>2, <1>4, <1>5, <1>6, <1>7, <1>8, <1>9, Takes

\* A thread that is about to tell the parent of an ordinary run has recorded it.
LEMMA ReleaseRecorded ==
    ASSUME IInv, JInv, NEW t \in Threads, At(t, "release"), Top(t).run \notin Queued
    PROVE  Top(t).run \in Recorded
<1>1. stack[t] \in Calling /\ stack[t] # << >>
  BY StacksTyped DEF At, Idle
<1>2. 1 \in 1..Len(stack[t]) /\ stack[t][1] = Top(t)
  BY <1>1 DEF Calling, Top
<1>3. Follows(stack[t], Recorded \cup Queued)
  BY DEF JInv, ReleasedAfter
<1>4. stack[t][1].op = "release" /\ stack[t][1].run \notin Recorded \cup Queued => 1 > 1
  BY <1>2, <1>3 DEF Follows
<1> QED
  BY <1>2, <1>4 DEF At

LEMMA ReleaseTakes ==
    ASSUME IInv, JInv, NEW t \in Threads, Release(t)
    PROVE  JInv'
<1>0. stack \in Stacks /\ ~Idle(t) /\ Top(t).op = "release"
  BY StacksTyped DEF Release, At
<1>1. PICK c \in Runs : c = Top(t).run
  BY <1>0, TopCall
<1>2. PICK w \in WaitersOn(c) :
         stack' = IF control[c].byStop
                  THEN Continue(t, << Frame("abandonParent", w.parent, None) >>)
                  ELSE ResumeWaiter(t, w)
  BY <1>1 DEF Release
<1>3. /\ waiters' = waiters \ WaitersOn(c) /\ armed' = armed
      /\ UNCHANGED <<runVars, endVars, stopVars, turnVars>>
  BY <1>1 DEF Release
<1>4. w \in waiters /\ w.child = c /\ w.at \in Nat /\ c \notin Queued
  BY DEF WaitersOn, IInv, TypeOK, JInv, ReleasedAfter
<1>5. PICK r \in begun : r = w.parent
  BY <1>4 DEF IInv, PauseInv
<1>6. Waiting(r)
  BY <1>4, <1>5 DEF Waiting
<1>7. r \in Runs /\ ~control[r].queued /\ ~Armed(r)
  BY <1>6, PausedRests
<1>8. t \notin {<<r, 1>>, <<r, 2>>} /\ Idle(<<r, 2>>)
  BY <1>0, <1>6, PausedApart
<1>9. ~Armed(r)' /\ ~Waiting(r)'
  <2>1. \A v \in waiters : v.parent = r => v = w
    BY <1>4, <1>5 DEF JInv, PausedOnce
  <2> QED
    BY <1>3, <1>7, <2>1 DEF Armed, Waiting
<1>10. CASE control[c].byStop
  <2> DEFINE f == Frame("abandonParent", r, None)
  <2>1. stack' = Continue(t, << f >>)
    BY <1>2, <1>5, <1>10
  <2>2. Carries(r, << f >>) /\ f.run = r
    BY <1>7, CarriesCalls DEF Frame
  <2> HIDE DEF f
  <2>3. Moved(t, << f >>, t, << >>)
    BY <1>0, <2>1, <2>2, ContinueMoves DEF Carries
  <2>4. Hands(t, << f >>)
    <3>1. Head(<< f >>) = f /\ Len(<< f >>) = 1
      BY OneLive
    <3>2. Top(t).op \notin LiveOps
      BY <1>0 DEF LiveOps, DriveOps
    <3> QED
      BY <1>0, <1>8, <2>2, <3>1, <3>2 DEF Hands
  <2> QED
    BY <1>0, <1>3, <1>6, <1>9, <2>2, <2>3, <2>4, Takes
<1>11. CASE ~control[c].byStop
  <2> DEFINE f == Frame("resumeParent", r, [child |-> c, at |-> w.at])
  <2>1. stack' = Spawn(Continue(t, << >>), r, << f >>)
    BY <1>2, <1>4, <1>5, <1>11 DEF ResumeWaiter
  <2>2. Carries(r, << f >>) /\ IsLive(f, r)
    <3>1. c \in Recorded \ ByStop
      BY <1>0, <1>1, <1>4, <1>11, ReleaseRecorded DEF At, ByStop
    <3> QED
      BY <1>4, <1>7, <3>1, CarriesPair DEF IsLive, Frame, LiveOps, DriveOps
  <2> HIDE DEF f
  <2>3. PICK k \in {1, 2} : Idle(<<r, k>>) /\ Moved(t, << >>, <<r, k>>, << f >>)
    BY <1>0, <1>7, <1>8, <2>1, <2>2, SpawnMoves, NoneMore DEF Carries
  <2>4. Fresh(<<r, k>>, << f >>)
    BY <1>3, <1>7, <2>2, FreshOne DEF runVars
  <2>5. Hands(t, << >>)
    BY <1>0 DEF Hands, LiveOps, DriveOps
  <2>6. <<r, k>> \in Threads /\ <<r, k>> # Queuer
    BY <1>7, OwnThread, ThreadsDiffer
  <2> QED
    BY <1>0, <1>3, <1>6, <1>9, <2>2, <2>3, <2>4, <2>5, <2>6, Takes
<1> QED
  BY <1>10, <1>11

LEMMA ClaimWaitTakes ==
    ASSUME IInv, JInv, NEW t \in Threads, ClaimWait(t), Armed(Top(t).run)
    PROVE  JInv'
<1>0. stack \in Stacks /\ ~Idle(t) /\ Top(t).op = "claimWait"
  BY StacksTyped DEF ClaimWait, At
<1>1. PICK r \in begun : r = Top(t).run
  BY <1>0, TopCall
<1>2. Armed(r)
  BY <1>1
<1>3. /\ armed' = armed \ {w \in armed : w.run = r} /\ waiters' = waiters
      /\ stack' = Continue(t, Settle(r, "cancelled"))
      /\ UNCHANGED <<runVars, endVars, stopVars, turnVars>>
  BY <1>1, <1>2 DEF ClaimWait, Armed
<1>4. r \in Runs /\ ~Waiting(r)
  BY <1>2, PausedRests
<1>5. ~Armed(r)' /\ ~Waiting(r)'
  BY <1>3, <1>4 DEF Armed, Waiting
<1> DEFINE frames == Settle(r, "cancelled")
<1>6. Carries(r, frames) /\ Head(frames).op \notin LiveOps
  BY <1>4, CarriesCalls, FineSettle DEF Outcomes
<1> HIDE DEF frames
<1>7. Moved(t, frames, t, << >>)
  BY <1>0, <1>3, <1>6, ContinueMoves DEF Carries, frames
<1>8. Hands(t, frames)
  BY <1>0, <1>6 DEF Hands, LiveOps, DriveOps
<1> QED
  BY <1>0, <1>2, <1>3, <1>5, <1>6, <1>7, <1>8, Takes

LEMMA ClaimWaiterTakes ==
    ASSUME IInv, JInv, NEW t \in Threads, ClaimWaiter(t), Waiting(Top(t).run)
    PROVE  JInv'
<1>0. stack \in Stacks /\ ~Idle(t) /\ Top(t).op = "claimWaiter"
  BY StacksTyped DEF ClaimWaiter, At
<1>1. PICK r \in begun : r = Top(t).run
  BY <1>0, TopCall
<1>2. Waiting(r)
  BY <1>1
<1>3. /\ waiters' = waiters \ {w \in waiters : w.parent = r} /\ armed' = armed
      /\ UNCHANGED <<runVars, endVars, stopVars, turnVars>>
  BY <1>1 DEF ClaimWaiter
<1>4. r \in Runs /\ ~Armed(r)
  BY <1>2, PausedRests
<1>5. ~Armed(r)' /\ ~Waiting(r)'
  BY <1>3, <1>4 DEF Armed, Waiting
<1>6. \/ stack' = Continue(t, << >> \o Settle(r, "cancelled"))
      \/ \E c \in Runs : stack' = Continue(t, << Frame("cancel", c, None) >> \o Settle(r, "cancelled"))
  <2>1. PICK w \in waiters :
           stack' = Continue(t, (IF Top(t).arg = "children"
                                 THEN << Frame("cancel", w.child, None) >>
                                 ELSE << >>) \o Settle(r, "cancelled"))
    BY <1>1, <1>2 DEF ClaimWaiter, Waiting
  <2>2. w.child \in Runs
    BY DEF IInv, TypeOK
  <2> QED
    BY <2>1, <2>2
<1>7. PICK frames : /\ stack' = Continue(t, frames) /\ Carries(r, frames)
                    /\ Head(frames).op \notin LiveOps
  <2>0. "cancelled" \in Outcomes
    BY DEF Outcomes
  <2>1. ASSUME NEW c \in Runs
        PROVE  LET s == << Frame("cancel", c, None) >> \o Settle(r, "cancelled")
               IN  Carries(r, s) /\ Head(s).op \notin LiveOps
    BY <1>4, <2>0, CarriesCalls, FineCancelSettle
  <2>2. << >> \o Settle(r, "cancelled") = Settle(r, "cancelled")
    BY DEF Settle
  <2>3. Carries(r, Settle(r, "cancelled")) /\ Head(Settle(r, "cancelled")).op \notin LiveOps
    BY <1>4, <2>0, CarriesCalls, FineSettle
  <2> QED
    BY <1>6, <2>1, <2>2, <2>3
<1>8. Moved(t, frames, t, << >>)
  BY <1>0, <1>7, ContinueMoves DEF Carries
<1>9. Hands(t, frames)
  BY <1>0, <1>7 DEF Hands, LiveOps, DriveOps
<1> QED
  BY <1>0, <1>2, <1>3, <1>5, <1>7, <1>8, <1>9, Takes

(***************************************************************************)
(* Cancelling and abandoning                                               *)
(***************************************************************************)
\* A thread that owns no run goes on with calls that take none further, and that
\* concern the owners of the runs in A only.
LEMMA Asides ==
    ASSUME IInv, JInv, NEW t \in Threads, NEW frames, Moved(t, frames, t, << >>),
           \/ Idle(t) /\ t \in {API, Stopper}
           \/ ~Idle(t) /\ Top(t).op \in {"release", "cancel", "abandon", "claimWait", "claimWaiter"},
           Fine(frames), Free(frames, LiveOps), NEW A, About(A, frames),
           \A q \in begun : q \in A => Owned(q)', EndsKept,
           \A q \in Runs : /\ control'[q].queued = control[q].queued
                           /\ control'[q].settled = control[q].settled
                           /\ control'[q].byStop = control[q].byStop
                           /\ control[q].cancelRequested => control'[q].cancelRequested
                           /\ control[q].stopped => control'[q].stopped,
           armed' \subseteq armed, waiters' \subseteq waiters,
           stop'.seen = stop.seen, stop'.at = stop.at,
           UNCHANGED <<table, begun, endVars, stopping, turnVars>>
    PROVE  JInv'
<1>0. /\ stack \in Stacks /\ begun \subseteq Runs /\ table \subseteq begun
      /\ frames \in Calling
  BY StacksTyped DEF IInv, TypeOK, About
<1>1. Going /\ Aside /\ Undecided
  BY <1>0 DEF Going, Aside, Undecided, endVars, turnVars
<1>2. \A q \in Runs : (Armed(q)' => Armed(q)) /\ (Waiting(q)' => Waiting(q))
  BY DEF Armed, Waiting
<1>3. OwnedOnce'
  <2>1. \A q \in Runs \ A : /\ control'[q].queued = control[q].queued
                            /\ control'[q].settled = control[q].settled
                            /\ Ended(control[q]) => Ended(control'[q])
                            /\ Armed(q)' => Armed(q)
                            /\ Waiting(q)' => Waiting(q)
    BY <1>2 DEF Ended
  <2>2. begun' \subseteq begun \cup A /\ \A q \in begun' : q \in A => Owned(q)'
    OBVIOUS
  <2>3. Idle(t) \/ Top(t).op \notin DriveOps
    BY DEF DriveOps
  <2> QED
    BY <2>1, <2>2, <2>3, AboutNone, OwnedBut
<1>4. PausedOnce' /\ \A w \in waiters' : w.child \notin Queued
  BY DEF JInv, PausedOnce, ReleasedAfter
<1>5. Idle(t) \/ Top(t).op \notin CalmOps \cup {"count"}
  BY DEF CalmOps, QueueOps
<1>6. /\ Tally(Rest(frames), Runs, LiveOps) = 0
      /\ frames # << >> => Head(frames).op \notin LiveOps
  BY <1>0, FreeLive
<1>7. ~Idle(t) => Hands(t, frames)
  BY <1>6 DEF Hands, LiveOps, DriveOps
<1>8. Idle(t) => Fresh(t, frames)
  BY ThreadsDiffer DEF Fresh
<1> QED
  BY <1>1, <1>3, <1>4, <1>5, <1>6, <1>7, <1>8, KeptBut, NoneMore

\* A single call that takes no run further and ends none.
LEMMA FreeCalls ==
    ASSUME NEW r \in Runs, NEW op \in {"abandon", "claimWait", "claimWaiter"},
           NEW a \in {None, "children"}
    PROVE  LET s == << Frame(op, r, a) >> IN
           /\ Fine(s) /\ s \in Calling /\ Free(s, LiveOps) /\ About({}, s)
           /\ op = "abandon" => Tally(s, {r}, EndOps) # 0
<1> DEFINE s == << Frame(op, r, a) >>
<1>1. Fine(s) /\ s \in Calling
  BY FineFrames
<1>2. Free(s, DriveOps) /\ Free(s, LiveOps)
  BY DEF Free, Frame, DriveOps, LiveOps
<1>3. op = "abandon" => Tally(s, {r}, EndOps) = 1
  BY FrameCounts DEF EndOps
<1> HIDE DEF s
<1>4. About({}, s)
  BY <1>1, <1>2, FreeAbout
<1> QED
  BY <1>1, <1>2, <1>3, <1>4 DEF s

LEMMA EndsGiven ==
    ASSUME stack \in Stacks, NEW t \in Threads, NEW u \in Threads, NEW frames, NEW more,
           Moved(t, frames, u, more), NEW r, Tally(frames, {r}, EndOps) # 0
    PROVE  Ending(r)' # 0
<1>1. /\ Number(stack, {r}, EndOps) \in Nat /\ Number(stack', {r}, EndOps) \in Nat
      /\ Tally(frames, {r}, EndOps) \in Nat /\ Tally(more, {r}, EndOps) \in Nat
      /\ Out(t, {r}, EndOps) \in {0, 1} /\ Out(t, {r}, EndOps) <= Number(stack, {r}, EndOps)
      /\ Number(stack', {r}, EndOps) = ((Number(stack, {r}, EndOps) - Out(t, {r}, EndOps))
                                           + Tally(frames, {r}, EndOps)) + Tally(more, {r}, EndOps)
  BY MovedCounts
<1>2. Number(stack', {r}, EndOps) # 0
  BY <1>1
<1> QED
  BY <1>2 DEF Ending, EndOps

\* What giving up on a run, or accepting its cancel, does to the controls.
LEMMA MarkedControls ==
    ASSUME IInv, NEW r \in Runs,
           MarkStopped(r) \/ control' = [control EXCEPT ![r].cancelRequested = TRUE]
                          \/ control' = [control EXCEPT ![r].done = TRUE] \/ UNCHANGED control
    PROVE  /\ \A q \in Runs : /\ control'[q].queued = control[q].queued
                              /\ control'[q].settled = control[q].settled
                              /\ control'[q].byStop = control[q].byStop
                              /\ control[q].cancelRequested => control'[q].cancelRequested
                              /\ control[q].stopped => control'[q].stopped
           /\ \A q \in Runs \ {r} : control'[q] = control[q]
<1>0. control \in [Runs -> Controls] /\ \A q \in Runs : control[q].settled \in BOOLEAN
  BY DEF IInv, TypeOK, Controls
<1>1. CASE MarkStopped(r)
  BY <1>0, <1>1 DEF MarkStopped, Controls
<1>2. CASE control' = [control EXCEPT ![r].cancelRequested = TRUE]
  BY <1>0, <1>2 DEF Controls
<1>3. CASE control' = [control EXCEPT ![r].done = TRUE]
  BY <1>0, <1>3 DEF Controls
<1>4. CASE UNCHANGED control
  BY <1>0, <1>4
<1> QED
  BY <1>1, <1>2, <1>3, <1>4

LEMMA ReleaseNobodyStep ==
    ASSUME IInv, JInv, NEW t \in Threads, ReleaseNobody(t)
    PROVE  JInv'
<1>0. ~Idle(t) /\ Top(t).op = "release" /\ stack' = Continue(t, << >>)
  BY DEF ReleaseNobody, At
<1>1. /\ UNCHANGED <<runVars, armed, endVars, stopVars, turnVars>> /\ waiters' \subseteq waiters
  BY DEF ReleaseNobody
<1>2. Moved(t, << >>, t, << >>)
  BY <1>0, ContinueMoves, NoneMore
<1>3. EndsKept
  <2>1. Top(t).op \notin EndOps
    BY <1>0 DEF EndOps
  <2> QED
    BY <1>1, <1>2, <2>1, EndsMoved DEF runVars
<1>4. Free(<< >>, LiveOps) /\ About({}, << >>) /\ Fine(<< >>)
  BY AboutNone, FineEmpty DEF Free
<1> QED
  BY <1>0, <1>1, <1>2, <1>3, <1>4, Asides DEF runVars, stopVars

\* A cancel is accepted, of a request or of a parent that was cancelled.
LEMMA Accepts ==
    ASSUME IInv, JInv, NEW t \in Threads, NEW r \in Runs,
           \/ Idle(t) /\ t \in {API, Stopper}
           \/ ~Idle(t) /\ Top(t).op = "cancel",
           Moved(t, << Frame("abandon", r, "children") >>, t, << >>),
           control' = [control EXCEPT ![r].cancelRequested = TRUE],
           UNCHANGED <<table, begun, pauseVars, endVars, stopVars, turnVars>>
    PROVE  JInv'
<1> DEFINE frames == << Frame("abandon", r, "children") >>
<1>0. stack \in Stacks /\ begun \subseteq Runs
  BY StacksTyped DEF IInv, TypeOK
<1>1. /\ Fine(frames) /\ frames \in Calling /\ Free(frames, LiveOps) /\ About({}, frames)
      /\ Tally(frames, {r}, EndOps) # 0
  BY FreeCalls
<1> HIDE DEF frames
<1>2. Moved(t, frames, t, << >>)
  BY DEF frames
<1>3. /\ \A q \in Runs : /\ control'[q].queued = control[q].queued
                         /\ control'[q].settled = control[q].settled
                         /\ control'[q].byStop = control[q].byStop
                         /\ control[q].cancelRequested => control'[q].cancelRequested
                         /\ control[q].stopped => control'[q].stopped
      /\ \A q \in Runs \ {r} : control'[q] = control[q]
  BY MarkedControls
<1>4. EndsKept
  <2>1. Ending(r)' # 0
    BY <1>0, <1>1, <1>2, EndsGiven
  <2>2. Idle(t) \/ Top(t).op \notin EndOps
    BY DEF EndOps
  <2>3. \A q \in begun : control[q].queued /\ ~control'[q].settled
                           /\ (control'[q].cancelRequested \/ control'[q].stopped) =>
           control[q].cancelRequested \/ control[q].stopped \/ Ending(q)' # 0
    <3> SUFFICES ASSUME NEW q \in begun, q # r
                 PROVE  control'[q].cancelRequested \/ control'[q].stopped =>
                           control[q].cancelRequested \/ control[q].stopped
      BY <2>1
    <3> QED
      BY <1>0, <1>3
  <2> QED
    BY <1>2, <2>2, <2>3, EndsMoved
<1> QED
  BY <1>1, <1>2, <1>3, <1>4, Asides DEF pauseVars, stopVars

LEMMA CancelStep ==
    ASSUME IInv, JInv, NEW r \in Cancels, Cancel(r)
    PROVE  JInv'
<1>0. r \in Runs /\ API \in Threads /\ Idle(API)
  BY RunsAssumption, QueuerIs DEF Cancel
<1> DEFINE frames == << Frame("abandon", r, "children") >>
<1>1. frames \in Calling
  BY <1>0, FreeCalls
<1>2. stack' = [stack EXCEPT ![API] = frames]
  BY DEF Cancel
<1> HIDE DEF frames
<1>3. Moved(API, frames, API, << >>)
  <2>1. Below(API) = << >> /\ frames \o << >> = frames /\ << >> \in Calling
    BY <1>0, <1>1 DEF Below, Rest, Idle, Calling
  <2> QED
    BY <1>1, <1>2, <2>1 DEF Moved
<1> QED
  BY <1>0, <1>3, Accepts DEF Cancel, frames

LEMMA CancelChildStep ==
    ASSUME IInv, JInv, NEW t \in Threads, CancelChild(t)
    PROVE  JInv'
<1>0. ~Idle(t) /\ Top(t).op = "cancel" /\ stack \in Stacks
  BY StacksTyped DEF CancelChild, At
<1>1. PICK r \in Runs : r = Top(t).run
  BY <1>0, TopCall
<1>2. UNCHANGED <<table, begun, pauseVars, endVars, stopVars, turnVars>>
  BY DEF CancelChild, runVars
<1>3. CASE Cancellable(r)
  <2> DEFINE frames == << Frame("abandon", r, "children") >>
  <2>1. frames \in Calling
    BY FreeCalls
  <2>2. control' = [control EXCEPT ![r].cancelRequested = TRUE] /\ stack' = Continue(t, frames)
    BY <1>1, <1>3 DEF CancelChild
  <2> HIDE DEF frames
  <2>3. Moved(t, frames, t, << >>)
    BY <1>0, <2>1, <2>2, ContinueMoves
  <2> QED
    BY <1>0, <1>2, <2>2, <2>3, Accepts DEF frames
<1>4. CASE ~Cancellable(r)
  <2>1. UNCHANGED control /\ stack' = Continue(t, << >>)
    BY <1>1, <1>4 DEF CancelChild
  <2>2. Moved(t, << >>, t, << >>)
    BY <1>0, <2>1, ContinueMoves, NoneMore
  <2>3. EndsKept
    <3>1. Top(t).op \notin EndOps
      BY <1>0 DEF EndOps
    <3> QED
      BY <2>1, <2>2, <3>1, EndsMoved
  <2>4. Free(<< >>, LiveOps) /\ About({}, << >>) /\ Fine(<< >>)
    BY AboutNone, FineEmpty DEF Free
  <2> QED
    BY <1>0, <1>2, <2>1, <2>2, <2>3, <2>4, Asides DEF pauseVars, stopVars
<1> QED
  BY <1>3, <1>4

LEMMA AbandonSteps ==
    ASSUME IInv, JInv, NEW t \in Threads, Abandon(t)
    PROVE  JInv'
<1>0. ~Idle(t) /\ Top(t).op = "abandon" /\ stack \in Stacks /\ begun \subseteq Runs
  BY StacksTyped DEF Abandon, At, IInv, TypeOK
<1>1. PICK r \in begun : r = Top(t).run
  BY <1>0, TopCall
<1>2. UNCHANGED <<table, begun, pauseVars, endVars, stopVars, turnVars>>
  BY DEF Abandon, runVars
<1>3. control' = [control EXCEPT ![r].done = TRUE] /\ r \in Runs
  BY <1>0, <1>1 DEF Abandon
<1>4. /\ \A q \in Runs : /\ control'[q].queued = control[q].queued
                         /\ control'[q].settled = control[q].settled
                         /\ control'[q].byStop = control[q].byStop
                         /\ control'[q].cancelRequested = control[q].cancelRequested
                         /\ control'[q].stopped = control[q].stopped
  BY <1>3 DEF IInv, TypeOK, Controls
<1>5. CASE control[r].queued
  <2> DEFINE frames == Settle(r, "cancelled")
  <2>1. "cancelled" \in Outcomes
    BY DEF Outcomes
  <2>2. /\ Fine(frames) /\ Free(frames, LiveOps) /\ frames \in Calling
        /\ Carries(r, frames) /\ Tally(frames, {r}, EndOps) # 0
    <3>1. Fine(frames) /\ Free(frames, LiveOps) /\ frames \in Calling
      BY <1>3, <2>1, FineSettle
    <3>2. Carries(r, frames)
      BY <1>3, <2>1, CarriesCalls
    <3>3. Tally(frames, {r}, EndOps) = 1
      BY <1>3, <2>1, SettleCounts DEF EndOps
    <3> QED
      BY <3>1, <3>2, <3>3
  <2>3. stack' = Continue(t, frames)
    BY <1>1, <1>5 DEF Abandon
  <2> HIDE DEF frames
  <2>4. Moved(t, frames, t, << >>)
    BY <1>0, <2>2, <2>3, ContinueMoves
  <2>5. EndsKept
    <3>1. \A q \in begun : control[q].queued /\ ~control'[q].settled
                             /\ (control'[q].cancelRequested \/ control'[q].stopped) =>
             control[q].cancelRequested \/ control[q].stopped \/ Ending(q)' # 0
      BY <1>0, <1>4
    <3>2. Tally(frames, {Top(t).run}, EndOps) # 0
      BY <1>1, <2>2
    <3> QED
      BY <2>4, <3>1, <3>2, EndsMoved
  <2>6. Owned(r)'
    <3>1. Ended(control[r])
      BY <1>0, <1>1, TopCall DEF Calls
    <3>2. Owned(r)
      BY DEF JInv, OwnedOnce
    <3>3. Lives(r)' = Lives(r) /\ Lives(r) = 0
      <4>1. Tally(frames, {r}, LiveOps) = 0 /\ Tally(<< >>, {r}, LiveOps) = 0
        BY <2>2, FreeTally, EmptyTally
      <4>2. Out(t, {r}, LiveOps) = 0
        BY <1>0 DEF Out, Counts, LiveOps, DriveOps
      <4>3. /\ Lives(r) \in Nat
            /\ Lives(r)' = ((Lives(r) - Out(t, {r}, LiveOps)) + Tally(frames, {r}, LiveOps))
                               + Tally(<< >>, {r}, LiveOps)
        BY <1>0, <2>4, LivesMoved
      <4>4. Lives(r) = 0
        BY <1>5, <3>2 DEF Owned
      <4> QED
        BY <4>1, <4>2, <4>3, <4>4
    <3>4. ~Armed(r)' /\ ~Waiting(r)'
      BY <1>2, <1>5, <3>2 DEF Owned, Armed, Waiting, pauseVars
    <3>5. Ended(control'[r]) /\ control'[r].queued
      BY <1>3, <1>4, <1>5, <3>1 DEF Ended
    <3> QED
      BY <3>3, <3>4, <3>5 DEF Owned
  <2>7. About({r}, frames) /\ \A q \in begun : q \in {r} => Owned(q)'
    BY <1>3, <2>2, <2>6, CarriesAbout
  <2>8. \A q \in Runs : /\ control'[q].queued = control[q].queued
                        /\ control'[q].settled = control[q].settled
                        /\ control'[q].byStop = control[q].byStop
                        /\ control[q].cancelRequested => control'[q].cancelRequested
                        /\ control[q].stopped => control'[q].stopped
    BY <1>4
  <2> QED
    BY <1>0, <1>2, <2>2, <2>4, <2>5, <2>7, <2>8, Asides DEF pauseVars, stopVars
<1>6. CASE ~control[r].queued
  <2> DEFINE frames == << Frame("claimWait", r, Top(t).arg) >>
  <2>1. Top(t).arg \in {None, "children"}
    <3>1. Top(t) \in FrameSet
      BY <1>0, TopCall
    <3> QED
      BY <1>0, <3>1 DEF FrameSet
  <2>2. Fine(frames) /\ frames \in Calling /\ Free(frames, LiveOps) /\ About({}, frames)
    BY <1>3, <2>1, FreeCalls
  <2>3. stack' = Continue(t, frames)
    BY <1>1, <1>6 DEF Abandon
  <2> HIDE DEF frames
  <2>4. Moved(t, frames, t, << >>)
    BY <1>0, <2>2, <2>3, ContinueMoves
  <2>5. EndsKept
    <3>1. \A q \in begun : control[q].queued /\ ~control'[q].settled
                             /\ (control'[q].cancelRequested \/ control'[q].stopped) =>
             control[q].cancelRequested \/ control[q].stopped \/ Ending(q)' # 0
      BY <1>0, <1>4
    <3> QED
      BY <1>1, <1>6, <2>4, <3>1, EndsMoved
  <2>6. \A q \in Runs : /\ control'[q].queued = control[q].queued
                        /\ control'[q].settled = control[q].settled
                        /\ control'[q].byStop = control[q].byStop
                        /\ control[q].cancelRequested => control'[q].cancelRequested
                        /\ control[q].stopped => control'[q].stopped
    BY <1>4
  <2> QED
    BY <1>0, <1>2, <2>2, <2>4, <2>5, <2>6, Asides DEF pauseVars, stopVars
<1> QED
  BY <1>5, <1>6

\* A run that has no pause to be taken from is left to its owner.
LEMMA ClaimNothing ==
    ASSUME IInv, JInv, NEW t \in Threads,
           \/ ClaimWait(t) /\ ~Armed(Top(t).run)
           \/ ClaimWaiter(t) /\ ~Waiting(Top(t).run)
    PROVE  JInv'
<1>0. ~Idle(t) /\ Top(t).op \in {"claimWait", "claimWaiter"} /\ stack \in Stacks
  BY StacksTyped DEF ClaimWait, ClaimWaiter, At
<1>1. PICK r \in Runs : r = Top(t).run
  BY <1>0, TopCall
<1>2. /\ UNCHANGED <<runVars, endVars, stopVars, turnVars>>
      /\ armed' \subseteq armed /\ waiters' \subseteq waiters
  BY DEF ClaimWait, ClaimWaiter
<1>3. Top(t).arg \in {None, "children"}
  <2>1. Top(t) \in FrameSet
    BY <1>0, TopCall
  <2> QED
    BY <1>0, <2>1 DEF FrameSet
<1>4. PICK frames : /\ stack' = Continue(t, frames) /\ Fine(frames) /\ frames \in Calling
                    /\ Free(frames, LiveOps) /\ About({}, frames)
  <2>1. CASE ClaimWait(t) /\ ~Armed(Top(t).run)
    <3>1. stack' = Continue(t, << Frame("claimWaiter", r, Top(t).arg) >>)
      BY <1>1, <2>1 DEF ClaimWait, Armed
    <3> QED
      BY <1>3, <3>1, FreeCalls
  <2>2. CASE ClaimWaiter(t) /\ ~Waiting(Top(t).run)
    <3>1. stack' = Continue(t, << >>)
      BY <1>1, <2>2 DEF ClaimWaiter, Waiting
    <3>2. Free(<< >>, LiveOps) /\ About({}, << >>) /\ Fine(<< >>) /\ << >> \in Calling
      BY AboutNone, FineEmpty DEF Free, Calling
    <3> QED
      BY <3>1, <3>2
  <2> QED
    BY <2>1, <2>2
<1>5. Moved(t, frames, t, << >>)
  BY <1>0, <1>4, ContinueMoves
<1>6. EndsKept
  <2>1. Top(t).op \notin EndOps
    BY <1>0 DEF EndOps
  <2> QED
    BY <1>2, <1>5, <2>1, EndsMoved DEF runVars
<1> QED
  BY <1>0, <1>2, <1>4, <1>5, <1>6, Asides DEF runVars, stopVars

LEMMA AbandonNextStep ==
    ASSUME IInv, JInv, AbandonNext
    PROVE  JInv'
<1>0. /\ stack \in Stacks /\ Stopper \in Threads /\ Idle(Stopper) /\ begun \subseteq Runs
  BY StacksTyped, QueuerIs DEF AbandonNext, IInv, TypeOK
<1>1. PICK r \in stop.left : /\ stop' = [stop EXCEPT !.left = @ \ {r}]
                             /\ GiveUp(Stopper, r, << >>)
  BY DEF AbandonNext
<1>2. r \in begun /\ r \in Runs
  BY <1>0 DEF IInv, StopInv
<1>3. UNCHANGED <<table, begun, pauseVars, endVars, stopping, turnVars>>
  BY DEF AbandonNext
<1>4. stop'.seen = stop.seen /\ stop'.at = stop.at
  BY <1>1 DEF IInv, TypeOK
<1>5. MarkStopped(r)
  BY <1>1 DEF GiveUp
<1>6. /\ \A q \in Runs : /\ control'[q].queued = control[q].queued
                         /\ control'[q].settled = control[q].settled
                         /\ control'[q].byStop = control[q].byStop
                         /\ control[q].cancelRequested => control'[q].cancelRequested
                         /\ control[q].stopped => control'[q].stopped
      /\ \A q \in Runs \ {r} : control'[q] = control[q]
  BY <1>2, <1>5, MarkedControls
<1> DEFINE f == Frame("abandon", r, None)
<1>7. PICK frames : /\ stack' = [stack EXCEPT ![Stopper] = frames] /\ frames \in Calling
                    /\ Fine(frames) /\ Free(frames, LiveOps) /\ About({}, frames)
                    /\ \/ control[r].stopped \/ control[r].settled
                       \/ Tally(frames, {r}, EndOps) # 0
  <2>1. /\ Fine(<< f >>) /\ << f >> \in Calling /\ Free(<< f >>, LiveOps) /\ About({}, << f >>)
        /\ Tally(<< f >>, {r}, EndOps) # 0
    BY <1>2, FreeCalls
  <2>2. Free(<< >>, LiveOps) /\ About({}, << >>) /\ Fine(<< >>) /\ << >> \in Calling
    BY AboutNone, FineEmpty DEF Free, Calling
  <2>3. << f >> \o << >> = << f >>
    OBVIOUS
  <2>4. stack' = [stack EXCEPT ![Stopper] = IF control[r].stopped \/ control[r].settled
                                            THEN << >> ELSE << f >> \o << >>]
    BY <1>1 DEF GiveUp
  <2> HIDE DEF f
  <2> QED
    BY <2>1, <2>2, <2>3, <2>4
<1>8. Moved(Stopper, frames, Stopper, << >>)
  <2>1. Below(Stopper) = << >> /\ frames \o << >> = frames /\ << >> \in Calling
    BY <1>0, <1>7 DEF Below, Rest, Idle, Calling
  <2> QED
    BY <1>7, <2>1 DEF Moved
<1>9. EndsKept
  <2>1. \/ control[r].stopped \/ control[r].settled \/ Ending(r)' # 0
    BY <1>0, <1>7, <1>8, EndsGiven
  <2>2. ASSUME NEW q \in begun, control[q].queued, ~control'[q].settled,
               control'[q].cancelRequested \/ control'[q].stopped
        PROVE  control[q].cancelRequested \/ control[q].stopped \/ Ending(q)' # 0
    <3>1. CASE q = r
      BY <1>2, <1>6, <2>1, <2>2, <3>1
    <3>2. CASE q # r
      BY <1>0, <1>6, <2>2, <3>2
    <3> QED
      BY <3>1, <3>2
  <2> QED
    BY <1>0, <1>8, <2>2, EndsMoved
<1> QED
  BY <1>0, <1>3, <1>4, <1>6, <1>7, <1>8, <1>9, Asides DEF pauseVars

(***************************************************************************)
(* Stop                                                                    *)
(***************************************************************************)
\* A step in which no thread does anything.
LEMMA Still ==
    ASSUME IInv, JInv, UNCHANGED <<begun, armed, waiters, stack, settling, recorded, turnVars>>,
           \A r \in Runs : /\ control'[r].queued = control[r].queued
                           /\ control'[r].settled = control[r].settled
                           /\ control'[r].byStop = control[r].byStop
                           /\ control'[r].cancelRequested = control[r].cancelRequested
                           /\ control'[r].stopped = control[r].stopped,
           stopping => stopping'
    PROVE  /\ OwnedOnce' /\ PausedOnce' /\ LiveOnTop' /\ Goroutines' /\ TurnsOnce'
           /\ TurnOwned' /\ TurnAlone' /\ ReleasedAfter'
<1>0. begun \subseteq Runs /\ stack \in Stacks
  BY StacksTyped DEF IInv, TypeOK
<1>1. \A r \in Runs : /\ Drives(r)' = Drives(r) /\ Lives(r)' = Lives(r) /\ Turned(r)' = Turned(r)
                      /\ Ending(r)' = Ending(r) /\ Drives(r) \in Nat
                      /\ (Armed(r)' <=> Armed(r)) /\ (Waiting(r)' <=> Waiting(r))
  BY <1>0, NumberNat DEF Drives, Lives, Turned, Ending, Armed, Waiting
<1>2. OwnedOnce'
  <2> SUFFICES ASSUME NEW r \in begun PROVE Owned(r)'
    BY DEF OwnedOnce
  <2>1. Owned(r) /\ r \in Runs
    BY <1>0 DEF JInv, OwnedOnce
  <2>2. Ended(control[r]) => Ended(control'[r])
    BY <2>1 DEF Ended
  <2> QED
    BY <1>1, <2>1, <2>2, OwnedSame
<1>3. PausedOnce' /\ LiveOnTop'
  BY DEF JInv, PausedOnce, LiveOnTop, Below
<1>4. Goroutines'
  <2> SUFFICES ASSUME NEW r \in Runs, NEW k \in {1, 2} PROVE Goroutine(r, k)'
    BY DEF Goroutines
  <2>1. Goroutine(r, k) /\ Later
    BY DEF JInv, Goroutines, Later
  <2> QED
    BY <2>1, GoroutineStays
<1>5. TurnsOnce'
  <2>1. \A j \in 1..(Top(Queuer).arg - 1) : At(Queuer, "enqueue") => Queue[j] \in Runs
    <3> SUFFICES ASSUME At(Queuer, "enqueue"), NEW j \in 1..(Top(Queuer).arg - 1)
                 PROVE  Queue[j] \in Runs
      OBVIOUS
    <3>1. Top(Queuer) \in FrameSet
      BY TopCall, QueuerIs DEF At
    <3>2. Top(Queuer).arg \in 1..Len(Queue)
      BY <3>1 DEF At, FrameSet
    <3> QED
      BY <3>2, RunsAssumption
  <2> QED
    BY <1>1, <2>1 DEF JInv, TurnsOnce, At, Idle, Top
<1>6. TurnOwned'
  BY <1>0, <1>1 DEF JInv, TurnOwned, At, Idle, Top
<1>7. TurnAlone'
  <2>1. Turning' = Turning
    BY <1>0 DEF Turning, turnVars
  <2> QED
    BY <2>1 DEF JInv, TurnAlone, At, Idle, Top
<1>8. ReleasedAfter'
  <2>1. Recorded' = Recorded /\ ByStop' = ByStop
    BY DEF Recorded, ByStop
  <2> QED
    BY <2>1 DEF JInv, ReleasedAfter, Follows, Sound
<1> QED
  BY <1>2, <1>3, <1>4, <1>5, <1>6, <1>7, <1>8

LEMMA StopSteps ==
    ASSUME IInv, JInv,
           StopCalled \/ ListPaused \/ Drain \/ ListUnsettled \/ StopDone \/ StopAgain
    PROVE  JInv'
<1>0. /\ UNCHANGED <<runVars, pauseVars, stack, endVars, turnVars>> /\ (stopping => stopping')
  <2>1. UNCHANGED <<runVars, pauseVars, stack, endVars, turnVars>>
    BY DEF StopCalled, ListPaused, Drain, ListUnsettled, StopDone, StopAgain
  <2>2. CASE StopCalled
    BY <2>1, <2>2 DEF StopCalled
  <2>3. CASE ListPaused \/ Drain \/ ListUnsettled \/ StopDone \/ StopAgain
    <3>1. UNCHANGED stopping
      BY <2>3 DEF ListPaused, Drain, ListUnsettled, StopDone, StopAgain
    <3> QED
      BY <2>1, <3>1
  <2> QED
    BY <2>2, <2>3
<1>1. /\ OwnedOnce' /\ PausedOnce' /\ LiveOnTop' /\ Goroutines' /\ TurnsOnce'
      /\ TurnOwned' /\ TurnAlone' /\ ReleasedAfter'
  BY <1>0, Still DEF runVars, pauseVars, endVars
<1>2. EvictedSettled'
  BY <1>0 DEF JInv, EvictedSettled, runVars
<1>3. SettlesCounted'
  <2>0. stop.seen \subseteq Runs /\ table \subseteq Runs
    BY DEF IInv, TypeOK
  <2>1. /\ settling' = Number(stack', Runs, {"claim", "record"})
        /\ \A r \in Runs : control'[r].settled => recorded'[r] # << >> \/ Records(r)' # 0
        /\ \A r \in Runs : recorded'[r] # << >> => control'[r].settled
    BY <1>0 DEF JInv, SettlesCounted, Records, runVars, endVars
  <2>2. \A r \in stop'.seen : control'[r].settled
    <3>1. CASE ListUnsettled
      BY <1>0, <3>1 DEF ListUnsettled, Unsettled, runVars
    <3>2. CASE ~ListUnsettled
      <4>1. stop'.seen = stop.seen
        BY <3>2 DEF StopCalled, ListPaused, Drain, StopDone, StopAgain, IInv, TypeOK
      <4> QED
        BY <1>0, <4>1 DEF JInv, SettlesCounted, runVars
    <3> QED
      BY <3>1, <3>2
  <2>3. stop'.at = "done" => \A r \in stop'.seen : recorded'[r] # << >>
    <3>1. CASE StopDone
      <4>1. stop'.seen = stop.seen /\ settling = 0
        BY <3>1 DEF StopDone, IInv, TypeOK
      <4>2. Number(stack, Runs, {"claim", "record"}) = 0
        BY <4>1 DEF JInv, SettlesCounted
      <4>3. ASSUME NEW r \in Runs PROVE Records(r) = 0
        <5>1. stack \in Stacks
          BY StacksTyped
        <5>2. \A t \in Threads : \A i \in 1..Len(stack[t]) :
                 stack[t][i].run \notin Runs \/ stack[t][i].op \notin {"claim", "record"}
          BY <4>2, <5>1, NumberNone
        <5>3. \A t \in Threads : \A i \in 1..Len(stack[t]) :
                 stack[t][i].run \notin {r} \/ stack[t][i].op \notin {"record"}
          BY <5>2
        <5> QED
          BY <5>1, <5>3, NumberNone DEF Records
      <4>4. \A r \in stop.seen : control[r].settled /\ r \in Runs
        BY <2>0 DEF JInv, SettlesCounted
      <4>5. \A r \in stop.seen : recorded[r] # << >>
        BY <4>3, <4>4 DEF JInv, SettlesCounted
      <4> QED
        BY <1>0, <4>1, <4>5 DEF endVars
    <3>2. CASE ~StopDone
      <4>1. stop'.at # "done"
        <5>1. CASE StopCalled
          BY <5>1 DEF StopCalled, IInv, TypeOK
        <5>2. CASE ListPaused
          BY <5>2 DEF ListPaused, IInv, TypeOK
        <5>3. CASE Drain
          BY <5>3 DEF Drain, IInv, TypeOK
        <5>4. CASE ListUnsettled
          BY <5>4 DEF ListUnsettled
        <5>5. CASE StopAgain
          BY <5>5 DEF StopAgain, IInv, TypeOK
        <5> QED
          BY <3>2, <5>1, <5>2, <5>3, <5>4, <5>5
      <4> QED
        BY <4>1
    <3> QED
      BY <3>1, <3>2
  <2> QED
    BY <2>1, <2>2, <2>3 DEF SettlesCounted
<1> QED
  BY <1>1, <1>2, <1>3 DEF JInv

(***************************************************************************)
(* Settling                                                                *)
(***************************************************************************)
\* What is left to show of a step of a settle.
LEMMA KeptSettling ==
    ASSUME IInv, JInv, NEW t \in Threads, ~Idle(t), Top(t).op \in SettleOps,
           NEW frames, Moved(t, frames, t, << >>), Free(frames, QueueOps), Free(frames, LiveOps),
           Hands(t, frames), Going, Aside, EndsKept, OwnedOnce', SettlesCounted',
           UNCHANGED pauseVars, Recorded \subseteq Recorded',
           Sound(Recorded, ByStop) \subseteq Sound(Recorded', ByStop'),
           frames \in Seq(Sound(Recorded, ByStop)),
           Follows(frames, Recorded' \cup Queued), Leads(Top(t), frames, Recorded' \cup Queued)
    PROVE  JInv'
<1>0. stack \in Stacks /\ frames \in Calling
  BY StacksTyped DEF Moved
<1>1. OffQueue
  <2>1. Free(<< >>, QueueOps) /\ Top(t).op \notin QueueOps
    BY DEF Free, QueueOps, SettleOps
  <2> QED
    BY <2>1, MovedOffQueue
<1>2. EvictedSettled' /\ TurnsOnce' /\ TurnOwned' /\ TurnAlone'
  BY <1>1, QueueKeeps
<1>3. Tally(Rest(frames), Runs, LiveOps) = 0
  BY <1>0, FreeLive
<1>4. LiveOnTop'
  BY <1>0, <1>3, MovedOnTop, NoneMore DEF JInv
<1>5. Goroutines'
  <2>1. Later
    BY DEF Going, Later
  <2> QED
    BY <1>0, <2>1, GoroutinesMoved DEF JInv
<1>6. PausedOnce'
  BY DEF JInv, PausedOnce, pauseVars
<1>7. ReleasedAfter'
  <2>1. \A v \in Threads : Follows(stack'[v], Recorded' \cup Queued)
    <3> DEFINE D == Recorded \cup Queued
               E == Recorded' \cup Queued
    <3>1. /\ D \subseteq E /\ (\A v \in Threads : Follows(stack[v], D)) /\ Follows(frames, E)
          /\ Follows(<< >>, E) /\ Leads(Top(t), frames, E)
      BY DEF JInv, ReleasedAfter, Follows
    <3> HIDE DEF D, E
    <3>2. \A v \in Threads : Follows(stack'[v], E)
      BY <3>1, MovedFollows
    <3> QED
      BY <3>2 DEF E
  <2>2. stack' \in [Threads -> Seq(Sound(Recorded', ByStop'))]
    <3> DEFINE S == Sound(Recorded, ByStop)
               T == Sound(Recorded', ByStop')
    <3>1. stack \in [Threads -> Seq(S)] /\ frames \in Seq(S) /\ << >> \in Seq(S) /\ S \subseteq T
      BY DEF JInv, ReleasedAfter
    <3> HIDE DEF S, T
    <3>2. stack' \in [Threads -> Seq(S)]
      BY <3>1, MovedInto
    <3>3. Seq(S) \subseteq Seq(T)
      BY <3>1, SeqMonotonic
    <3>4. stack' \in [Threads -> Seq(T)]
      BY <3>2, <3>3
    <3> QED
      BY <3>4 DEF T
  <2>3. \A w \in waiters' : w.child \notin Queued
    BY DEF JInv, ReleasedAfter, pauseVars
  <2> QED
    BY <2>1, <2>2, <2>3 DEF ReleasedAfter
<1> QED
  BY <1>2, <1>4, <1>5, <1>6, <1>7 DEF JInv

\* The calls of a settle: to claim the outcome, and to record it.
LEMMA SettlingCalls ==
    ASSUME NEW r \in Runs, NEW f, f.run = r, f.op \in {"claim", "record"}, f \in FrameSet
    PROVE  /\ << f >> \in Calling /\ << f >> \in Seq(Sound(Recorded, ByStop))
           /\ Free(<< f >>, QueueOps) /\ Free(<< f >>, LiveOps)
           /\ \A D : Follows(<< f >>, D)
           /\ \A g, D : g.run = r => Leads(g, << f >>, D)
           /\ About({r}, << f >>)
<1>1. << f >> \in Calling
  BY DEF Calling
<1>2. f \in Sound(Recorded, ByStop)
  BY DEF Sound
<1>3. << f >> \in Seq(Sound(Recorded, ByStop))
  BY <1>2
<1>4. Free(<< f >>, QueueOps) /\ Free(<< f >>, LiveOps)
  BY DEF Free, QueueOps, LiveOps, DriveOps
<1>5. \A D : Follows(<< f >>, D)
  BY DEF Follows
<1>6. ASSUME NEW g, NEW D, g.run = r PROVE Leads(g, << f >>, D)
  <2>1. Len(<< f >>) = 1 /\ << f >>[1] = f /\ << f >> # << >>
    OBVIOUS
  <2> QED
    BY <1>6, <2>1 DEF Leads, SettleOps
<1>7. About({r}, << f >>)
  <2> SUFFICES ASSUME NEW q \in Runs \ {r} PROVE Tally(<< f >>, {q}, DriveOps) = 0
    BY <1>1 DEF About
  <2> QED
    BY OneTally DEF Counts
<1> QED
  BY <1>1, <1>3, <1>4, <1>5, <1>6, <1>7

LEMMA CountKeeps ==
    ASSUME IInv, JInv, NEW t \in Threads, Count(t)
    PROVE  JInv'
<1>0. /\ stack \in Stacks /\ ~Idle(t) /\ Top(t).op = "count"
      /\ begun \subseteq Runs /\ table \subseteq begun
  BY StacksTyped DEF Count, At, IInv, TypeOK
<1>1. PICK r \in begun : r = Top(t).run
  BY <1>0, TopCall
<1>2. r \in Runs /\ Top(t) \in FrameSet
  BY <1>0, <1>1, TopCall
<1>3. PICK f : f = Frame("claim", r, Top(t).arg)
  OBVIOUS
<1>4. f.op = "claim" /\ f.run = r /\ f \in FrameSet
  BY <1>0, <1>2, <1>3 DEF Frame, FrameSet
<1>5. /\ stack' = Continue(t, << f >>) /\ settling' = settling + 1
      /\ UNCHANGED <<runVars, pauseVars, stamped, recorded, stopVars, turnVars>>
  BY <1>1, <1>3 DEF Count
<1>6. /\ << f >> \in Calling /\ << f >> \in Seq(Sound(Recorded, ByStop))
      /\ Free(<< f >>, QueueOps) /\ Free(<< f >>, LiveOps)
      /\ Follows(<< f >>, Recorded' \cup Queued) /\ Leads(Top(t), << f >>, Recorded' \cup Queued)
      /\ About({r}, << f >>)
  BY <1>1, <1>2, <1>4, SettlingCalls
<1>7. Moved(t, << f >>, t, << >>)
  BY <1>0, <1>5, <1>6, ContinueMoves
<1>8. Going /\ Aside
  BY <1>0, <1>5 DEF Going, Aside, runVars, stopVars, turnVars
<1>9. \A R, ops : Tally(<< f >>, R, ops) = IF r \in R /\ "claim" \in ops THEN 1 ELSE 0
  BY <1>4, OneTally DEF Counts
<1>10. EndsKept
  <2>1. Tally(<< f >>, {Top(t).run}, EndOps) # 0
    BY <1>1, <1>9 DEF EndOps
  <2> QED
    BY <1>5, <1>7, <2>1, EndsMoved DEF runVars
<1>11. Hands(t, << f >>)
  <2>1. Tally(<< f >>, {Top(t).run}, DriveOps) # 0
    BY <1>1, <1>9 DEF DriveOps
  <2>2. Head(<< f >>).op \notin LiveOps /\ Top(t).op \notin LiveOps
    BY <1>0, <1>4, OneLive DEF LiveOps, DriveOps
  <2> QED
    BY <1>0, <2>1, <2>2 DEF Hands
<1>12. OwnedOnce'
  <2>1. \A q \in Runs : (Armed(q)' <=> Armed(q)) /\ (Waiting(q)' <=> Waiting(q))
    BY <1>5 DEF Armed, Waiting, pauseVars
  <2>2. Drives(r)' = Drives(r) /\ Drives(r) \in Nat
    <3>1. /\ Drives(r) \in Nat
          /\ Drives(r)' = ((Drives(r) - Out(t, {r}, DriveOps)) + Tally(<< f >>, {r}, DriveOps))
                             + Tally(<< >>, {r}, DriveOps)
      BY <1>0, <1>7, DrivesMoved
    <3>2. /\ Out(t, {r}, DriveOps) = 1 /\ Tally(<< f >>, {r}, DriveOps) = 1
          /\ Tally(<< >>, {r}, DriveOps) = 0
      BY <1>0, <1>1, <1>9, EmptyTally DEF Out, Counts, DriveOps
    <3> QED
      BY <3>1, <3>2
  <2>3. Lives(r)' = Lives(r)
    <3>1. /\ Lives(r) \in Nat
          /\ Lives(r)' = ((Lives(r) - Out(t, {r}, LiveOps)) + Tally(<< f >>, {r}, LiveOps))
                             + Tally(<< >>, {r}, LiveOps)
      BY <1>0, <1>7, LivesMoved
    <3>2. /\ Out(t, {r}, LiveOps) = 0 /\ Tally(<< f >>, {r}, LiveOps) = 0
          /\ Tally(<< >>, {r}, LiveOps) = 0
      BY <1>0, <1>1, <1>9, EmptyTally DEF Out, Counts, LiveOps
    <3> QED
      BY <3>1, <3>2
  <2>4. Owned(r)'
    <3>1. Owned(r) /\ control' = control
      BY <1>5 DEF JInv, OwnedOnce, runVars
    <3> QED
      BY <1>2, <2>1, <2>2, <2>3, <3>1, OwnedSame
  <2>5. \A q \in Runs \ {r} : /\ control'[q].queued = control[q].queued
                              /\ control'[q].settled = control[q].settled
                              /\ Ended(control[q]) => Ended(control'[q])
                              /\ Armed(q)' => Armed(q)
                              /\ Waiting(q)' => Waiting(q)
    BY <1>5, <2>1 DEF runVars
  <2>6. begun' \subseteq begun \cup {r} /\ \A q \in begun' : q \in {r} => Owned(q)'
    BY <1>5, <2>4 DEF runVars
  <2> QED
    BY <1>1, <1>6, <1>7, <2>5, <2>6, AboutNone, OwnedBut
<1>13. SettlesCounted'
  <2>1. Number(stack', Runs, {"claim", "record"}) = Number(stack, Runs, {"claim", "record"}) + 1
    <3> DEFINE ops == {"claim", "record"}
    <3>1. /\ Number(stack, Runs, ops) \in Nat
          /\ Number(stack', Runs, ops) = ((Number(stack, Runs, ops) - Out(t, Runs, ops))
                                            + Tally(<< f >>, Runs, ops)) + Tally(<< >>, Runs, ops)
      BY <1>0, <1>7, MovedCounts
    <3>2. Out(t, Runs, ops) = 0 /\ Tally(<< f >>, Runs, ops) = 1 /\ Tally(<< >>, Runs, ops) = 0
      BY <1>0, <1>2, <1>9, EmptyTally DEF Out, Counts
    <3> QED
      BY <3>1, <3>2
  <2>2. \A q : Records(q)' = Records(q)
    <3> SUFFICES ASSUME NEW q PROVE Records(q)' = Records(q)
      OBVIOUS
    <3> DEFINE ops == {"record"}
    <3>1. /\ Number(stack, {q}, ops) \in Nat
          /\ Number(stack', {q}, ops) = ((Number(stack, {q}, ops) - Out(t, {q}, ops))
                                            + Tally(<< f >>, {q}, ops)) + Tally(<< >>, {q}, ops)
      BY <1>0, <1>7, MovedCounts
    <3>2. Out(t, {q}, ops) = 0 /\ Tally(<< f >>, {q}, ops) = 0 /\ Tally(<< >>, {q}, ops) = 0
      BY <1>0, <1>9, EmptyTally DEF Out, Counts
    <3> QED
      BY <3>1, <3>2 DEF Records
  <2> QED
    BY <1>5, <2>1, <2>2 DEF JInv, SettlesCounted, runVars, stopVars
<1>14. Recorded' = Recorded /\ ByStop' = ByStop
  BY <1>5 DEF Recorded, ByStop, runVars
<1>15. Top(t).op \in SettleOps
  BY <1>0 DEF SettleOps
<1> QED
  BY <1>0, <1>5, <1>6, <1>7, <1>8, <1>10, <1>11, <1>12, <1>13, <1>14, <1>15, KeptSettling

\* A thread that claims the outcome of a settled run: the run was settled while
\* it was queued, as any other run had no owner left.
LEMMA ClaimedQueued ==
    ASSUME IInv, JInv, NEW t \in Threads, At(t, "claim"), control[Top(t).run].settled
    PROVE  control[Top(t).run].queued /\ Top(t).run \in Queued
<1>0. stack \in Stacks /\ ~Idle(t) /\ Top(t).op = "claim"
  BY StacksTyped DEF At
<1>1. PICK r \in begun : r = Top(t).run
  BY <1>0, TopCall
<1>2. r \in Runs
  BY DEF IInv, TypeOK
<1>3. Drives(r) >= 1 /\ Drives(r) \in Nat
  BY <1>0, <1>1, TopOut, NumberNat DEF Drives, DriveOps
<1>4. control[r].queued
  <2> SUFFICES ASSUME ~control[r].queued PROVE FALSE
    OBVIOUS
  <2>1. Drives(r) + One(Armed(r)) + One(Waiting(r)) <= One(~control[r].settled)
    BY DEF JInv, OwnedOnce, Owned
  <2>2. One(~control[r].settled) = 0 /\ One(Armed(r)) \in {0, 1} /\ One(Waiting(r)) \in {0, 1}
    BY <1>1 DEF One
  <2> QED
    BY <1>3, <2>1, <2>2
<1> QED
  BY <1>1, <1>2, <1>4 DEF JInv, TurnsOnce

\* The calls that claim or record an outcome, after one of them is made.
LEMMA ClaimCounts ==
    ASSUME stack \in Stacks, NEW t \in Threads, ~Idle(t), NEW r \in Runs, Top(t).run = r,
           Top(t).op \in {"claim", "record"},
           NEW frames, Moved(t, frames, t, << >>), NEW n \in {0, 1},
           \A R, ops : Tally(frames, R, ops) = IF r \in R /\ "record" \in ops THEN n ELSE 0
    PROVE  /\ Number(stack', Runs, {"claim", "record"})
                = (Number(stack, Runs, {"claim", "record"}) - 1) + n
           /\ \A q \in Runs \ {r} : Records(q)' = Records(q)
           /\ n = 1 => Records(r)' # 0
           /\ \A q \in Runs : Lives(q)' = Lives(q)
           /\ Top(t).op = "claim" => Drives(r)' = Drives(r) - 1 /\ Records(r)' = Records(r) + n
           /\ Drives(r) \in Nat /\ Records(r) \in Nat
<1> USE EmptyTally
<1>1. /\ Number(stack', Runs, {"claim", "record"})
           = (Number(stack, Runs, {"claim", "record"}) - 1) + n
  <2> DEFINE ops == {"claim", "record"}
  <2>1. /\ Number(stack, Runs, ops) \in Nat
        /\ Number(stack', Runs, ops) = ((Number(stack, Runs, ops) - Out(t, Runs, ops))
                                          + Tally(frames, Runs, ops)) + Tally(<< >>, Runs, ops)
    BY MovedCounts
  <2>2. Out(t, Runs, ops) = 1 /\ Tally(frames, Runs, ops) = n /\ Tally(<< >>, Runs, ops) = 0
    BY DEF Out, Counts
  <2> HIDE DEF ops
  <2>3. Number(stack', Runs, ops) = (Number(stack, Runs, ops) - 1) + n
    BY <2>1, <2>2
  <2> QED
    BY <2>3 DEF ops
<1>2. ASSUME NEW q \in Runs
      PROVE  /\ Records(q) \in Nat /\ Records(q)' \in Nat
             /\ Records(q)' = (Records(q) - Out(t, {q}, {"record"})) + One(q = r) * n
             /\ Out(t, {q}, {"record"}) <= Records(q) /\ Out(t, {q}, {"record"}) \in {0, 1}
  <2> DEFINE ops == {"record"}
  <2>1. /\ Number(stack, {q}, ops) \in Nat /\ Number(stack', {q}, ops) \in Nat
        /\ Number(stack', {q}, ops) = ((Number(stack, {q}, ops) - Out(t, {q}, ops))
                                          + Tally(frames, {q}, ops)) + Tally(<< >>, {q}, ops)
        /\ Out(t, {q}, ops) <= Number(stack, {q}, ops) /\ Out(t, {q}, ops) \in {0, 1}
    BY MovedCounts
  <2>2. Tally(frames, {q}, ops) = One(q = r) * n /\ Tally(<< >>, {q}, ops) = 0
    BY DEF One
  <2>3. One(q = r) * n \in Nat
    BY DEF One
  <2> HIDE DEF ops
  <2>4. Number(stack', {q}, ops) = (Number(stack, {q}, ops) - Out(t, {q}, ops)) + One(q = r) * n
    BY <2>1, <2>2, <2>3
  <2> QED
    BY <2>1, <2>4 DEF Records, ops
<1>3. ASSUME NEW q \in Runs \ {r} PROVE Records(q)' = Records(q)
  <2>1. Out(t, {q}, {"record"}) = 0 /\ One(q = r) * n = 0
    BY DEF Out, Counts, One
  <2> QED
    BY <1>2, <2>1
<1>4. n = 1 => Records(r)' # 0
  <2>1. One(r = r) * n = n
    BY DEF One
  <2>2. /\ Records(r)' = (Records(r) - Out(t, {r}, {"record"})) + n /\ Records(r) \in Nat
        /\ Out(t, {r}, {"record"}) <= Records(r) /\ Out(t, {r}, {"record"}) \in {0, 1}
    BY <1>2, <2>1
  <2> QED
    BY <2>2
<1>5. ASSUME NEW q \in Runs PROVE Lives(q)' = Lives(q)
  <2>1. /\ Lives(q) \in Nat
        /\ Lives(q)' = ((Lives(q) - Out(t, {q}, LiveOps)) + Tally(frames, {q}, LiveOps))
                           + Tally(<< >>, {q}, LiveOps)
    BY LivesMoved
  <2>2. Out(t, {q}, LiveOps) = 0 /\ Tally(frames, {q}, LiveOps) = 0 /\ Tally(<< >>, {q}, LiveOps) = 0
    BY DEF Out, Counts, LiveOps, DriveOps
  <2> QED
    BY <2>1, <2>2
<1>6. ASSUME Top(t).op = "claim" PROVE Drives(r)' = Drives(r) - 1 /\ Records(r)' = Records(r) + n
  <2>1. /\ Drives(r) \in Nat
        /\ Drives(r)' = ((Drives(r) - Out(t, {r}, DriveOps)) + Tally(frames, {r}, DriveOps))
                           + Tally(<< >>, {r}, DriveOps)
    BY DrivesMoved
  <2>2. Out(t, {r}, DriveOps) = 1 /\ Tally(frames, {r}, DriveOps) = 0 /\ Tally(<< >>, {r}, DriveOps) = 0
    BY <1>6 DEF Out, Counts, DriveOps
  <2>3. Out(t, {r}, {"record"}) = 0 /\ One(r = r) * n = n
    BY <1>6 DEF Out, Counts, One
  <2>4. Drives(r)' = Drives(r) - 1
    BY <2>1, <2>2
  <2> QED
    BY <1>2, <2>3, <2>4
<1>7. Drives(r) \in Nat /\ Records(r) \in Nat
  BY NumberNat DEF Drives, Records
<1> QED
  BY <1>1, <1>3, <1>4, <1>5, <1>6, <1>7

\* The run was claimed before, or is gone.
LEMMA ClaimsAgain ==
    ASSUME IInv, JInv, NEW t \in Threads, Claim(t), control[Top(t).run].settled
    PROVE  JInv'
<1>0. /\ stack \in Stacks /\ ~Idle(t) /\ Top(t).op = "claim" /\ At(t, "claim")
      /\ begun \subseteq Runs /\ table \subseteq begun
  BY StacksTyped DEF Claim, At, IInv, TypeOK
<1>1. PICK r \in begun : r = Top(t).run
  BY <1>0, TopCall
<1>2. r \in Runs /\ Top(t) \in FrameSet /\ control[r].settled /\ control[r].queued /\ r \in Queued
  BY <1>0, <1>1, TopCall, ClaimedQueued
<1>3. /\ UNCHANGED <<table, begun, status, pauseVars, stamped, recorded, stopVars, turnVars>>
      /\ UNCHANGED control
  BY <1>1, <1>2 DEF Claim
<1> DEFINE P(frames, n) ==
             /\ stack' = Continue(t, frames) /\ settling' = (settling - 1) + n
             /\ frames \in Calling /\ frames \in Seq(Sound(Recorded, ByStop))
             /\ Free(frames, QueueOps) /\ Free(frames, LiveOps)
             /\ \A D : Follows(frames, D)
             /\ About({r}, frames)
             /\ \A R, ops : Tally(frames, R, ops) = IF r \in R /\ "record" \in ops THEN n ELSE 0
<1>4. \E frames : \E n \in {0, 1} : P(frames, n)
  <2>0. settling \in Int
    BY DEF IInv, TypeOK
  <2>1. CASE r \in table
    <3>1. stack' = Continue(t, << >>) /\ settling' = settling - 1
      BY <1>1, <1>2, <2>1 DEF Claim
    <3>2. /\ << >> \in Calling /\ << >> \in Seq(Sound(Recorded, ByStop))
          /\ Free(<< >>, QueueOps) /\ Free(<< >>, LiveOps) /\ (\A D : Follows(<< >>, D))
      BY DEF Calling, Free, Follows
    <3>3. settling' = (settling - 1) + 0
      BY <2>0, <3>1
    <3>4. \A R, ops : Tally(<< >>, R, ops) = 0
      BY EmptyTally
    <3>5. About({r}, << >>)
      BY AboutNone
    <3>6. P(<< >>, 0)
      BY <3>1, <3>2, <3>3, <3>4, <3>5
    <3> HIDE DEF P
    <3> QED
      BY <3>6
  <2>2. CASE r \notin table
    <3> DEFINE f == Frame("record", r, Outcome(Top(t).arg))
    <3>1. stack' = Continue(t, << f >>) /\ settling' = settling
      BY <1>1, <2>2 DEF Claim
    <3>2. f.op = "record" /\ f.run = r
      BY DEF Frame
    <3>3. f \in FrameSet
      BY <1>0, <1>2 DEF Frame, FrameSet, Outcome, Outcomes
    <3> HIDE DEF f
    <3>4. /\ << f >> \in Calling /\ << f >> \in Seq(Sound(Recorded, ByStop))
          /\ Free(<< f >>, QueueOps) /\ Free(<< f >>, LiveOps) /\ (\A D : Follows(<< f >>, D))
          /\ About({r}, << f >>)
      BY <1>2, <3>2, <3>3, SettlingCalls
    <3>5. \A R, ops : Tally(<< f >>, R, ops) = IF r \in R /\ "record" \in ops THEN 1 ELSE 0
      BY <3>2, OneTally DEF Counts
    <3>6. settling' = (settling - 1) + 1
      BY <2>0, <3>1
    <3>7. P(<< f >>, 1)
      BY <3>1, <3>4, <3>5, <3>6
    <3> HIDE DEF P
    <3> QED
      BY <3>7
  <2> QED
    BY <2>1, <2>2
<1>14. PICK frames : \E n \in {0, 1} : P(frames, n)
  BY <1>4
<1>15. PICK n \in {0, 1} : P(frames, n)
  BY <1>14
<1>5. Moved(t, frames, t, << >>)
  BY <1>0, <1>15, ContinueMoves
<1>6. Going /\ Aside
  BY <1>0, <1>3 DEF Going, Aside, stopVars, turnVars
<1>7. EndsKept
  <2>1. control'[Top(t).run].settled
    BY <1>1, <1>2, <1>3
  <2> QED
    BY <1>3, <1>5, <2>1, EndsMoved
<1>8. Hands(t, frames)
  <2>1. frames # << >> => Head(frames).op \notin LiveOps
    BY <1>15, FreeLive
  <2> QED
    BY <1>0, <1>1, <1>2, <1>3, <2>1 DEF Hands, LiveOps, DriveOps
<1>9. /\ Number(stack', Runs, {"claim", "record"})
           = (Number(stack, Runs, {"claim", "record"}) - 1) + n
      /\ \A q \in Runs \ {r} : Records(q)' = Records(q)
      /\ Records(r)' = Records(r) + n /\ Records(r) \in Nat
      /\ \A q \in Runs : Lives(q)' = Lives(q)
  BY <1>0, <1>1, <1>2, <1>15, <1>5, ClaimCounts
<1>10. OwnedOnce'
  <2>1. \A q \in Runs : (Armed(q)' <=> Armed(q)) /\ (Waiting(q)' <=> Waiting(q))
    BY <1>3 DEF Armed, Waiting, pauseVars
  <2>2. Owned(r)'
    <3>1. Owned(r)
      BY DEF JInv, OwnedOnce
    <3>2. ~Armed(r) /\ ~Waiting(r) /\ Lives(r) = 0
      BY <1>2, <3>1 DEF Owned
    <3>3. control'[r].queued /\ control'[r].settled
      BY <1>2, <1>3
    <3>4. Lives(r)' = 0 /\ ~Armed(r)' /\ ~Waiting(r)'
      BY <1>2, <1>9, <2>1, <3>2
    <3> QED
      BY <3>3, <3>4 DEF Owned, Ended
  <2>3. \A q \in Runs \ {r} : /\ control'[q].queued = control[q].queued
                              /\ control'[q].settled = control[q].settled
                              /\ Ended(control[q]) => Ended(control'[q])
                              /\ Armed(q)' => Armed(q)
                              /\ Waiting(q)' => Waiting(q)
    BY <1>3, <2>1
  <2>4. begun' \subseteq begun \cup {r} /\ \A q \in begun' : q \in {r} => Owned(q)'
    BY <1>3, <2>2
  <2> QED
    BY <1>1, <1>15, <1>5, <2>3, <2>4, AboutNone, OwnedBut
<1>11. SettlesCounted'
  <2>1. settling' = Number(stack', Runs, {"claim", "record"})
    BY <1>15, <1>9 DEF JInv, SettlesCounted
  <2>2. \A q \in Runs : Records(q) # 0 => Records(q)' # 0
    BY <1>9
  <2>3. \A q \in Runs : control'[q].settled => recorded'[q] # << >> \/ Records(q)' # 0
    BY <1>3, <2>2 DEF JInv, SettlesCounted
  <2> QED
    BY <1>3, <2>1, <2>3 DEF JInv, SettlesCounted, stopVars
<1>12. Recorded' = Recorded /\ ByStop' = ByStop
  BY <1>3 DEF Recorded, ByStop
<1>13. Top(t).op \in SettleOps /\ Leads(Top(t), frames, Recorded' \cup Queued)
  BY <1>0, <1>1, <1>2 DEF SettleOps, Leads
<1> QED
  BY <1>0, <1>3, <1>15, <1>5, <1>6, <1>7, <1>8, <1>10, <1>11, <1>12, <1>13, KeptSettling

\* The claim that decides a run's outcome.
LEMMA ClaimsFirst ==
    ASSUME IInv, JInv, NEW t \in Threads, Claim(t), ~control[Top(t).run].settled
    PROVE  JInv'
<1>0. /\ stack \in Stacks /\ ~Idle(t) /\ Top(t).op = "claim"
      /\ begun \subseteq Runs /\ table \subseteq begun /\ control \in [Runs -> Controls]
  BY StacksTyped DEF Claim, At, IInv, TypeOK
<1>1. PICK r \in begun : r = Top(t).run
  BY <1>0, TopCall
<1>2. r \in Runs /\ r \in table /\ ~control[r].settled /\ control[r] \in Controls
  BY <1>0, <1>1 DEF JInv, EvictedSettled
<1>3. PICK d : d = Decided(control[r], Top(t).arg)
  OBVIOUS
<1>4. d.final \in Outcomes
  <2>1. /\ Top(t) \in FrameSet /\ Top(t) \in Calls(begun, control, table)
    BY <1>0, TopCall
  <2>2. /\ Top(t).arg \in Outcomes \cup {EngineStopped}
        /\ Top(t).arg = "cancelled" => control[r].cancelRequested \/ control[r].stopped
    BY <1>0, <1>1, <1>2, <2>1 DEF Calls, FrameSet, Ended
  <2> QED
    BY <1>2, <1>3, <2>2, DecidedOutcome
<1>5. PICK f : f = Frame("record", r, d.final)
  OBVIOUS
<1>6. /\ control' = [control EXCEPT ![r].settled = TRUE, ![r].final = d.final,
                                    ![r].byStop = d.byStop]
      /\ stack' = Continue(t, << f >>)
      /\ UNCHANGED <<settling, table, begun, pauseVars, recorded, stopVars, turnVars>>
  BY <1>1, <1>2, <1>3, <1>5 DEF Claim
<1>7. /\ control'[r].settled /\ control'[r].queued = control[r].queued
      /\ control'[r].cancelRequested = control[r].cancelRequested
      /\ control'[r].stopped = control[r].stopped
      /\ \A q \in Runs \ {r} : control'[q] = control[q]
  BY <1>0, <1>2, <1>6 DEF Controls
<1>8. f.op = "record" /\ f.run = r /\ f \in FrameSet
  BY <1>2, <1>4, <1>5 DEF Frame, FrameSet
<1>9. /\ << f >> \in Calling /\ << f >> \in Seq(Sound(Recorded, ByStop))
      /\ Free(<< f >>, QueueOps) /\ Free(<< f >>, LiveOps)
      /\ Follows(<< f >>, Recorded' \cup Queued) /\ Leads(Top(t), << f >>, Recorded' \cup Queued)
      /\ About({r}, << f >>)
  BY <1>1, <1>2, <1>8, SettlingCalls
<1>10. Moved(t, << f >>, t, << >>)
  BY <1>0, <1>6, <1>9, ContinueMoves
<1>11. \A R, ops : Tally(<< f >>, R, ops) = IF r \in R /\ "record" \in ops THEN 1 ELSE 0
  BY <1>8, OneTally DEF Counts
<1>12. Going /\ Aside
  <2>1. \A q \in Runs : /\ control'[q].queued = control[q].queued
                        /\ control[q].settled => control'[q].settled
                        /\ control[q].cancelRequested => control'[q].cancelRequested
                        /\ control[q].stopped => control'[q].stopped
    BY <1>7
  <2> QED
    BY <1>0, <1>6, <2>1 DEF Going, Aside, stopVars, turnVars
<1>13. EndsKept
  <2>1. control'[Top(t).run].settled
    BY <1>1, <1>7
  <2>2. \A q \in begun : control[q].queued /\ ~control'[q].settled
                           /\ (control'[q].cancelRequested \/ control'[q].stopped) =>
           control[q].cancelRequested \/ control[q].stopped \/ Ending(q)' # 0
    BY <1>0, <1>7
  <2> QED
    BY <1>10, <2>1, <2>2, EndsMoved
<1>14. Hands(t, << f >>)
  <2>1. Head(<< f >>).op \notin LiveOps
    BY <1>8, OneLive DEF LiveOps, DriveOps
  <2> QED
    BY <1>0, <1>1, <1>7, <2>1 DEF Hands, LiveOps, DriveOps
<1>15. /\ Number(stack', Runs, {"claim", "record"})
            = (Number(stack, Runs, {"claim", "record"}) - 1) + 1
       /\ \A q \in Runs \ {r} : Records(q)' = Records(q)
       /\ Records(r)' # 0 /\ Drives(r)' = Drives(r) - 1 /\ Drives(r) \in Nat
       /\ \A q \in Runs : Lives(q)' = Lives(q)
  BY <1>0, <1>1, <1>2, <1>10, <1>11, ClaimCounts
<1>16. OwnedOnce'
  <2>1. \A q \in Runs : (Armed(q)' <=> Armed(q)) /\ (Waiting(q)' <=> Waiting(q))
    BY <1>6 DEF Armed, Waiting, pauseVars
  <2>2. Owned(r)'
    <3>1. Owned(r)
      BY DEF JInv, OwnedOnce
    <3>2. CASE control[r].queued
      BY <1>2, <1>7, <1>15, <2>1, <3>1, <3>2 DEF Owned, Ended
    <3>3. CASE ~control[r].queued
      <4>1. Drives(r) >= 1
        BY <1>0, <1>1, TopOut DEF Drives, DriveOps
      <4>2. Drives(r) + One(Armed(r)) + One(Waiting(r)) <= 1
        BY <1>2, <3>1, <3>3 DEF Owned, One
      <4>3. Drives(r) = 1 /\ ~Armed(r) /\ ~Waiting(r)
        BY <1>15, <4>1, <4>2 DEF One
      <4>4. Drives(r)' = 0 /\ ~Armed(r)' /\ ~Waiting(r)'
        BY <1>2, <1>15, <2>1, <4>3
      <4> QED
        BY <1>7, <3>3, <4>4 DEF Owned, One
    <3> QED
      BY <3>2, <3>3
  <2>3. \A q \in Runs \ {r} : /\ control'[q].queued = control[q].queued
                              /\ control'[q].settled = control[q].settled
                              /\ Ended(control[q]) => Ended(control'[q])
                              /\ Armed(q)' => Armed(q)
                              /\ Waiting(q)' => Waiting(q)
    BY <1>7, <2>1
  <2>4. begun' \subseteq begun \cup {r} /\ \A q \in begun' : q \in {r} => Owned(q)'
    BY <1>6, <2>2
  <2> QED
    BY <1>1, <1>9, <1>10, <2>3, <2>4, AboutNone, OwnedBut
<1>17. SettlesCounted'
  <2>1. settling' = Number(stack', Runs, {"claim", "record"})
    <3>1. settling \in Int /\ settling = Number(stack, Runs, {"claim", "record"})
      BY DEF JInv, SettlesCounted, IInv, TypeOK
    <3> QED
      BY <1>6, <1>15, <3>1
  <2>2. \A q \in Runs : control'[q].settled => recorded'[q] # << >> \/ Records(q)' # 0
    BY <1>6, <1>7, <1>15 DEF JInv, SettlesCounted
  <2>3. \A q \in Runs : control[q].settled => control'[q].settled
    BY <1>7
  <2>4. stop.seen \subseteq Runs
    BY DEF IInv, TypeOK
  <2> QED
    BY <1>6, <2>1, <2>2, <2>3, <2>4 DEF JInv, SettlesCounted, stopVars
<1>18. Recorded' = Recorded /\ Sound(Recorded, ByStop) \subseteq Sound(Recorded', ByStop')
  <2>1. Recorded' = Recorded
    BY <1>6 DEF Recorded
  <2>2. r \notin Recorded
    BY <1>2 DEF Recorded, JInv, SettlesCounted
  <2>3. \A q \in Runs \ {r} : q \in ByStop' <=> q \in ByStop
    BY <1>7 DEF ByStop
  <2>4. Recorded \ ByStop \subseteq Recorded \ ByStop'
    BY <2>2, <2>3 DEF Recorded
  <2> QED
    BY <2>1, <2>4 DEF Sound
<1>19. Top(t).op \in SettleOps
  BY <1>0 DEF SettleOps
<1> QED
  BY <1>0, <1>6, <1>9, <1>10, <1>12, <1>13, <1>14, <1>16, <1>17, <1>18, <1>19, KeptSettling

LEMMA RecordKeeps ==
    ASSUME IInv, JInv, NEW t \in Threads, Record(t)
    PROVE  JInv'
<1>0. /\ stack \in Stacks /\ ~Idle(t) /\ Top(t).op = "record"
      /\ begun \subseteq Runs /\ table \subseteq begun
  BY StacksTyped DEF Record, At, IInv, TypeOK
<1>1. PICK r \in begun : r = Top(t).run
  BY <1>0, TopCall
<1>2. r \in Runs /\ control[r].settled
  <2>1. Top(t) \in Calls(begun, control, table)
    BY <1>0, TopCall
  <2> QED
    BY <1>0, <1>1, <2>1 DEF Calls, JInv, EvictedSettled
<1>3. /\ recorded' = [recorded EXCEPT ![r] = Append(@, Top(t).arg)]
      /\ settling' = settling - 1 /\ stack' = Continue(t, << >>)
      /\ UNCHANGED <<table, begun, control, pauseVars, stopVars, turnVars>>
  BY <1>1 DEF Record
<1>4. /\ recorded'[r] # << >> /\ \A q \in Runs \ {r} : recorded'[q] = recorded[q]
  <2>1. recorded \in [Runs -> Seq(Outcomes)]
    BY DEF IInv, TypeOK
  <2>2. recorded'[r] = Append(recorded[r], Top(t).arg) /\ recorded[r] \in Seq(Outcomes)
    BY <1>2, <1>3, <2>1
  <2>3. recorded'[r] # << >>
    <3>1. Top(t).arg \in Outcomes
      <4>1. Top(t) \in FrameSet
        BY <1>0, TopCall
      <4> QED
        BY <1>0, <4>1 DEF FrameSet
    <3>2. \A s \in Seq(Outcomes), o \in Outcomes :
             Len(Append(s, o)) = Len(s) + 1 /\ Len(s) \in Nat
      OBVIOUS
    <3>3. Len(<< >>) = 0
      OBVIOUS
    <3> QED
      BY <2>2, <3>1, <3>2, <3>3
  <2>4. \A q \in Runs \ {r} : recorded'[q] = recorded[q]
    BY <1>3, <2>1
  <2> QED
    BY <2>2, <2>3, <2>4
<1>5. Moved(t, << >>, t, << >>)
  BY <1>0, <1>3, ContinueMoves, NoneMore
<1>6. Going /\ Aside
  BY <1>0, <1>3 DEF Going, Aside, stopVars, turnVars
<1>7. EndsKept
  <2>1. Top(t).op \notin EndOps
    BY <1>0 DEF EndOps
  <2> QED
    BY <1>3, <1>5, <2>1, EndsMoved
<1>8. Hands(t, << >>)
  BY <1>0 DEF Hands, LiveOps, DriveOps
<1>9. \A q \in Runs : (Armed(q)' <=> Armed(q)) /\ (Waiting(q)' <=> Waiting(q))
  BY <1>3 DEF Armed, Waiting, pauseVars
<1>10. OwnedOnce'
  <2>1. \A q \in Runs \ {} : /\ control'[q].queued = control[q].queued
                             /\ control'[q].settled = control[q].settled
                             /\ Ended(control[q]) => Ended(control'[q])
                             /\ Armed(q)' => Armed(q)
                             /\ Waiting(q)' => Waiting(q)
    BY <1>3, <1>9
  <2>2. begun' \subseteq begun \cup {} /\ \A q \in begun' : q \in {} => Owned(q)'
    BY <1>3
  <2>3. Top(t).op \notin DriveOps
    BY <1>0 DEF DriveOps
  <2> QED
    BY <1>5, <2>1, <2>2, <2>3, AboutNone, OwnedBut
<1>11. /\ Number(stack', Runs, {"claim", "record"})
            = (Number(stack, Runs, {"claim", "record"}) - 1) + 0
       /\ \A q \in Runs \ {r} : Records(q)' = Records(q)
  <2>1. \A R, ops : Tally(<< >>, R, ops) = IF r \in R /\ "record" \in ops THEN 0 ELSE 0
    BY EmptyTally
  <2> QED
    BY <1>0, <1>1, <1>2, <1>5, <2>1, ClaimCounts
<1>12. SettlesCounted'
  <2>1. settling' = Number(stack', Runs, {"claim", "record"})
    <3>1. settling \in Int /\ settling = Number(stack, Runs, {"claim", "record"})
      BY DEF JInv, SettlesCounted, IInv, TypeOK
    <3> QED
      BY <1>3, <1>11, <3>1
  <2>2. \A q \in Runs : control'[q].settled => recorded'[q] # << >> \/ Records(q)' # 0
    BY <1>3, <1>4, <1>11 DEF JInv, SettlesCounted
  <2>3. \A q \in Runs : recorded'[q] # << >> => control'[q].settled
    BY <1>2, <1>3, <1>4 DEF JInv, SettlesCounted
  <2>4. stop.seen \subseteq Runs
    BY DEF IInv, TypeOK
  <2>5. stop'.at = "done" => \A q \in stop'.seen : recorded'[q] # << >>
    BY <1>3, <1>4, <2>4 DEF JInv, SettlesCounted, stopVars
  <2>6. \A q \in stop'.seen : control'[q].settled
    BY <1>3 DEF JInv, SettlesCounted, stopVars
  <2> QED
    BY <2>1, <2>2, <2>3, <2>5, <2>6 DEF SettlesCounted
<1>13. /\ Recorded \subseteq Recorded' /\ r \in Recorded' /\ ByStop' = ByStop
  BY <1>2, <1>3, <1>4 DEF Recorded, ByStop
<1>14. Sound(Recorded, ByStop) \subseteq Sound(Recorded', ByStop')
  BY <1>13 DEF Sound
<1>15. Top(t).op \in SettleOps /\ Leads(Top(t), << >>, Recorded' \cup Queued)
  BY <1>0, <1>1, <1>13 DEF SettleOps, Leads
<1>16. /\ << >> \in Seq(Sound(Recorded, ByStop)) /\ Free(<< >>, QueueOps) /\ Free(<< >>, LiveOps)
       /\ Follows(<< >>, Recorded' \cup Queued)
  BY DEF Free, Follows
<1> QED
  BY <1>0, <1>3, <1>5, <1>6, <1>7, <1>8, <1>10, <1>12, <1>13, <1>14, <1>15, <1>16, KeptSettling

(***************************************************************************)
(* The ordered queue                                                       *)
(***************************************************************************)
LEMMA MovedOffSettles ==
    ASSUME IInv, JInv, NEW t \in Threads, NEW u \in Threads, NEW frames, NEW more,
           Moved(t, frames, u, more), Free(frames, SettleOps \cup {"release"}),
           Free(more, SettleOps \cup {"release"}),
           frames \in Seq(Sound(Recorded, ByStop)), more \in Seq(Sound(Recorded, ByStop)),
           Idle(t) \/ Top(t).op \notin SettleOps
    PROVE  OffSettles
<1>0. stack \in Stacks
  BY StacksTyped
<1>1. Free(frames, SettleOps) /\ Free(more, SettleOps)
  BY DEF Free
<1>2. \A some \in SUBSET SettleOps : \A R : Number(stack', R, some) = Number(stack, R, some)
  <2>1. \A some \in SUBSET SettleOps : \A R :
           /\ Tally(frames, R, some) = 0 /\ Tally(more, R, some) = 0 /\ Out(t, R, some) = 0
           /\ Number(stack', R, some) = Number(stack, R, some)
    BY <1>0, <1>1, MovedSame
  <2> QED
    BY <2>1
<1>3. {"record"} \in SUBSET SettleOps /\ {"claim", "record"} \in SUBSET SettleOps
  BY DEF SettleOps
<1>4. \A v \in Threads : Follows(stack'[v], Recorded \cup Queued)
  <2> DEFINE D == Recorded \cup Queued
  <2>1. Idle(t) \/ Leads(Top(t), frames, D)
    BY DEF Leads
  <2>2. /\ \A v \in Threads : Follows(stack[v], D)
        /\ Follows(frames, D) /\ Follows(more, D)
    BY DEF JInv, ReleasedAfter, Free, Follows
  <2> HIDE DEF D
  <2>3. \A v \in Threads : Follows(stack'[v], D)
    BY <2>1, <2>2, MovedFollows
  <2> QED
    BY <2>3 DEF D
<1>5. stack' \in [Threads -> Seq(Sound(Recorded, ByStop))]
  <2> DEFINE S == Sound(Recorded, ByStop)
  <2>1. stack \in [Threads -> Seq(S)] /\ frames \in Seq(S) /\ more \in Seq(S)
    BY DEF JInv, ReleasedAfter
  <2> HIDE DEF S
  <2>2. stack' \in [Threads -> Seq(S)]
    BY <2>1, MovedInto
  <2> QED
    BY <2>2 DEF S
<1> QED
  BY <1>2, <1>3, <1>4, <1>5 DEF OffSettles

\* What is left to show of a step of the queue.
LEMMA KeptQueue ==
    ASSUME IInv, JInv, NEW u \in Threads, NEW frames, NEW more, Moved(Queuer, frames, u, more),
           Free(frames, SettleOps \cup {"release"}), Free(more, SettleOps \cup {"release"}),
           frames \in Seq(Sound(Recorded, ByStop)), more \in Seq(Sound(Recorded, ByStop)),
           Idle(Queuer) \/ Top(Queuer).op \in QueueOps,
           Free(frames, LiveOps), Tally(Rest(more), Runs, LiveOps) = 0,
           u # Queuer => Fresh(u, more), Later, Undecided, UNCHANGED pauseVars,
           EvictedSettled', OwnedOnce', TurnsOnce', TurnOwned', TurnAlone'
    PROVE  JInv'
<1>0. stack \in Stacks /\ Queuer \in Threads /\ frames \in Calling
  BY StacksTyped, QueuerIs DEF Moved
<1>1. OffSettles
  <2>1. Idle(Queuer) \/ Top(Queuer).op \notin SettleOps
    BY DEF QueueOps, SettleOps
  <2> QED
    BY <1>0, <2>1, MovedOffSettles
<1>2. SettlesCounted' /\ ReleasedAfter'
  <2>1. \A w \in waiters' : w.child \notin Queued
    BY DEF JInv, ReleasedAfter, pauseVars
  <2> QED
    BY <1>1, <2>1, SettlesKeep
<1>3. Tally(Rest(frames), Runs, LiveOps) = 0 /\ (frames # << >> => Head(frames).op \notin LiveOps)
  BY <1>0, FreeLive
<1>4. LiveOnTop'
  BY <1>0, <1>3, MovedOnTop DEF JInv
<1>5. Goroutines'
  <2>1. ~Idle(Queuer) => Hands(Queuer, frames)
    BY <1>3 DEF Hands, QueueOps, LiveOps, DriveOps
  <2>2. Idle(Queuer) => Fresh(Queuer, frames)
    BY ThreadsDiffer DEF Fresh
  <2> QED
    BY <1>0, <2>1, <2>2, GoroutinesMoved DEF JInv
<1>6. PausedOnce'
  BY DEF JInv, PausedOnce, pauseVars
<1> QED
  BY <1>2, <1>4, <1>5, <1>6 DEF JInv

\* Only the queue's thread takes turns.
LEMMA QueueTop ==
    ASSUME IInv, JInv, NEW t \in Threads, NEW op \in QueueOps, At(t, op)
    PROVE  /\ t = Queuer /\ Top(t).run \in Runs
           /\ op # "enqueue" => Number(stack, Runs, {"enqueue"}) = 0
<1>0. stack \in Stacks /\ ~Idle(t) /\ Top(t).op = op
  BY StacksTyped DEF At
<1>1. Top(t) \in FrameSet /\ Top(t).run \in Runs
  <2>1. Top(t) \in FrameSet
    BY <1>0, TopCall
  <2>2. \A q \in Queued : q \in Runs
    BY RunsAssumption DEF Queued
  <2> QED
    BY <2>1, <2>2 DEF FrameSet
<1>2. Out(t, Runs, QueueOps) = 1
  BY <1>0, <1>1 DEF Out, Counts
<1>3. Tally(stack[t], Runs, QueueOps) # 0
  <2>1. /\ Tally(stack[t], Runs, QueueOps) = Out(t, Runs, QueueOps) + Tally(Below(t), Runs, QueueOps)
        /\ Tally(Below(t), Runs, QueueOps) \in Nat
    BY <1>0, BelowTally
  <2> QED
    BY <1>2, <2>1
<1>4. t = Queuer
  BY <1>3 DEF JInv, TurnsOnce
<1>5. op # "enqueue" => Number(stack, Runs, {"enqueue"}) = 0
  BY <1>0, <1>4 DEF JInv, TurnsOnce, At
<1> QED
  BY <1>1, <1>4, <1>5

\* The calls of the queue, after one of them is made.
LEMMA QueueMoved ==
    ASSUME IInv, JInv, NEW u \in Threads, NEW frames, NEW more,
           Moved(Queuer, frames, u, more), Free(more, QueueOps)
    PROVE  /\ \A v \in Threads \ {Queuer} : Tally(stack'[v], Runs, QueueOps) = 0
           /\ \A q : /\ Turned(q)' = (Turned(q) - Out(Queuer, {q}, {"turn"})) + Tally(frames, {q}, {"turn"})
                     /\ Turned(q) \in Nat /\ Turned(q)' \in Nat
                     /\ Out(Queuer, {q}, {"turn"}) <= Turned(q) /\ Out(Queuer, {q}, {"turn"}) \in {0, 1}
           /\ Number(stack', Runs, {"enqueue"})
                = (Number(stack, Runs, {"enqueue"}) - Out(Queuer, Runs, {"enqueue"}))
                    + Tally(frames, Runs, {"enqueue"})
           /\ Number(stack, Runs, {"enqueue"}) \in Nat
<1>0. stack \in Stacks /\ Queuer \in Threads
  BY StacksTyped, QueuerIs
<1>1. /\ u # Queuer => stack'[u] = more
      /\ \A v \in Threads \ {Queuer, u} : stack'[v] = stack[v]
      /\ frames \in Calling /\ more \in Calling
  BY <1>0, MovedStacks
<1>2. \A some \in SUBSET QueueOps : \A R : Tally(more, R, some) = 0
  BY <1>1, FreeTally
<1>3. {"turn"} \in SUBSET QueueOps /\ {"enqueue"} \in SUBSET QueueOps /\ QueueOps \in SUBSET QueueOps
  BY DEF QueueOps
<1>4. ASSUME NEW v \in Threads \ {Queuer} PROVE Tally(stack'[v], Runs, QueueOps) = 0
  <2>1. CASE v = u
    BY <1>1, <1>2, <1>3, <2>1
  <2>2. CASE v # u
    BY <1>1, <2>2 DEF JInv, TurnsOnce
  <2> QED
    BY <2>1, <2>2
<1>5. ASSUME NEW R, NEW some \in SUBSET QueueOps
      PROVE  /\ Number(stack', R, some)
                   = (Number(stack, R, some) - Out(Queuer, R, some)) + Tally(frames, R, some)
             /\ Number(stack, R, some) \in Nat /\ Number(stack', R, some) \in Nat
             /\ Out(Queuer, R, some) <= Number(stack, R, some) /\ Out(Queuer, R, some) \in {0, 1}
  <2>1. /\ Number(stack, R, some) \in Nat /\ Number(stack', R, some) \in Nat
        /\ Tally(frames, R, some) \in Nat
        /\ Out(Queuer, R, some) \in {0, 1} /\ Out(Queuer, R, some) <= Number(stack, R, some)
        /\ Number(stack', R, some) = ((Number(stack, R, some) - Out(Queuer, R, some))
                                         + Tally(frames, R, some)) + Tally(more, R, some)
    BY <1>0, MovedCounts
  <2>2. Tally(more, R, some) = 0
    BY <1>2
  <2>3. Number(stack', R, some)
          = (Number(stack, R, some) - Out(Queuer, R, some)) + Tally(frames, R, some)
    BY <2>1, <2>2
  <2> QED
    BY <2>1, <2>3
<1>6. \A q : /\ Turned(q)' = (Turned(q) - Out(Queuer, {q}, {"turn"})) + Tally(frames, {q}, {"turn"})
             /\ Turned(q) \in Nat /\ Turned(q)' \in Nat
             /\ Out(Queuer, {q}, {"turn"}) <= Turned(q) /\ Out(Queuer, {q}, {"turn"}) \in {0, 1}
  BY <1>3, <1>5 DEF Turned
<1> QED
  BY <1>3, <1>4, <1>5, <1>6

\* A turn is taken or ends.
LEMMA TurnMoved ==
    ASSUME IInv, JInv, NEW u \in Threads, NEW frames, NEW more,
           Moved(Queuer, frames, u, more), Free(more, QueueOps), Free(frames, {"turn", "enqueue"}),
           At(Queuer, "turn") \/ At(Queuer, "await"),
           NEW r \in Runs, r = Top(Queuer).run,
           \A q \in Runs : control'[q].queued => control[q].queued,
           \A q \in Runs \ {r} : control[q].queued => control'[q].queued,
           At(Queuer, "await") => control'[r].queued = control[r].queued
    PROVE  /\ TurnsOnce'
           /\ \A q \in Runs \ {r} : Turned(q)' = Turned(q)
           /\ At(Queuer, "await") => Turned(r)' = Turned(r)
           /\ At(Queuer, "turn") => control[r].queued
<1>0. stack \in Stacks /\ Queuer \in Threads /\ frames \in Calling /\ ~Idle(Queuer)
  BY StacksTyped, QueuerIs DEF Moved, At
<1>1. /\ \A v \in Threads \ {Queuer} : Tally(stack'[v], Runs, QueueOps) = 0
      /\ \A q : /\ Turned(q)' = (Turned(q) - Out(Queuer, {q}, {"turn"})) + Tally(frames, {q}, {"turn"})
                /\ Turned(q) \in Nat /\ Turned(q)' \in Nat
                /\ Out(Queuer, {q}, {"turn"}) <= Turned(q) /\ Out(Queuer, {q}, {"turn"}) \in {0, 1}
      /\ Number(stack', Runs, {"enqueue"})
           = (Number(stack, Runs, {"enqueue"}) - Out(Queuer, Runs, {"enqueue"}))
               + Tally(frames, Runs, {"enqueue"})
      /\ Number(stack, Runs, {"enqueue"}) \in Nat
  BY QueueMoved
<1>2. \A R : Tally(frames, R, {"turn"}) = 0 /\ Tally(frames, R, {"enqueue"}) = 0
  BY <1>0, FreeTally
<1>3. Number(stack', Runs, {"enqueue"}) = 0
  <2>1. Number(stack, Runs, {"enqueue"}) = 0
    BY <1>0, QueueTop DEF QueueOps
  <2>2. Out(Queuer, Runs, {"enqueue"}) = 0
    BY DEF Out, Counts, At
  <2> QED
    BY <1>1, <1>2, <2>1, <2>2
<1>4. ASSUME NEW q \in Runs, q # r \/ At(Queuer, "await") PROVE Turned(q)' = Turned(q)
  <2>1. Out(Queuer, {q}, {"turn"}) = 0
    BY <1>4 DEF Out, Counts, At
  <2> QED
    BY <1>1, <1>2, <2>1
<1>5. At(Queuer, "turn") => Turned(r) = 1 /\ Turned(r)' = 0 /\ control[r].queued
  <2> SUFFICES ASSUME At(Queuer, "turn")
               PROVE  Turned(r) = 1 /\ Turned(r)' = 0 /\ control[r].queued
    OBVIOUS
  <2>1. Out(Queuer, {r}, {"turn"}) = 1
    BY DEF Out, Counts, At
  <2>2. Turned(r) <= 1 /\ (Turned(r) = 1 => control[r].queued)
    BY DEF JInv, TurnsOnce
  <2>3. Turned(r) = 1
    BY <1>1, <2>1, <2>2
  <2>4. Turned(r)' = 0
    BY <1>1, <1>2, <2>1, <2>3
  <2> QED
    BY <2>2, <2>3, <2>4
<1>6. \A q \in Runs : Turned(q)' <= 1 /\ (Turned(q)' = 1 => control'[q].queued)
  <2> SUFFICES ASSUME NEW q \in Runs PROVE Turned(q)' <= 1 /\ (Turned(q)' = 1 => control'[q].queued)
    OBVIOUS
  <2>1. CASE q # r
    BY <1>4, <2>1 DEF JInv, TurnsOnce
  <2>2. CASE q = r /\ At(Queuer, "turn")
    BY <1>5, <2>2
  <2>3. CASE q = r /\ At(Queuer, "await")
    BY <1>4, <2>3 DEF JInv, TurnsOnce
  <2> QED
    BY <2>1, <2>2, <2>3
<1>7. \A q \in Runs : control'[q].queued => q \in Queued
  BY DEF JInv, TurnsOnce
<1>8. TurnsOnce'
  BY <1>1, <1>3, <1>6, <1>7 DEF TurnsOnce
<1> QED
  BY <1>4, <1>5, <1>8

\* A turn ends, or is passed over, and nothing is started.
LEMMA TurnOver ==
    ASSUME IInv, JInv, NEW frames, Moved(Queuer, frames, Queuer, << >>),
           Free(frames, LiveOps), Free(frames, SettleOps \cup {"release"}), Free(frames, QueueOps),
           frames \in Seq(Sound(Recorded, ByStop)), About({}, frames),
           At(Queuer, "turn") \/ At(Queuer, "await"),
           NEW r \in Runs, r = Top(Queuer).run,
           \A q \in Runs : /\ control'[q].queued = control[q].queued
                           /\ control'[q].settled = control[q].settled
                           /\ control'[q].byStop = control[q].byStop
                           /\ control[q].cancelRequested => control'[q].cancelRequested
                           /\ control[q].stopped => control'[q].stopped,
           \A q \in begun : control[q].queued /\ ~control'[q].settled
                              /\ (control'[q].cancelRequested \/ control'[q].stopped) =>
              control[q].cancelRequested \/ control[q].stopped \/ Ending(q)' # 0,
           At(Queuer, "turn") => Ended(control'[r]),
           Turning' \subseteq Turning, stopping \/ Turning' = {},
           UNCHANGED <<table, begun, pauseVars, endVars, stopVars>>
    PROVE  JInv'
<1>0. /\ stack \in Stacks /\ Queuer \in Threads /\ frames \in Calling /\ begun \subseteq Runs
      /\ ~Idle(Queuer) /\ Top(Queuer).op \in QueueOps /\ Top(Queuer).op \notin EndOps \cup DriveOps
      /\ << >> \in Calling
  BY StacksTyped, QueuerIs DEF IInv, TypeOK, At, QueueOps, EndOps, DriveOps, Moved
<1>1. Free(<< >>, QueueOps) /\ Free(<< >>, SettleOps \cup {"release"}) /\ Free(frames, {"turn", "enqueue"})
  BY DEF Free, QueueOps
<1>2. /\ TurnsOnce'
      /\ \A q \in Runs \ {r} : Turned(q)' = Turned(q)
      /\ At(Queuer, "await") => Turned(r)' = Turned(r)
  BY <1>0, <1>1, TurnMoved
<1>3. Later /\ Undecided
  BY <1>0 DEF Later, Undecided, endVars, stopVars
<1>4. EndsKept
  BY <1>0, EndsMoved
<1>5. TurnOwned'
  <2> SUFFICES ASSUME NEW q \in begun, ~control'[q].settled, control'[q].queued
               PROVE  IF control'[q].cancelRequested \/ control'[q].stopped
                      THEN Ending(q)' # 0 ELSE At(Queuer, "enqueue")' \/ Turned(q)' # 0
    BY DEF TurnOwned
  <2>1. q \in Runs /\ ~control[q].settled /\ control[q].queued
    BY <1>0
  <2>2. IF control[q].cancelRequested \/ control[q].stopped
        THEN Ending(q) # 0 ELSE Turned(q) # 0
    <3>1. ~At(Queuer, "enqueue")
      BY DEF At
    <3> QED
      BY <2>1, <3>1 DEF JInv, TurnOwned
  <2>3. CASE control'[q].cancelRequested \/ control'[q].stopped
    BY <1>4, <2>1, <2>2, <2>3 DEF EndsKept
  <2>4. CASE ~(control'[q].cancelRequested \/ control'[q].stopped)
    <3>1. Turned(q) # 0
      BY <2>1, <2>2, <2>4
    <3>2. Turned(q)' = Turned(q)
      <4>1. q # r \/ At(Queuer, "await")
        BY <2>1, <2>4 DEF Ended
      <4> QED
        BY <1>2, <2>1, <4>1
    <3> QED
      BY <2>4, <3>1, <3>2
  <2> QED
    BY <2>3, <2>4
<1>6. TurnAlone'
  BY DEF JInv, TurnAlone, stopVars
<1>7. EvictedSettled'
  BY <1>0 DEF JInv, EvictedSettled
<1>8. OwnedOnce'
  <2>1. \A q \in Runs : (Armed(q)' <=> Armed(q)) /\ (Waiting(q)' <=> Waiting(q))
    BY DEF Armed, Waiting, pauseVars
  <2>2. \A q \in Runs \ {} : /\ control'[q].queued = control[q].queued
                             /\ control'[q].settled = control[q].settled
                             /\ Ended(control[q]) => Ended(control'[q])
                             /\ Armed(q)' => Armed(q)
                             /\ Waiting(q)' => Waiting(q)
    BY <2>1 DEF Ended
  <2>3. About({}, << >>) /\ (\A q \in begun' : q \in {} => Owned(q)') /\ begun' \subseteq begun \cup {}
    BY AboutNone
  <2> QED
    BY <1>0, <2>2, <2>3, OwnedBut
<1>9. << >> \in Seq(Sound(Recorded, ByStop)) /\ Tally(Rest(<< >>), Runs, LiveOps) = 0
  BY NoneMore
<1> QED
  BY <1>0, <1>1, <1>2, <1>3, <1>5, <1>6, <1>7, <1>8, <1>9, KeptQueue

LEMMA TurnOverSteps ==
    ASSUME IInv, JInv, NEW t \in Threads, TurnEnds(t) \/ TurnSkipped(t)
    PROVE  JInv'
<1>1. t = Queuer /\ ~Idle(t) /\ (At(t, "await") \/ At(t, "turn"))
  <2>1. At(t, "await") \/ At(t, "turn")
    BY DEF TurnEnds, TurnSkipped
  <2>2. "await" \in QueueOps /\ "turn" \in QueueOps
    BY DEF QueueOps
  <2>3. t = Queuer
    BY <2>1, <2>2, QueueTop
  <2> QED
    BY <2>1, <2>3 DEF At
<1>2. PICK r \in Runs : r = Top(Queuer).run
  <2>1. "await" \in QueueOps /\ "turn" \in QueueOps
    BY DEF QueueOps
  <2> QED
    BY <1>1, <2>1, QueueTop
<1>3. Moved(Queuer, << >>, Queuer, << >>)
  BY <1>1, NoneMore, ContinueMoves DEF TurnEnds, TurnSkipped
<1>4. UNCHANGED <<runVars, pauseVars, endVars, stopVars, returned>>
  BY DEF TurnEnds, TurnSkipped, turnVars
<1>5. At(Queuer, "turn") => Ended(control'[r])
  <2>1. At(Queuer, "turn") => TurnSkipped(Queuer)
    BY <1>1 DEF At, TurnEnds
  <2> QED
    BY <1>2, <1>4, <2>1 DEF TurnSkipped, Ended, runVars
<1>6. Turning' \subseteq Turning /\ (stopping \/ Turning' = {})
  <2>1. CASE TurnEnds(Queuer)
    <3>1. Turning' \subseteq Turning
      BY <1>4, <2>1 DEF TurnEnds, Turning, runVars
    <3>2. ASSUME ~stopping PROVE Turning' = {}
      <4>1. \A q \in Turning : q = r
        BY <1>2, <3>2 DEF JInv, TurnAlone
      <4>2. r \in returned' \cup overran'
        BY <1>2, <2>1, <3>2 DEF TurnEnds
      <4> QED
        BY <3>1, <4>1, <4>2 DEF Turning
    <3> QED
      BY <3>1, <3>2
  <2>2. CASE TurnSkipped(Queuer)
    <3>1. Turning' = Turning
      BY <2>2 DEF TurnSkipped, Turning, runVars, turnVars
    <3>2. ~stopping /\ ~At(Queuer, "await")
      BY <2>2 DEF TurnSkipped, At
    <3>3. Turning = {}
      BY <3>2 DEF JInv, TurnAlone
    <3> QED
      BY <3>1, <3>3
  <2> QED
    BY <1>1, <2>1, <2>2
<1>7. Free(<< >>, LiveOps) /\ Free(<< >>, SettleOps \cup {"release"}) /\ Free(<< >>, QueueOps)
  BY DEF Free
<1>8. << >> \in Seq(Sound(Recorded, ByStop)) /\ About({}, << >>)
  BY AboutNone
<1>9. control' = control
  BY <1>4 DEF runVars
<1>10. UNCHANGED <<table, begun, pauseVars, endVars, stopVars>>
  BY <1>4 DEF runVars
<1> QED
  BY <1>1, <1>2, <1>3, <1>5, <1>6, <1>7, <1>8, <1>9, <1>10, TurnOver

LEMMA TurnRefusedStep ==
    ASSUME IInv, JInv, NEW t \in Threads, TurnRefused(t)
    PROVE  JInv'
<1>1. t = Queuer /\ ~Idle(t) /\ At(t, "turn") /\ stopping
  <2>1. At(t, "turn") /\ stopping /\ "turn" \in QueueOps
    BY DEF TurnRefused, QueueOps
  <2> QED
    BY <2>1, QueueTop DEF At
<1>2. PICK r \in Runs : r = Top(Queuer).run
  <2>1. "turn" \in QueueOps
    BY DEF QueueOps
  <2> QED
    BY <1>1, <2>1, QueueTop
<1>3. MarkStopped(r) /\ UNCHANGED <<table, begun, pauseVars, endVars, stopVars, turnVars>>
  BY <1>1, <1>2 DEF TurnRefused, GiveUp
<1>4. /\ \A q \in Runs : /\ control'[q].queued = control[q].queued
                         /\ control'[q].settled = control[q].settled
                         /\ control'[q].byStop = control[q].byStop
                         /\ control[q].cancelRequested => control'[q].cancelRequested
                         /\ control[q].stopped => control'[q].stopped
      /\ \A q \in Runs \ {r} : control'[q] = control[q]
  BY <1>2, <1>3, MarkedControls
<1>5. Ended(control'[r])
  <2>1. control \in [Runs -> Controls]
    BY DEF IInv, TypeOK
  <2>2. CASE control[r].settled
    BY <1>2, <1>4, <2>2 DEF Ended
  <2>3. CASE ~control[r].settled
    <3>1. control'[r].stopped
      BY <1>2, <1>3, <2>1, <2>3 DEF MarkStopped, Controls
    <3> QED
      BY <3>1 DEF Ended
  <2> QED
    BY <2>2, <2>3
<1> DEFINE f == Frame("abandon", r, None)
           b == Tail(stack[Queuer])
<1>6. PICK frames : /\ stack' = [stack EXCEPT ![Queuer] = frames \o b] /\ frames \in Calling
                    /\ frames \in Seq(Sound(Recorded, ByStop)) /\ About({}, frames)
                    /\ Free(frames, LiveOps) /\ Free(frames, SettleOps \cup {"release"})
                    /\ Free(frames, QueueOps)
                    /\ \/ control[r].stopped \/ control[r].settled
                       \/ Tally(frames, {r}, EndOps) # 0
  <2>1. /\ << f >> \in Calling /\ Free(<< f >>, LiveOps) /\ About({}, << f >>)
        /\ Tally(<< f >>, {r}, EndOps) # 0 /\ << f >> \in Seq(Sound(Recorded, ByStop))
    BY <1>2, FreeCalls DEF Fine
  <2>2. Free(<< f >>, SettleOps \cup {"release"}) /\ Free(<< f >>, QueueOps)
    BY DEF Free, SettleOps, QueueOps, Frame
  <2>3. /\ Free(<< >>, LiveOps) /\ About({}, << >>) /\ << >> \in Calling
        /\ Free(<< >>, SettleOps \cup {"release"}) /\ Free(<< >>, QueueOps)
        /\ << >> \in Seq(Sound(Recorded, ByStop))
    BY AboutNone DEF Free, Calling
  <2>4. b \in Calling
    BY <1>1, StacksTyped, QueuerIs DEF Idle, Calling
  <2>5. << >> \o b = b
    BY <2>4 DEF Calling
  <2>6. stack' = [stack EXCEPT ![Queuer] = IF control[r].stopped \/ control[r].settled
                                           THEN b ELSE << f >> \o b]
    BY <1>1, <1>2 DEF TurnRefused, GiveUp
  <2> HIDE DEF f, b
  <2>7. CASE control[r].stopped \/ control[r].settled
    BY <2>3, <2>5, <2>6, <2>7
  <2>8. CASE ~(control[r].stopped \/ control[r].settled)
    BY <2>1, <2>2, <2>6, <2>8
  <2> QED
    BY <2>7, <2>8
<1>7. Moved(Queuer, frames, Queuer, << >>)
  <2>1. Below(Queuer) = b /\ << >> \in Calling
    BY <1>1 DEF Below, Rest, Idle, Calling
  <2> QED
    BY <1>6, <2>1 DEF Moved
<1>8. ASSUME NEW q \in begun, control[q].queued, ~control'[q].settled,
             control'[q].cancelRequested \/ control'[q].stopped
      PROVE  control[q].cancelRequested \/ control[q].stopped \/ Ending(q)' # 0
  <2>0. begun \subseteq Runs /\ stack \in Stacks /\ Queuer \in Threads
    BY StacksTyped, QueuerIs DEF IInv, TypeOK
  <2>1. \/ control[r].stopped \/ control[r].settled \/ Ending(r)' # 0
    BY <1>6, <1>7, <2>0, EndsGiven
  <2>2. CASE q = r
    BY <1>2, <1>4, <1>8, <2>1, <2>2
  <2>3. CASE q # r
    BY <1>4, <1>8, <2>0, <2>3
  <2> QED
    BY <2>2, <2>3
<1>9. Turning' \subseteq Turning
  <2>1. \A q \in Queued : q \in Runs
    BY RunsAssumption DEF Queued
  <2> QED
    BY <1>3, <1>4, <2>1 DEF Turning, turnVars
<1>10. UNCHANGED <<table, begun, pauseVars, endVars, stopVars>>
  BY <1>3
<1> QED
  BY <1>1, <1>2, <1>4, <1>5, <1>6, <1>7, <1>8, <1>9, <1>10, TurnOver

\* The run of a turn has returned.
LEMMA SignalStep ==
    ASSUME IInv, JInv, NEW t \in Threads, Signal(t)
    PROVE  JInv'
<1>1. /\ ~Idle(t) /\ Top(t).op = "signal"
      /\ Top(t).op \notin CalmOps \cup {"count"} /\ Top(t).op \notin DriveOps
      /\ Top(t).op \notin EndOps /\ Top(t).op \notin LiveOps
  BY DEF Signal, At, CalmOps, QueueOps, DriveOps, EndOps, LiveOps
<1>2. Moved(t, << >>, t, << >>)
  BY <1>1, NoneMore, ContinueMoves DEF Signal
<1>3. /\ UNCHANGED <<runVars, pauseVars, endVars, stopVars>>
      /\ returned \cup overran \subseteq returned' \cup overran'
  BY DEF Signal
<1>4. begun \subseteq Runs
  BY DEF IInv, TypeOK
<1>5. Going /\ Aside /\ Undecided
  BY <1>3, <1>4 DEF Going, Aside, Undecided, runVars, endVars, stopVars
<1>6. EndsKept
  BY <1>1, <1>2, <1>3, EndsMoved DEF runVars
<1>7. Hands(t, << >>)
  BY <1>1 DEF Hands
<1>8. OwnedOnce'
  <2>1. \A q \in Runs : (Armed(q)' <=> Armed(q)) /\ (Waiting(q)' <=> Waiting(q))
    BY <1>3 DEF Armed, Waiting, pauseVars
  <2>2. \A q \in Runs \ {} : /\ control'[q].queued = control[q].queued
                             /\ control'[q].settled = control[q].settled
                             /\ Ended(control[q]) => Ended(control'[q])
                             /\ Armed(q)' => Armed(q)
                             /\ Waiting(q)' => Waiting(q)
    BY <1>3, <2>1 DEF runVars
  <2>3. About({}, << >>) /\ (\A q \in begun' : q \in {} => Owned(q)') /\ begun' \subseteq begun \cup {}
    BY <1>3, AboutNone DEF runVars
  <2> QED
    BY <1>1, <1>2, <2>2, <2>3, OwnedBut
<1>9. PausedOnce' /\ \A w \in waiters' : w.child \notin Queued
  <2>1. armed' = armed /\ waiters' = waiters
    BY <1>3 DEF pauseVars
  <2>2. PausedOnce /\ \A w \in waiters : w.child \notin Queued
    BY DEF JInv, ReleasedAfter
  <2> QED
    BY <2>1, <2>2 DEF PausedOnce
<1> QED
  BY <1>1, <1>2, <1>5, <1>6, <1>7, <1>8, <1>9, NoneMore, KeptBut

\* A run is started in its turn.
LEMMA TurnStartsKeeps ==
    ASSUME IInv, JInv, NEW t \in Threads, TurnStarts(t)
    PROVE  JInv'
<1>1. t = Queuer /\ ~Idle(t) /\ At(t, "turn") /\ ~stopping
  <2>1. At(t, "turn") /\ ~stopping /\ "turn" \in QueueOps
    BY DEF TurnStarts, QueueOps
  <2> QED
    BY <2>1, QueueTop DEF At
<1>2. PICK r \in Runs : r = Top(Queuer).run
  <2>1. "turn" \in QueueOps
    BY DEF QueueOps
  <2> QED
    BY <1>1, <2>1, QueueTop
<1>3. /\ ~Ended(control[r]) /\ control' = [control EXCEPT ![r].queued = FALSE]
      /\ stack' = Spawn(Continue(Queuer, << Frame("await", r, None) >>), r,
                        << Frame("run", r, 1), Frame("signal", r, None) >>)
      /\ UNCHANGED <<table, begun, pauseVars, endVars, stopVars, turnVars>>
  BY <1>1, <1>2 DEF TurnStarts, Ended
<1>4. /\ \A q \in Runs : /\ control'[q].settled = control[q].settled
                         /\ control'[q].byStop = control[q].byStop
                         /\ control'[q].cancelRequested = control[q].cancelRequested
                         /\ control'[q].stopped = control[q].stopped
      /\ \A q \in Runs \ {r} : control'[q] = control[q]
      /\ ~control'[r].queued
  <2>1. control \in [Runs -> Controls]
    BY DEF IInv, TypeOK
  <2> QED
    BY <1>2, <1>3, <2>1 DEF Controls
<1>5. PICK f : f = Frame("await", r, None)
  OBVIOUS
<1>6. PICK more : more = << Frame("run", r, 1), Frame("signal", r, None) >>
  OBVIOUS
<1>7. /\ f \in FrameSet /\ f.op = "await" /\ f.run = r
      /\ << f >> \in Calling /\ << f >> \in Seq(Sound(Recorded, ByStop))
      /\ Free(<< f >>, LiveOps) /\ Free(<< f >>, SettleOps \cup {"release"})
      /\ Free(<< f >>, {"turn", "enqueue"}) /\ Free(<< f >>, DriveOps)
  <2>1. f \in FrameSet /\ f.op = "await" /\ f.run = r
    BY <1>2, <1>5 DEF Frame, FrameSet, None
  <2>2. f \in Sound(Recorded, ByStop)
    BY <2>1 DEF Sound
  <2>3. << f >> \in Calling /\ << f >> \in Seq(Sound(Recorded, ByStop))
    BY <2>1, <2>2 DEF Calling
  <2>4. /\ Free(<< f >>, LiveOps) /\ Free(<< f >>, SettleOps \cup {"release"})
        /\ Free(<< f >>, {"turn", "enqueue"}) /\ Free(<< f >>, DriveOps)
    BY <2>1 DEF Free, LiveOps, SettleOps, DriveOps
  <2> QED
    BY <2>1, <2>3, <2>4
<1>8. /\ more \in Calling /\ more \in Seq(Sound(Recorded, ByStop))
      /\ Free(more, SettleOps \cup {"release"}) /\ Free(more, QueueOps)
      /\ more # << >> /\ IsLive(Head(more), r) /\ Bare(1, Rest(more))
      /\ Tally(Rest(more), Runs, LiveOps) = 0
      /\ \A q \in Runs : Tally(more, {q}, DriveOps) = One(q = r)
  <2>1. PICK g : g = Frame("run", r, 1)
    OBVIOUS
  <2>2. PICK h : h = Frame("signal", r, None)
    OBVIOUS
  <2>3. /\ g \in FrameSet /\ g.op = "run" /\ g.run = r
        /\ h \in FrameSet /\ h.op = "signal" /\ h.run = r
    BY <1>2, <2>1, <2>2 DEF Frame, FrameSet, None
  <2>4. g \in Sound(Recorded, ByStop) /\ h \in Sound(Recorded, ByStop)
    BY <2>3 DEF Sound
  <2>5. more = << g, h >> /\ more = << g >> \o << h >> /\ Rest(more) = << h >> /\ Head(more) = g
        /\ more # << >>
    BY <1>6, <2>1, <2>2 DEF Rest
  <2>6. more \in Calling /\ more \in Seq(Sound(Recorded, ByStop))
        /\ << g >> \in Seq(FrameSet) /\ << h >> \in Seq(FrameSet)
    BY <2>3, <2>4, <2>5 DEF Calling
  <2>7. Free(more, SettleOps \cup {"release"}) /\ Free(more, QueueOps)
    BY <2>3, <2>5 DEF Free, SettleOps, QueueOps
  <2>8. IsLive(Head(more), r) /\ Bare(1, Rest(more))
    BY <2>3, <2>5 DEF IsLive, LiveOps, DriveOps, Bare
  <2>9. Tally(Rest(more), Runs, LiveOps) = 0
    BY <2>3, <2>5, OneTally DEF Counts, LiveOps, DriveOps
  <2>10. ASSUME NEW q \in Runs PROVE Tally(more, {q}, DriveOps) = One(q = r)
    <3>1. Tally(more, {q}, DriveOps) = Tally(<< g >>, {q}, DriveOps) + Tally(<< h >>, {q}, DriveOps)
      <4>1. PICK a \in Seq(FrameSet) : a = << g >>
        BY <2>6
      <4>2. PICK b \in Seq(FrameSet) : b = << h >>
        BY <2>6
      <4>3. Tally(a \o b, {q}, DriveOps) = Tally(a, {q}, DriveOps) + Tally(b, {q}, DriveOps)
        BY TallyOf
      <4>4. more = a \o b
        BY <2>5, <4>1, <4>2
      <4> QED
        BY <4>1, <4>2, <4>3, <4>4
    <3>2. Tally(<< g >>, {q}, DriveOps) = One(q = r)
      BY <2>3, OneTally DEF Counts, DriveOps, One
    <3>3. Tally(<< h >>, {q}, DriveOps) = 0
      BY <2>3, OneTally DEF Counts, DriveOps
    <3> QED
      BY <3>1, <3>2, <3>3 DEF One
  <2> QED
    BY <2>5, <2>6, <2>7, <2>8, <2>9, <2>10
<1>9. /\ stack \in Stacks /\ Queuer \in Threads /\ begun \subseteq Runs /\ ~Idle(Queuer)
      /\ Top(Queuer).op = "turn" /\ Top(Queuer).op \in QueueOps
      /\ Top(Queuer).op \notin EndOps \cup DriveOps \cup LiveOps
      /\ <<r, 1>> \in Threads /\ <<r, 1>> # Queuer /\ Queuer \notin {<<r, 1>>, <<r, 2>>}
  <2>1. Top(Queuer).op = "turn" /\ Top(Queuer).op \in QueueOps
        /\ Top(Queuer).op \notin EndOps \cup DriveOps \cup LiveOps
    BY <1>1 DEF At, QueueOps, EndOps, DriveOps, LiveOps
  <2> QED
    BY <1>1, <1>2, <2>1, StacksTyped, QueuerIs, OwnThread, ThreadsDiffer DEF IInv, TypeOK
<1>10. control[r].queued /\ r \in begun
  <2>1. Out(Queuer, {r}, {"turn"}) = 1
    BY <1>2, <1>9 DEF Out, Counts
  <2>2. Turned(r) >= 1 /\ Turned(r) \in Nat
    BY <1>9, <2>1, OutNumber DEF Turned
  <2>3. control[r].queued
    BY <1>2, <2>2 DEF JInv, TurnsOnce
  <2>4. r \in begun
    BY <1>2, <2>3 DEF IInv, ControlInv, NewControl
  <2> QED
    BY <2>3, <2>4
<1>11. Idle(<<r, 1>>) /\ Idle(<<r, 2>>)
  BY <1>2, <1>10 DEF JInv, Goroutines, Goroutine, Idle
<1>12. Moved(Queuer, << f >>, <<r, 1>>, more)
  BY <1>2, <1>3, <1>5, <1>6, <1>7, <1>8, <1>9, <1>11, SpawnMoves
<1>13. /\ TurnsOnce'
       /\ \A q \in Runs \ {r} : Turned(q)' = Turned(q)
  <2>1. /\ \A q \in Runs : control'[q].queued => control[q].queued
        /\ \A q \in Runs \ {r} : control[q].queued => control'[q].queued
    BY <1>4
  <2>2. ~At(Queuer, "await")
    BY <1>9 DEF At
  <2> QED
    BY <1>1, <1>2, <1>7, <1>8, <1>9, <1>12, <2>1, <2>2, TurnMoved
<1>14. Later /\ Undecided
  BY <1>3, <1>4, <1>9, <1>10 DEF Later, Undecided, endVars, stopVars
<1>15. Fresh(<<r, 1>>, more)
  BY <1>3, <1>4, <1>8, <1>10 DEF Fresh
<1>16. EndsKept
  BY <1>4, <1>9, <1>12, EndsMoved
<1>17. TurnOwned'
  <2> SUFFICES ASSUME NEW q \in begun, ~control'[q].settled, control'[q].queued
               PROVE  IF control'[q].cancelRequested \/ control'[q].stopped
                      THEN Ending(q)' # 0 ELSE At(Queuer, "enqueue")' \/ Turned(q)' # 0
    BY <1>3 DEF TurnOwned
  <2>1. q \in Runs /\ q # r /\ control'[q] = control[q]
    BY <1>4, <1>9
  <2>2. IF control[q].cancelRequested \/ control[q].stopped
        THEN Ending(q) # 0 ELSE Turned(q) # 0
    <3>1. ~At(Queuer, "enqueue")
      BY <1>9 DEF At
    <3> QED
      BY <2>1, <3>1 DEF JInv, TurnOwned
  <2> QED
    BY <1>13, <1>16, <2>1, <2>2 DEF EndsKept
<1>18. TurnAlone'
  <2>1. Turning = {}
    <3>1. ~At(Queuer, "await")
      BY <1>9 DEF At
    <3> QED
      BY <1>1, <3>1 DEF JInv, TurnAlone
  <2>2. Turning' \subseteq {r}
    <3>1. \A q \in Queued : q \in Runs
      BY RunsAssumption DEF Queued
    <3> QED
      BY <1>3, <1>4, <2>1, <3>1 DEF Turning, turnVars
  <2>3. At(Queuer, "await")' /\ Top(Queuer)' = f
    <3>1. stack'[Queuer] = << f >> \o Below(Queuer) /\ Below(Queuer) \in Calling
      BY <1>9, <1>12, MovedStacks, BelowTally
    <3>2. stack'[Queuer] # << >> /\ Head(stack'[Queuer]) = f
      BY <3>1 DEF Calling
    <3> QED
      BY <1>7, <3>2 DEF At, Idle, Top
  <2> QED
    BY <1>7, <2>2, <2>3 DEF TurnAlone
<1>19. EvictedSettled'
  BY <1>3, <1>4, <1>9 DEF JInv, EvictedSettled
<1>20. \A q \in Runs : (Armed(q)' <=> Armed(q)) /\ (Waiting(q)' <=> Waiting(q))
  BY <1>3 DEF Armed, Waiting, pauseVars
<1>21. Owned(r)'
  <2>1. ~Armed(r) /\ ~Waiting(r) /\ Drives(r) = 0
    BY <1>3, <1>10 DEF JInv, OwnedOnce, Owned
  <2>2. Drives(r)' = ((Drives(r) - Out(Queuer, {r}, DriveOps)) + Tally(<< f >>, {r}, DriveOps))
                       + Tally(more, {r}, DriveOps)
    BY <1>9, <1>12, DrivesMoved
  <2>3. Out(Queuer, {r}, DriveOps) = 0
    BY <1>9 DEF Out, Counts
  <2>4. Tally(<< f >>, {r}, DriveOps) = 0
    BY <1>7, FreeTally
  <2>5. Tally(more, {r}, DriveOps) = 1
    BY <1>8 DEF One
  <2>6. Drives(r)' = 1
    BY <2>1, <2>2, <2>3, <2>4, <2>5
  <2>7. ~control'[r].settled /\ ~control'[r].queued /\ ~Armed(r)' /\ ~Waiting(r)'
    BY <1>2, <1>3, <1>4, <1>20, <2>1 DEF Ended
  <2> QED
    BY <2>6, <2>7 DEF Owned, One
<1>22. OwnedOnce'
  <2>1. About({r}, << f >>)
    BY <1>7, FreeAbout
  <2>2. About({r}, more)
    BY <1>8 DEF About, One
  <2>3. \A q \in Runs \ {r} : /\ control'[q].queued = control[q].queued
                              /\ control'[q].settled = control[q].settled
                              /\ Ended(control[q]) => Ended(control'[q])
                              /\ Armed(q)' => Armed(q)
                              /\ Waiting(q)' => Waiting(q)
    BY <1>4, <1>20
  <2>4. (\A q \in begun' : q \in {r} => Owned(q)') /\ begun' \subseteq begun \cup {r}
    BY <1>3, <1>21
  <2> QED
    BY <1>9, <1>12, <2>1, <2>2, <2>3, <2>4, OwnedBut
<1> QED
  BY <1>3, <1>7, <1>8, <1>9, <1>12, <1>13, <1>14, <1>15, <1>17, <1>18, <1>19, <1>22, KeptQueue

\* Calls that neither own a run, nor settle one, nor tell a parent.
Asks(s) == /\ s \in Calling /\ s \in Seq(Sound(Recorded, ByStop))
           /\ Free(s, LiveOps) /\ Free(s, DriveOps) /\ Free(s, SettleOps \cup {"release"})

\* The calls of the ordered queue.
LEMMA EnqueueCall ==
    ASSUME NEW i \in 1..Len(Queue), NEW f, f = Frame("enqueue", Queue[i], i)
    PROVE  /\ Asks(<< f >>) /\ f.op = "enqueue" /\ f.arg = i /\ f.run = Queue[i]
           /\ Free(<< f >>, {"turn"})
<1>1. f \in FrameSet /\ f.op = "enqueue" /\ f.arg = i /\ f.run = Queue[i]
  BY DEF Frame, FrameSet, Queued
<1>2. f \in Sound(Recorded, ByStop)
  BY <1>1 DEF Sound
<1>3. << f >> \in Calling /\ << f >> \in Seq(Sound(Recorded, ByStop))
  BY <1>1, <1>2 DEF Calling
<1>4. /\ Free(<< f >>, LiveOps) /\ Free(<< f >>, DriveOps) /\ Free(<< f >>, {"turn"})
      /\ Free(<< f >>, SettleOps \cup {"release"})
  BY <1>1 DEF Free, LiveOps, DriveOps, SettleOps
<1> QED
  BY <1>1, <1>3, <1>4 DEF Asks

LEMMA TurnCalls ==
    /\ Asks(Turns) /\ Free(Turns, {"enqueue"})
    /\ \A q : Tally(Turns, {q}, {"turn"}) = One(q \in Queued)
<1>0. Len(Queue) \in Nat /\ \A i \in 1..Len(Queue) : Queue[i] \in Runs
  BY RunsAssumption
<1>1. /\ Len(Turns) = Len(Queue)
      /\ \A i \in 1..Len(Queue) : Turns[i] = Frame("turn", Queue[i], None)
  BY <1>0 DEF Turns
<1>2. \A i \in 1..Len(Queue) : /\ Turns[i] \in FrameSet /\ Turns[i] \in Sound(Recorded, ByStop)
                               /\ Turns[i].op = "turn" /\ Turns[i].run = Queue[i]
  <2> SUFFICES ASSUME NEW i \in 1..Len(Queue)
               PROVE  /\ Turns[i] \in FrameSet /\ Turns[i] \in Sound(Recorded, ByStop)
                      /\ Turns[i].op = "turn" /\ Turns[i].run = Queue[i]
    OBVIOUS
  <2>1. PICK f : f = Frame("turn", Queue[i], None)
    OBVIOUS
  <2>2. f \in FrameSet /\ f.op = "turn" /\ f.run = Queue[i]
    BY <1>0, <2>1 DEF Frame, FrameSet, None
  <2>3. f \in Sound(Recorded, ByStop)
    BY <2>2 DEF Sound
  <2> QED
    BY <1>1, <2>1, <2>2, <2>3
<1>3. \A S : (\A i \in 1..Len(Queue) : Turns[i] \in S) => Turns \in Seq(S)
  BY <1>0 DEF Turns
<1>4. Turns \in Calling /\ Turns \in Seq(Sound(Recorded, ByStop))
  BY <1>2, <1>3 DEF Calling
<1>5. /\ Free(Turns, LiveOps) /\ Free(Turns, DriveOps) /\ Free(Turns, {"enqueue"})
      /\ Free(Turns, SettleOps \cup {"release"})
  BY <1>1, <1>2 DEF Free, LiveOps, DriveOps, SettleOps
<1>6. ASSUME NEW q PROVE Tally(Turns, {q}, {"turn"}) = One(q \in Queued)
  <2>1. Where(Turns, {q}, {"turn"}) = {j \in 1..Len(Queue) : Queue[j] = q}
    BY <1>1, <1>2 DEF Where
  <2>2. CASE q \in Queued
    <3>1. PICK i \in 1..Len(Queue) : Queue[i] = q
      BY <2>2 DEF Queued
    <3>2. {j \in 1..Len(Queue) : Queue[j] = q} = {i}
      BY <3>1, RunsAssumption
    <3> QED
      BY <2>1, <2>2, <3>2, FS_Singleton DEF Tally, One
  <2>3. CASE q \notin Queued
    <3>1. {j \in 1..Len(Queue) : Queue[j] = q} = {}
      BY <2>3 DEF Queued
    <3> QED
      BY <2>1, <2>3, <3>1, FS_EmptySet DEF Tally, One
  <2> QED
    BY <2>2, <2>3
<1> QED
  BY <1>4, <1>5, <1>6 DEF Asks

\* An event starts the ordered workflows.
LEMMA OrderedEventStep ==
    ASSUME IInv, JInv, OrderedEvent
    PROVE  JInv'
<1>0. /\ stack \in Stacks /\ Queuer \in Threads /\ Idle(Queuer) /\ Queued \cap begun = {}
      /\ begun \subseteq Runs /\ 1 \in 1..Len(Queue)
      /\ UNCHANGED <<runVars, pauseVars, endVars, stopVars, turnVars>>
  <2>1. 1 \in 1..Len(Queue)
    BY RunsAssumption DEF OrderedEvent
  <2> QED
    BY <2>1, StacksTyped, QueuerIs DEF OrderedEvent, IInv, TypeOK
<1>1. PICK f : f = Frame("enqueue", Queue[1], 1)
  OBVIOUS
<1>2. /\ Asks(<< f >>) /\ f.op = "enqueue" /\ f.arg = 1 /\ Free(<< f >>, {"turn"})
  BY <1>0, <1>1, EnqueueCall
<1>3. stack'[Queuer] = << f >> /\ Moved(Queuer, << f >>, Queuer, << >>)
  <2>1. stack' = [stack EXCEPT ![Queuer] = << f >>]
    BY <1>1 DEF OrderedEvent
  <2>2. Below(Queuer) = << >> /\ << f >> \o << >> = << f >> /\ << >> \in Calling
    BY <1>0 DEF Below, Rest, Idle, Calling
  <2> QED
    BY <1>0, <1>2, <2>1, <2>2 DEF Moved, Stacks, Asks
<1>4. Free(<< >>, QueueOps) /\ Free(<< >>, SettleOps \cup {"release"})
  BY DEF Free
<1>5. /\ \A v \in Threads \ {Queuer} : Tally(stack'[v], Runs, QueueOps) = 0
      /\ \A q : Turned(q)' = Turned(q)
  <2>1. /\ \A v \in Threads \ {Queuer} : Tally(stack'[v], Runs, QueueOps) = 0
        /\ \A q : /\ Turned(q)' = (Turned(q) - Out(Queuer, {q}, {"turn"})) + Tally(<< f >>, {q}, {"turn"})
                  /\ Turned(q) \in Nat
    BY <1>0, <1>3, <1>4, QueueMoved
  <2>2. \A q : Out(Queuer, {q}, {"turn"}) = 0 /\ Tally(<< f >>, {q}, {"turn"}) = 0
    BY <1>0, <1>2, FreeTally DEF Out, Asks
  <2>3. ASSUME NEW q PROVE Turned(q)' = Turned(q)
    <3>1. /\ Turned(q)' = (Turned(q) - Out(Queuer, {q}, {"turn"})) + Tally(<< f >>, {q}, {"turn"})
          /\ Turned(q) \in Nat
      BY <2>1
    <3>2. Out(Queuer, {q}, {"turn"}) = 0 /\ Tally(<< f >>, {q}, {"turn"}) = 0
      BY <2>2
    <3> QED
      BY <3>1, <3>2
  <2> QED
    BY <2>1, <2>3
<1>6. At(Queuer, "enqueue")' /\ Len(stack'[Queuer]) = 1 /\ Top(Queuer)'.arg = 1
  BY <1>2, <1>3 DEF At, Idle, Top
<1>7. TurnsOnce'
  <2>1. \A q \in Runs : control'[q] = control[q]
    BY <1>0 DEF runVars
  <2>2. \A j \in 1..(Top(Queuer)'.arg - 1) : FALSE
    BY <1>6
  <2> QED
    BY <1>5, <1>6, <2>1, <2>2 DEF JInv, TurnsOnce
<1>8. TurnOwned' /\ TurnAlone'
  <2>1. \A q \in begun : ~control[q].queued
    BY <1>0 DEF JInv, TurnsOnce
  <2>2. Turning' = {}
    BY <1>0 DEF Turning, runVars
  <2> QED
    BY <1>0, <2>1, <2>2 DEF TurnOwned, TurnAlone, runVars
<1>9. Later /\ Undecided /\ EvictedSettled' /\ UNCHANGED pauseVars
  BY <1>0 DEF Later, Undecided, JInv, EvictedSettled, runVars, endVars, stopVars
<1>10. OwnedOnce'
  <2>1. \A q \in Runs : (Armed(q)' <=> Armed(q)) /\ (Waiting(q)' <=> Waiting(q))
    BY <1>0 DEF Armed, Waiting, pauseVars
  <2>2. \A q \in Runs \ {} : /\ control'[q].queued = control[q].queued
                             /\ control'[q].settled = control[q].settled
                             /\ Ended(control[q]) => Ended(control'[q])
                             /\ Armed(q)' => Armed(q)
                             /\ Waiting(q)' => Waiting(q)
    BY <1>0, <2>1 DEF runVars
  <2>3. (\A q \in begun' : q \in {} => Owned(q)') /\ begun' \subseteq begun \cup {}
    BY <1>0 DEF runVars
  <2>4. About({}, << f >>) /\ About({}, << >>)
    BY <1>2, FreeAbout, AboutNone DEF Asks
  <2> QED
    BY <1>0, <1>3, <2>2, <2>3, <2>4, OwnedBut
<1>11. << >> \in Seq(Sound(Recorded, ByStop)) /\ Tally(Rest(<< >>), Runs, LiveOps) = 0
  BY NoneMore
<1> QED
  BY <1>0, <1>2, <1>3, <1>4, <1>7, <1>8, <1>9, <1>10, <1>11, KeptQueue DEF Asks

\* What is left to show when the queue has put a run in the table.
LEMMA Enqueued ==
    ASSUME IInv, JInv, At(Queuer, "enqueue"), NEW r \in Runs, r = Top(Queuer).run,
           Put(r, TRUE), NEW frames, Asks(frames), Moved(Queuer, frames, Queuer, << >>),
           UNCHANGED <<pauseVars, endVars, stopVars, turnVars>>,
           TurnsOnce', At(Queuer, "enqueue")' \/ \A q \in begun' : control'[q].queued => Turned(q)' # 0
    PROVE  JInv'
<1>0. /\ stack \in Stacks /\ Queuer \in Threads /\ begun \subseteq Runs /\ ~Idle(Queuer)
      /\ Top(Queuer).op = "enqueue" /\ Top(Queuer).op \in QueueOps
      /\ Top(Queuer).op \notin EndOps \cup DriveOps \cup LiveOps /\ << >> \in Calling
  BY StacksTyped, QueuerIs DEF IInv, TypeOK, At, QueueOps, EndOps, DriveOps, LiveOps, Moved
<1>1. /\ r \notin begun /\ begun' = begun \cup {r} /\ table' = table \cup {r}
      /\ control' = [control EXCEPT ![r] = NewControl(TRUE)]
  BY DEF Put
<1>2. /\ control'[r] = NewControl(TRUE) /\ \A q \in Runs \ {r} : control'[q] = control[q]
      /\ control[r] = NewControl(FALSE)
  <2>1. control \in [Runs -> Controls]
    BY DEF IInv, TypeOK
  <2> QED
    BY <1>1, <2>1 DEF IInv, ControlInv
<1>3. Later /\ Undecided
  <2>1. ASSUME NEW q \in Runs
        PROVE  control'[q].settled = control[q].settled /\ control'[q].byStop = control[q].byStop
    <3>1. CASE q = r
      <4>1. ~control'[r].settled /\ ~control[r].settled /\ ~control'[r].byStop /\ ~control[r].byStop
        BY <1>2 DEF NewControl
      <4>2. control'[r] \in Controls /\ control[r] \in Controls
        BY <1>2 DEF NewControl, Controls, None
      <4> QED
        BY <3>1, <4>1, <4>2 DEF Controls
    <3>2. CASE q # r
      BY <1>2, <3>2
    <3> QED
      BY <3>1, <3>2
  <2>2. \A q \in begun : q \in Runs /\ control'[q] = control[q]
    BY <1>0, <1>1, <1>2
  <2> QED
    BY <1>1, <2>1, <2>2 DEF Later, Undecided, endVars, stopVars
<1>4. EndsKept
  BY <1>0, <1>1, <1>2, EndsMoved
<1>5. TurnOwned'
  <2> SUFFICES ASSUME NEW q \in begun', ~control'[q].settled, control'[q].queued
               PROVE  IF control'[q].cancelRequested \/ control'[q].stopped
                      THEN Ending(q)' # 0 ELSE At(Queuer, "enqueue")' \/ Turned(q)' # 0
    BY DEF TurnOwned
  <2>1. CASE q = r
    BY <1>2, <2>1 DEF NewControl
  <2>2. CASE q # r
    <3>1. q \in begun /\ q \in Runs /\ control'[q] = control[q]
      BY <1>0, <1>1, <1>2, <2>2
    <3>2. control[q].cancelRequested \/ control[q].stopped => Ending(q) # 0
      BY <3>1 DEF JInv, TurnOwned
    <3>3. control[q].cancelRequested \/ control[q].stopped => Ending(q)' # 0
      BY <1>4, <3>1, <3>2 DEF EndsKept
    <3> QED
      BY <3>1, <3>3
  <2> QED
    BY <2>1, <2>2
<1>6. TurnAlone'
  <2>1. Turning' \subseteq Turning
    <3>1. \A q \in Queued : q \in Runs
      BY RunsAssumption DEF Queued
    <3> QED
      BY <1>1, <1>2, <3>1 DEF Turning, turnVars, NewControl
  <2>2. ~stopping => Turning = {}
    <3>1. ~At(Queuer, "await")
      BY <1>0 DEF At
    <3> QED
      BY <3>1 DEF JInv, TurnAlone
  <2> QED
    BY <2>1, <2>2 DEF JInv, TurnAlone, stopVars
<1>7. EvictedSettled'
  BY <1>0, <1>1, <1>2 DEF JInv, EvictedSettled
<1>8. \A q \in Runs : (Armed(q)' <=> Armed(q)) /\ (Waiting(q)' <=> Waiting(q))
  BY DEF Armed, Waiting, pauseVars
<1>9. Owned(r)'
  <2>1. Drives(r) = 0 /\ Lives(r) = 0
    <3>1. "enqueue" \notin DriveOps /\ "enqueue" \notin LiveOps
      BY DEF DriveOps, LiveOps
    <3> QED
      BY <1>1, <3>1, UnbegunNone DEF Drives, Lives
  <2>2. ~Armed(r)' /\ ~Waiting(r)'
    BY <1>1, <1>8, UnbegunPauses
  <2>3. /\ Tally(frames, {r}, DriveOps) = 0 /\ Tally(frames, {r}, LiveOps) = 0
        /\ Tally(<< >>, {r}, DriveOps) = 0 /\ Tally(<< >>, {r}, LiveOps) = 0
        /\ Out(Queuer, {r}, DriveOps) = 0 /\ Out(Queuer, {r}, LiveOps) = 0
    BY <1>0, FreeTally, EmptyTally DEF Asks, Out, Counts
  <2>4. Drives(r)' = 0 /\ Lives(r)' = 0
    BY <1>0, <2>1, <2>3, OthersMoved
  <2> QED
    BY <1>2, <2>2, <2>4 DEF Owned, NewControl
<1>10. OwnedOnce'
  <2>1. About({r}, frames) /\ About({r}, << >>)
    BY FreeAbout, AboutNone DEF Asks
  <2>2. \A q \in Runs \ {r} : /\ control'[q].queued = control[q].queued
                              /\ control'[q].settled = control[q].settled
                              /\ Ended(control[q]) => Ended(control'[q])
                              /\ Armed(q)' => Armed(q)
                              /\ Waiting(q)' => Waiting(q)
    BY <1>2, <1>8
  <2>3. (\A q \in begun' : q \in {r} => Owned(q)') /\ begun' \subseteq begun \cup {r}
    BY <1>1, <1>9
  <2> QED
    BY <1>0, <2>1, <2>2, <2>3, OwnedBut
<1>11. /\ << >> \in Seq(Sound(Recorded, ByStop)) /\ Tally(Rest(<< >>), Runs, LiveOps) = 0
       /\ Free(<< >>, SettleOps \cup {"release"})
  BY NoneMore DEF Free
<1> QED
  BY <1>0, <1>3, <1>5, <1>6, <1>7, <1>10, <1>11, KeptQueue DEF Asks

LEMMA EnqueueKeeps ==
    ASSUME IInv, JInv, NEW t \in Threads, Enqueue(t)
    PROVE  JInv'
<1>1. t = Queuer /\ ~Idle(t) /\ At(t, "enqueue") /\ Top(t).op = "enqueue"
  <2>1. At(t, "enqueue") /\ "enqueue" \in QueueOps
    BY DEF Enqueue, QueueOps
  <2> QED
    BY <2>1, QueueTop DEF At
<1>2. PICK r \in Runs : r = Top(Queuer).run
  <2>1. "enqueue" \in QueueOps
    BY DEF QueueOps
  <2> QED
    BY <1>1, <2>1, QueueTop
<1>3. PICK i \in 1..Len(Queue) : i = Top(Queuer).arg /\ r = Queue[i]
  <2>1. Top(Queuer) \in Calls(begun, control, table)
    BY <1>1, QueuerIs DEF IInv, StackInv, Idle, Top
  <2>2. Top(Queuer).arg \in 1..Len(Queue) /\ Top(Queuer).run = Queue[Top(Queuer).arg]
    BY <1>1, <2>1 DEF Calls, FrameSet
  <2> QED
    BY <1>2, <2>2
<1>4. /\ stack \in Stacks /\ Queuer \in Threads /\ begun \subseteq Runs
      /\ Len(Queue) \in Nat /\ i \in Nat
  BY StacksTyped, QueuerIs, RunsAssumption DEF IInv, TypeOK
<1>5. /\ Len(stack[Queuer]) = 1
      /\ \A j \in 1..(i - 1) : control[Queue[j]].queued
  <2>1. Out(Queuer, Runs, {"enqueue"}) = 1
    BY <1>1, <1>2 DEF Out, Counts
  <2>2. Number(stack, Runs, {"enqueue"}) # 0
    BY <1>4, <2>1, OutNumber
  <2> QED
    BY <1>3, <2>2 DEF JInv, TurnsOnce
<1>6. Below(Queuer) = << >>
  <2>1. PICK s \in Seq(FrameSet) : s = stack[Queuer]
    BY <1>4 DEF Stacks, Calling
  <2>2. Len(s) = 1 => Rest(s) = << >>
    BY DEF Rest
  <2> QED
    BY <1>5, <2>1, <2>2 DEF Below
<1>7. \A q \in Runs : Turned(q) = 0
  <2> SUFFICES ASSUME NEW q \in Runs, NEW v \in Threads, NEW j \in 1..Len(stack[v])
               PROVE  stack[v][j].run \notin {q} \/ stack[v][j].op \notin {"turn"}
    BY <1>4, NumberNone DEF Turned
  <2>1. CASE v = Queuer
    BY <1>1, <1>5, <2>1 DEF Idle, Top
  <2>2. CASE v # Queuer
    <3>1. Tally(stack[v], Runs, QueueOps) = 0 /\ stack[v] \in Calling
      BY <1>4, <2>2 DEF JInv, TurnsOnce, Stacks
    <3>2. stack[v][j].run \notin Runs \/ stack[v][j].op \notin QueueOps
      BY <3>1, TallyNone
    <3> QED
      BY <3>2 DEF QueueOps
  <2> QED
    BY <2>1, <2>2
<1>8. /\ Put(r, TRUE) /\ UNCHANGED <<pauseVars, endVars, stopVars, turnVars>>
      /\ stack' = Continue(Queuer, IF i < Len(Queue)
                                   THEN << Frame("enqueue", Queue[i + 1], i + 1) >>
                                   ELSE Turns)
  BY <1>1, <1>2, <1>3 DEF Enqueue
<1>9. /\ begun' = begun \cup {r} /\ control'[r].queued
      /\ \A q \in Runs \ {r} : control'[q] = control[q]
  <2>1. control \in [Runs -> Controls]
    BY DEF IInv, TypeOK
  <2> QED
    BY <1>8, <2>1 DEF Put, NewControl
<1>10. /\ \A j \in 1..i : Queue[j] \in Runs /\ control'[Queue[j]].queued
       /\ \A q \in Runs : control'[q].queued => q \in Queued
  <2>1. \A j \in 1..i : Queue[j] \in Runs
    BY <1>4, RunsAssumption
  <2>2. \A j \in 1..i : j = i \/ j \in 1..(i - 1)
    BY <1>4
  <2>3. \A j \in 1..i : control'[Queue[j]].queued
    BY <1>3, <1>5, <1>9, <2>1, <2>2
  <2>4. r \in Queued
    BY <1>3 DEF Queued
  <2>5. \A q \in Runs : control'[q].queued => q \in Queued
    BY <1>9, <2>4 DEF JInv, TurnsOnce
  <2> QED
    BY <2>1, <2>3, <2>5
<1>11. ASSUME NEW frames, frames \in Calling, stack' = Continue(Queuer, frames)
       PROVE  /\ Moved(Queuer, frames, Queuer, << >>) /\ stack'[Queuer] = frames
              /\ \A v \in Threads \ {Queuer} : Tally(stack'[v], Runs, QueueOps) = 0
              /\ \A q \in Runs : Turned(q)' = Tally(frames, {q}, {"turn"})
              /\ stack' \in Stacks
  <2>1. Moved(Queuer, frames, Queuer, << >>)
    BY <1>1, <1>4, <1>11, ContinueMoves
  <2>2. stack' \in Stacks /\ stack'[Queuer] = frames
    <3>1. stack' \in Stacks /\ stack'[Queuer] = frames \o Below(Queuer)
      BY <1>4, <2>1, MovedStacks
    <3>2. frames \o << >> = frames
      BY <1>11 DEF Calling
    <3> QED
      BY <1>6, <3>1, <3>2
  <2>3. /\ \A v \in Threads \ {Queuer} : Tally(stack'[v], Runs, QueueOps) = 0
        /\ \A q : Turned(q)' = (Turned(q) - Out(Queuer, {q}, {"turn"})) + Tally(frames, {q}, {"turn"})
    <3>1. Free(<< >>, QueueOps)
      BY DEF Free
    <3> QED
      BY <1>4, <2>1, <3>1, QueueMoved
  <2>4. ASSUME NEW q \in Runs PROVE Turned(q)' = Tally(frames, {q}, {"turn"})
    <3>1. Out(Queuer, {q}, {"turn"}) = 0 /\ Turned(q) = 0
      BY <1>1, <1>7 DEF Out, Counts
    <3>2. Tally(frames, {q}, {"turn"}) \in Nat
      BY <1>11, WhereFinite DEF Calling
    <3> QED
      BY <2>3, <3>1, <3>2
  <2> QED
    BY <2>1, <2>2, <2>3, <2>4
<1>12. CASE i < Len(Queue)
  <2>1. PICK f : f = Frame("enqueue", Queue[i + 1], i + 1)
    OBVIOUS
  <2>2. i + 1 \in 1..Len(Queue)
    BY <1>4, <1>12
  <2>3. Asks(<< f >>) /\ f.op = "enqueue" /\ f.arg = i + 1 /\ Free(<< f >>, {"turn"})
    BY <2>1, <2>2, EnqueueCall
  <2>4. stack' = Continue(Queuer, << f >>) /\ << f >> \in Calling
    BY <1>8, <1>12, <2>1, <2>3 DEF Asks
  <2>5. /\ Moved(Queuer, << f >>, Queuer, << >>) /\ stack'[Queuer] = << f >>
        /\ \A v \in Threads \ {Queuer} : Tally(stack'[v], Runs, QueueOps) = 0
        /\ \A q \in Runs : Turned(q)' = Tally(<< f >>, {q}, {"turn"})
    BY <1>11, <2>4
  <2>6. \A q \in Runs : Turned(q)' = 0
    BY <2>3, <2>4, <2>5, FreeTally
  <2>7. At(Queuer, "enqueue")' /\ Len(stack'[Queuer]) = 1 /\ Top(Queuer)'.arg = i + 1
    BY <2>3, <2>5 DEF At, Idle, Top
  <2>8. (i + 1) - 1 = i
    BY <1>4
  <2>9. TurnsOnce'
    BY <1>10, <2>5, <2>6, <2>7, <2>8 DEF TurnsOnce
  <2> QED
    BY <1>1, <1>2, <1>8, <2>3, <2>5, <2>7, <2>9, Enqueued
<1>13. CASE ~(i < Len(Queue))
  <2>1. i = Len(Queue)
    BY <1>4, <1>13
  <2>2. Asks(Turns) /\ Turns \in Calling /\ stack' = Continue(Queuer, Turns)
    BY <1>8, <1>13, TurnCalls DEF Asks
  <2>3. /\ Moved(Queuer, Turns, Queuer, << >>) /\ stack'[Queuer] = Turns /\ stack' \in Stacks
        /\ \A v \in Threads \ {Queuer} : Tally(stack'[v], Runs, QueueOps) = 0
        /\ \A q \in Runs : Turned(q)' = Tally(Turns, {q}, {"turn"})
    BY <1>11, <2>2
  <2>4. \A q \in Runs : Turned(q)' = One(q \in Queued)
    BY <2>3, TurnCalls
  <2>5. Number(stack', Runs, {"enqueue"}) = 0
    <3> SUFFICES ASSUME NEW v \in Threads, NEW j \in 1..Len(stack'[v])
                 PROVE  stack'[v][j].run \notin Runs \/ stack'[v][j].op \notin {"enqueue"}
      BY <2>3, NumberNone
    <3>1. CASE v = Queuer
      BY <2>3, <3>1, TurnCalls DEF Free
    <3>2. CASE v # Queuer
      <4>1. Tally(stack'[v], Runs, QueueOps) = 0 /\ stack'[v] \in Calling
        BY <2>3, <3>2 DEF Stacks
      <4>2. stack'[v][j].run \notin Runs \/ stack'[v][j].op \notin QueueOps
        BY <4>1, TallyNone
      <4> QED
        BY <4>2 DEF QueueOps
    <3> QED
      BY <3>1, <3>2
  <2>6. \A q \in Queued : control'[q].queued
    BY <1>10, <2>1 DEF Queued
  <2>7. TurnsOnce'
    BY <1>10, <2>3, <2>4, <2>5, <2>6 DEF TurnsOnce, One
  <2>8. \A q \in begun' : control'[q].queued => Turned(q)' # 0
    BY <1>4, <1>9, <1>10, <2>4 DEF One
  <2> QED
    BY <1>1, <1>2, <1>8, <2>2, <2>3, <2>7, <2>8, Enqueued
<1> QED
  BY <1>12, <1>13

(***************************************************************************)
(* Beginning and evicting runs                                             *)
(***************************************************************************)
LEMMA BeginKeeps ==
    ASSUME IInv, JInv, NEW r \in TopLevel, Begin(r)
    PROVE  JInv'
<1>0. /\ stack \in Stacks /\ r \in Runs \ begun /\ begun \subseteq Runs /\ table \subseteq begun
      /\ control \in [Runs -> Controls] /\ r \notin Queued
  <2>1. r \notin Queued /\ r \in Runs
    BY RunsAssumption DEF Queued
  <2> QED
    BY <2>1, StacksTyped DEF IInv, TypeOK, Begin, Put
<1>1. /\ ~Armed(r) /\ ~Waiting(r) /\ control[r] = NewControl(FALSE) /\ Drives(r) = 0
  <2>1. "enqueue" \notin DriveOps
    BY DEF DriveOps
  <2> QED
    BY <1>0, <2>1, UnbegunPauses, UnbegunNone DEF Drives
<1>2. /\ control' = control /\ begun' = begun \cup {r} /\ table' = table \cup {r}
      /\ UNCHANGED <<pauseVars, endVars, stopVars, turnVars>>
  BY <1>0, <1>1 DEF Begin, Put
<1>3. Idle(<<r, 1>>) /\ <<r, 1>> \in Threads /\ <<r, 1>> # Queuer
  BY <1>0, OwnThread, ThreadsDiffer DEF JInv, Goroutines, Goroutine, Idle
<1>4. PICK f : f = Frame("run", r, 1)
  OBVIOUS
<1>5. Carries(r, << f >>) /\ IsLive(f, r) /\ << f >> \in Calling
  <2>1. Carries(r, << f >>)
    <3>1. 1 \in Nat /\ r \in Runs
      BY <1>0
    <3>2. \A n \in Nat : Carries(r, << Frame("run", r, n) >>)
      BY <1>0, CarriesCalls
    <3> QED
      BY <1>4, <3>1, <3>2
  <2>2. IsLive(f, r)
    BY <1>4 DEF IsLive, Frame, LiveOps, DriveOps
  <2> QED
    BY <2>1, <2>2 DEF Carries
<1>6. PICK u \in Threads : u = <<r, 1>>
  BY <1>3
<1>7. Idle(u) /\ u # Queuer /\ Moved(u, << f >>, u, << >>)
  <2>1. stack' = Spawn(stack, r, << f >>)
    BY <1>4 DEF Begin
  <2> QED
    BY <1>0, <1>3, <1>5, <1>6, <2>1, SpawnStarts
<1>8. Going /\ Aside /\ Undecided
  BY <1>0, <1>2 DEF Going, Aside, Undecided, endVars, stopVars, turnVars
<1>9. EndsKept
  BY <1>2, <1>7, EndsMoved
<1>10. Fresh(u, << f >>)
  BY <1>0, <1>1, <1>2, <1>5, <1>6, FreshOne DEF NewControl
<1>11. \A q \in Runs : (Armed(q)' <=> Armed(q)) /\ (Waiting(q)' <=> Waiting(q))
  BY <1>2 DEF Armed, Waiting, pauseVars
<1>12. Owned(r)'
  <2>1. Drives(r)' = ((Drives(r) - Out(u, {r}, DriveOps)) + Tally(<< f >>, {r}, DriveOps))
                       + Tally(<< >>, {r}, DriveOps)
    BY <1>0, <1>7, DrivesMoved
  <2>2. Out(u, {r}, DriveOps) = 0 /\ Tally(<< >>, {r}, DriveOps) = 0
    BY <1>7, EmptyTally DEF Out
  <2>3. Tally(<< f >>, {r}, DriveOps) = 1
    BY <1>0, <1>5 DEF Carries, One
  <2>4. Drives(r)' = 1
    BY <1>1, <2>1, <2>2, <2>3
  <2>5. ~control'[r].queued /\ ~control'[r].settled /\ ~Armed(r)' /\ ~Waiting(r)'
    BY <1>0, <1>1, <1>2, <1>11 DEF NewControl
  <2> QED
    BY <2>4, <2>5 DEF Owned, One
<1>13. OwnedOnce'
  <2>1. About({r}, << f >>) /\ About({r}, << >>)
    BY <1>0, <1>5, CarriesAbout, AboutNone
  <2>2. \A q \in Runs \ {r} : /\ control'[q].queued = control[q].queued
                              /\ control'[q].settled = control[q].settled
                              /\ Ended(control[q]) => Ended(control'[q])
                              /\ Armed(q)' => Armed(q)
                              /\ Waiting(q)' => Waiting(q)
    BY <1>2, <1>11
  <2>3. (\A q \in begun' : q \in {r} => Owned(q)') /\ begun' \subseteq begun \cup {r}
    BY <1>2, <1>12
  <2> QED
    BY <1>7, <2>1, <2>2, <2>3, OwnedBut
<1>14. PausedOnce' /\ \A w \in waiters' : w.child \notin Queued
  <2>1. armed' = armed /\ waiters' = waiters
    BY <1>2 DEF pauseVars
  <2>2. PausedOnce /\ \A w \in waiters : w.child \notin Queued
    BY DEF JInv, ReleasedAfter
  <2> QED
    BY <2>1, <2>2 DEF PausedOnce
<1>15. Fine(<< f >>) /\ Tally(Rest(<< f >>), Runs, LiveOps) = 0
  BY <1>0, <1>5, CarriesLive DEF Carries
<1> QED
  BY <1>7, <1>8, <1>9, <1>10, <1>13, <1>14, <1>15, NoneMore, KeptBut

LEMMA SweepKeeps ==
    ASSUME IInv, JInv, Sweep
    PROVE  JInv'
<1>1. PICK i \in 1..Len(stamped) : /\ table' = table \ {stamped[i]}
                                   /\ control' = [control EXCEPT ![stamped[i]].done = TRUE]
  BY DEF Sweep, Evictable
<1>2. PICK r \in SettledRuns : r = stamped[i]
  BY <1>1 DEF IInv, StampedInv
<1>3. r \in begun /\ begun \subseteq Runs /\ control[r].settled
  BY <1>2 DEF SettledRuns, IInv, TypeOK
<1>4. UNCHANGED <<begun, pauseVars, stack, endVars, stopVars, turnVars>>
  BY DEF Sweep
<1>5. \A q \in Runs : /\ control'[q].queued = control[q].queued
                      /\ control'[q].settled = control[q].settled
                      /\ control'[q].byStop = control[q].byStop
                      /\ control'[q].cancelRequested = control[q].cancelRequested
                      /\ control'[q].stopped = control[q].stopped
  <2>1. control \in [Runs -> Controls] /\ control' = [control EXCEPT ![r].done = TRUE]
    BY <1>1, <1>2 DEF IInv, TypeOK
  <2> QED
    BY <1>3, <2>1 DEF Controls
<1>6. /\ OwnedOnce' /\ PausedOnce' /\ LiveOnTop' /\ Goroutines' /\ TurnsOnce'
      /\ TurnOwned' /\ TurnAlone' /\ ReleasedAfter'
  BY <1>4, <1>5, Still DEF pauseVars, endVars, stopVars
<1>7. EvictedSettled'
  BY <1>1, <1>2, <1>3, <1>4, <1>5 DEF JInv, EvictedSettled
<1>8. SettlesCounted'
  <2>1. stop.seen \subseteq Runs
    BY DEF IInv, TypeOK
  <2>2. \A q \in Runs : Records(q)' = Records(q)
    BY <1>4 DEF Records
  <2> QED
    BY <1>4, <1>5, <2>1, <2>2 DEF JInv, SettlesCounted, endVars, stopVars
<1> QED
  BY <1>6, <1>7, <1>8 DEF JInv

(***************************************************************************)
(* The theorems                                                            *)
(***************************************************************************)
LEMMA InitOwners == Init => JInv
<1> SUFFICES ASSUME Init PROVE JInv
  OBVIOUS
<1>0. /\ \A t \in Threads : stack[t] = << >>
      /\ table = {} /\ begun = {} /\ armed = {}
      /\ waiters = {} /\ settling = 0 /\ stop.at = "running" /\ stop.seen = {}
      /\ \A r \in Runs : recorded[r] = << >> /\ control[r] = NewControl(FALSE)
  BY DEF Init
<1>1. stack \in Stacks /\ stack = [t \in Threads |-> << >>]
  BY DEF Init, Stacks, Calling
<1>2. \A R, ops : Number(stack, R, ops) = 0
  <2> SUFFICES ASSUME NEW R, NEW ops PROVE Number(stack, R, ops) = 0
    OBVIOUS
  <2>1. \A t \in Threads : Len(stack[t]) = 0
    BY <1>0
  <2> QED
    BY <1>1, <2>1, NumberNone
<1>3. EvictedSettled /\ OwnedOnce /\ PausedOnce /\ TurnOwned
  <2>1. begun \ table = {} /\ \A r \in begun : FALSE
    BY <1>0
  <2>2. EvictedSettled /\ OwnedOnce /\ TurnOwned
    BY <2>1 DEF EvictedSettled, OwnedOnce, TurnOwned
  <2>3. PausedOnce
    BY <1>0 DEF PausedOnce
  <2> QED
    BY <2>2, <2>3
<1>4. LiveOnTop
  <2>1. \A t \in Threads : Below(t) = << >>
    BY <1>0 DEF Below, Rest
  <2> QED
    BY <2>1, EmptyTally DEF LiveOnTop
<1>5. Goroutines
  <2>1. \A r \in Runs, k \in {1, 2} : stack[<<r, k>>] = << >>
    BY <1>0, OwnThread
  <2> QED
    BY <1>0, <2>1 DEF Goroutines, Goroutine, Bare
<1>6. TurnsOnce
  <2>1. \A t \in Threads : Tally(stack[t], Runs, QueueOps) = 0
    BY <1>0, EmptyTally
  <2>2. \A r \in Runs : ~control[r].queued /\ Turned(r) = 0
    BY <1>0, <1>2 DEF NewControl, Turned
  <2> QED
    BY <1>2, <2>1, <2>2 DEF TurnsOnce
<1>7. TurnAlone
  <2>1. \A r \in Turning : r \in begun
    BY DEF Turning
  <2>2. \A r \in Turning : FALSE
    BY <1>0, <2>1
  <2> QED
    BY <2>2 DEF TurnAlone
<1>8. SettlesCounted
  BY <1>0, <1>2 DEF SettlesCounted, NewControl
<1>9. ReleasedAfter
  <2>1. \A t \in Threads : Follows(stack[t], Recorded \cup Queued)
    BY <1>0 DEF Follows
  <2>2. stack \in [Threads -> Seq(Sound(Recorded, ByStop))]
    BY <1>1
  <2> QED
    BY <1>0, <2>1, <2>2 DEF ReleasedAfter
<1> QED
  BY <1>3, <1>4, <1>5, <1>6, <1>7, <1>8, <1>9 DEF JInv

LEMMA UnchangedOwners ==
    ASSUME IInv, JInv, UNCHANGED vars
    PROVE  JInv'
<1>1. /\ OwnedOnce' /\ PausedOnce' /\ LiveOnTop' /\ Goroutines' /\ TurnsOnce'
      /\ TurnOwned' /\ TurnAlone' /\ ReleasedAfter'
  BY Still DEF vars, turnVars
<1>2. EvictedSettled'
  BY DEF JInv, EvictedSettled, vars
<1>3. SettlesCounted'
  <2>1. \A q \in Runs : Records(q)' = Records(q)
    BY DEF Records, vars
  <2> QED
    BY <2>1 DEF JInv, SettlesCounted, vars
<1> QED
  BY <1>1, <1>2, <1>3 DEF JInv

LEMMA ThreadOwners ==
    ASSUME IInv, JInv, NEW t \in Threads, ThreadStep(t)
    PROVE  JInv'
<1>1. CASE Enqueue(t)
  BY <1>1, EnqueueKeeps
<1>2. CASE TurnRefused(t)
  BY <1>2, TurnRefusedStep
<1>3. CASE TurnSkipped(t) \/ TurnEnds(t)
  BY <1>3, TurnOverSteps
<1>4. CASE TurnStarts(t)
  BY <1>4, TurnStartsKeeps
<1>5. CASE Signal(t)
  BY <1>5, SignalStep
<1>6. CASE \/ StopIfCancelled(t) \/ RunCompletes(t) \/ RunFails(t) \/ TaskSkipped(t)
           \/ ActionStarts(t) \/ ActionAbandoned(t)
  BY <1>6, TaskPasses
<1>7. CASE \/ WaitReached(t) \/ ArmRefused(t) \/ ResumeWaitStopped(t) \/ ResumeWait(t)
           \/ Reenter(t)
  BY <1>7, WaitPasses
<1>8. CASE ArmWait(t) \/ Register(t)
  BY <1>8, PauseSteps
<1>9. CASE SubWorkflowReached(t) \/ SubWorkflowDetached(t)
  BY <1>9, SubWorkflowSteps
<1>10. CASE RegisterRefused(t) \/ AbandonParent(t) \/ ResumeParent(t)
  BY <1>10, ParentPasses
<1>11. CASE ReleaseNobody(t)
  BY <1>11, ReleaseNobodyStep
<1>12. CASE Release(t)
  BY <1>12, ReleaseTakes
<1>13. CASE CancelChild(t)
  BY <1>13, CancelChildStep
<1>14. CASE Abandon(t)
  BY <1>14, AbandonSteps
<1>15. CASE ClaimWait(t)
  BY <1>15, ClaimWaitTakes, ClaimNothing
<1>16. CASE ClaimWaiter(t)
  BY <1>16, ClaimWaiterTakes, ClaimNothing
<1>17. CASE Count(t)
  BY <1>17, CountKeeps
<1>18. CASE Claim(t)
  BY <1>18, ClaimsAgain, ClaimsFirst
<1>19. CASE Record(t)
  BY <1>19, RecordKeeps
<1> QED
  BY <1>1, <1>2, <1>3, <1>4, <1>5, <1>6, <1>7, <1>8, <1>9, <1>10, <1>11, <1>12, <1>13, <1>14,
     <1>15, <1>16, <1>17, <1>18, <1>19 DEF ThreadStep

LEMMA NextOwners == IInv /\ JInv /\ [Next]_vars => JInv'
<1> SUFFICES ASSUME IInv, JInv, [Next]_vars PROVE JInv'
  OBVIOUS
<1>1. ASSUME NEW t \in Threads, ThreadStep(t) PROVE JInv'
  BY <1>1, ThreadOwners
<1>2. CASE StopStep
  BY <1>2, StopSteps, AbandonNextStep DEF StopStep
<1>3. ASSUME NEW r \in TopLevel, Begin(r) PROVE JInv'
  BY <1>3, BeginKeeps
<1>4. ASSUME NEW r \in Cancels, Cancel(r) PROVE JInv'
  BY <1>4, CancelStep
<1>5. CASE OrderedEvent
  BY <1>5, OrderedEventStep
<1>6. ASSUME NEW w \in armed, WaitEnds(w) PROVE JInv'
  BY <1>6, WaitEndsTakes
<1>7. ASSUME NEW t \in Threads, ActionReturns(t) PROVE JInv'
  BY <1>7, TaskPasses
<1>8. CASE StopCalled
  BY <1>8, StopSteps
<1>9. CASE Sweep
  BY <1>9, SweepKeeps
<1>10. CASE UNCHANGED vars
  BY <1>10, UnchangedOwners
<1> QED
  BY <1>1, <1>2, <1>3, <1>4, <1>5, <1>6, <1>7, <1>8, <1>9, <1>10 DEF Next, Environment

\* JInv is an invariant of the engine: together with what is known of the pending
\* calls (IInv) it is kept by every step.
THEOREM OwnersInvariance == Spec => []JInv
<1>1. Spec => []IInv /\ [][Next]_vars
  BY Invariance, PTL DEF Spec
<1>2. JInv /\ []IInv /\ [][Next]_vars => []JInv
  BY NextOwners, PTL
<1> QED
  BY <1>1, <1>2, InitOwners, PTL DEF Spec

\* However its turn comes, is cancelled or is abandoned (startQueued, Cancel, Stop),
\* a queued run is never left without somebody who will start it or settle it.
THEOREM QueuedRunsOwned == Spec => []QueuedOwned
<1>1. IInv /\ JInv => QueuedOwned
  <2> SUFFICES ASSUME IInv, JInv, NEW r \in begun, ~control[r].settled, control[r].queued
               PROVE  IF control[r].cancelRequested \/ control[r].stopped
                      THEN Frames(r, {"abandon", "count", "claim"}) # {}
                      ELSE At(Queuer, "enqueue") \/ Frames(r, {"turn"}) # {}
    BY DEF QueuedOwned
  <2>1. stack \in Stacks
    BY StacksTyped
  <2>2. \A ops : Number(stack, {r}, ops) # 0 => Frames(r, ops) # {}
    BY FramesCounted, FS_EmptySet DEF Number
  <2>3. IF control[r].cancelRequested \/ control[r].stopped
        THEN Ending(r) # 0 ELSE At(Queuer, "enqueue") \/ Turned(r) # 0
    BY DEF JInv, TurnOwned
  <2> QED
    BY <2>2, <2>3 DEF Ending, Turned
<1> QED
  BY <1>1, Invariance, OwnersInvariance, PTL

\* executeInOrder gives the runs of an event their turns one at a time, whatever is
\* cancelled, stopped or overruns meanwhile.
THEOREM TurnsAlone == Spec => []OneTurn
<1>1. JInv => OneTurn
  <2> SUFFICES ASSUME JInv PROVE Cardinality(Turning) <= 1
    BY DEF OneTurn, Turning
  <2>1. CASE Turning = {}
    BY <2>1, FS_EmptySet
  <2>2. CASE Turning # {}
    <3>1. PICK r : r \in Turning
      BY <2>2
    <3>2. Turning = {r}
      BY <3>1 DEF JInv, TurnAlone
    <3> QED
      BY <3>2, FS_Singleton
  <2> QED
    BY <2>1, <2>2
<1> QED
  BY <1>1, OwnersInvariance, PTL

\* checkSubWorkflowCompletion comes after the outcome is written down, on every path
\* that ends a run, so a parent resumed by it finds one; and the child was not
\* abandoned by Stop.
THEOREM ResumesInformed == Spec => []ResumeReadsOutcome
<1>1. JInv => ResumeReadsOutcome
  <2> SUFFICES ASSUME JInv, NEW t \in Threads, NEW i \in 1..Len(stack[t]),
                      stack[t][i].op = "resumeParent"
               PROVE  LET c == stack[t][i].arg.child IN recorded[c] # << >> /\ ~control[c].byStop
    BY DEF ResumeReadsOutcome
  <2>1. PICK s \in Seq(Sound(Recorded, ByStop)) : s = stack[t]
    BY DEF JInv, ReleasedAfter
  <2>2. s[i] \in Sound(Recorded, ByStop)
    BY <2>1
  <2>3. stack[t][i].arg.child \in Recorded \ ByStop
    BY <2>1, <2>2 DEF Sound
  <2> QED
    BY <2>3 DEF Recorded, ByStop
<1> QED
  BY <1>1, OwnersInvariance, PTL

\* When Stop returns satisfied, every run its last look saw has a recorded outcome:
\* settling is raised before an outcome is claimed and lowered once it is recorded.
THEOREM StopComplete == Spec => []StopLeavesNothing
<1>1. JInv => StopLeavesNothing
  BY DEF JInv, SettlesCounted, StopLeavesNothing
<1> QED
  BY <1>1, OwnersInvariance, PTL

\* A set of one element at most.
LEMMA OneOrNone ==
    ASSUME NEW S, \A x, y \in S : x = y
    PROVE  Cardinality(S) = One(S # {})
<1>1. CASE S = {}
  BY <1>1, FS_EmptySet DEF One
<1>2. CASE S # {}
  <2>1. PICK x : x \in S
    BY <1>2
  <2>2. S = {x}
    BY <2>1
  <2> QED
    BY <1>2, <2>2, FS_Singleton DEF One
<1> QED
  BY <1>1, <1>2

\* "Whoever removes it owns the resume, and the others back off" (armWaitLocked), for
\* runs that are not queued: a thread that drives the run, an armed wait and a
\* registration on a sub-workflow exclude each other, there is never a second of any,
\* and a settled run has none.
AtMostOneOwner ==
    \A r \in begun : ~control[r].queued =>
        Cardinality(Frames(r, DriveOps)) + Cardinality({w \in armed : w.run = r})
            + Cardinality({w \in waiters : w.parent = r})
          <= IF control[r].settled THEN 0 ELSE 1

\* One owner at a time: every hand-over of a run (finishAndNext, onEvent, onTimeout,
\* the release of a parent) removes the old owner in the step that makes the new one.
THEOREM OneOwner == Spec => []AtMostOneOwner
<1>1. IInv /\ JInv => AtMostOneOwner
  <2> SUFFICES ASSUME IInv, JInv, NEW r \in begun, ~control[r].queued
               PROVE  Cardinality(Frames(r, DriveOps)) + Cardinality({w \in armed : w.run = r})
                        + Cardinality({w \in waiters : w.parent = r})
                        <= IF control[r].settled THEN 0 ELSE 1
    BY DEF AtMostOneOwner
  <2>1. Cardinality(Frames(r, DriveOps)) = Drives(r) /\ Drives(r) \in Nat
    BY FramesCounted, StacksTyped, NumberNat DEF Drives, Number
  <2>2. Cardinality({w \in armed : w.run = r}) = One(Armed(r))
    <3>1. PICK S : S = {w \in armed : w.run = r}
      OBVIOUS
    <3>2. \A x, y \in S : x = y
      BY <3>1 DEF JInv, PausedOnce
    <3>3. S # {} <=> Armed(r)
      BY <3>1 DEF Armed
    <3> QED
      BY <3>1, <3>2, <3>3, OneOrNone DEF One
  <2>3. Cardinality({w \in waiters : w.parent = r}) = One(Waiting(r))
    <3>1. PICK S : S = {w \in waiters : w.parent = r}
      OBVIOUS
    <3>2. \A x, y \in S : x = y
      BY <3>1 DEF JInv, PausedOnce
    <3>3. S # {} <=> Waiting(r)
      BY <3>1 DEF Waiting
    <3> QED
      BY <3>1, <3>2, <3>3, OneOrNone DEF One
  <2>4. Drives(r) + One(Armed(r)) + One(Waiting(r)) <= One(~control[r].settled)
    BY DEF JInv, OwnedOnce, Owned
  <2> QED
    BY <2>1, <2>2, <2>3, <2>4 DEF One
<1> QED
  BY <1>1, Invariance, OwnersInvariance, PTL
=============================================================================
