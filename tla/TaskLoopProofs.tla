---------------------------- MODULE TaskLoopProofs ----------------------------
(* The order of a workflow's tasks and what holds of their run, for any        *)
(* definition, number of tasks, limit and outcome.                             *)
EXTENDS TaskLoop, FiniteSetTheorems, WellFoundedInduction, TLAPS

(***************************************************************************)
(* Numbers and recursion                                                   *)
(***************************************************************************)
\* The numbers of a set that is not empty have a least one.
LEMMA LeastExists ==
    ASSUME NEW B \in SUBSET Nat, B # {}
    PROVE  \E n \in B : \A m \in B : n <= m
<1> DEFINE Before == {ss \in Nat \X Nat : ss[1] < ss[2]}
<1>1. IsWellFoundedOn(Before, Nat)
  BY NatLessThanWellFounded DEF OpToRel
<1> HIDE DEF Before
<1>2. PICK n \in B : \A m \in B : ~(<<m, n>> \in Before)
  BY <1>1, WFMin, Zenon
<1>3. \A m \in B : ~(m < n)
  BY <1>2 DEF Before
<1> QED
  BY <1>3

LEMMA LeastIs ==
    ASSUME NEW B \in SUBSET Nat, B # {}
    PROVE  Least(B) \in B /\ \A m \in B : Least(B) <= m
BY LeastExists DEF Least

\* f starts with a, and g takes each value to the next.
Runs(f, n, a, g) == f[0] = a /\ \A i \in 1..n : f[i] = g[<<f[i - 1], i>>]

\* There is such a function.
LEMMA RunsExists ==
    ASSUME NEW X, NEW a \in X, NEW N \in Nat, NEW g \in [X \X (1..N) -> X]
    PROVE  \E f \in [0..N -> X] : Runs(f, N, a, g)
<1> DEFINE Not == {n \in 0..N : \A f \in [0..n -> X] : ~Runs(f, n, a, g)}
<1> SUFFICES ASSUME Not # {} PROVE FALSE
  OBVIOUS
<1>1. PICK n \in Not : \A m \in Not : n <= m
  <2>1. Not \in SUBSET Nat
    OBVIOUS
  <2> HIDE DEF Not
  <2> QED
    BY <2>1, LeastExists
<1>2. CASE n = 0
  <2>1. [i \in 0..0 |-> a] \in [0..0 -> X] /\ Runs([i \in 0..0 |-> a], 0, a, g)
    BY DEF Runs
  <2> QED
    BY <1>2, <2>1
<1>3. CASE n # 0
  <2>1. n \in 1..N /\ n - 1 \in 0..N /\ n - 1 \notin Not
    BY <1>1, <1>3
  <2>2. PICK f \in [0..(n - 1) -> X] : Runs(f, n - 1, a, g)
    BY <2>1
  <2> DEFINE h == [i \in 0..n |-> IF i = n THEN g[<<f[n - 1], n>>] ELSE f[i]]
  <2>3. f[n - 1] \in X /\ g[<<f[n - 1], n>>] \in X
    BY <2>1
  <2>4. h \in [0..n -> X]
    BY <2>1, <2>3
  <2>5. \A i \in 0..(n - 1) : h[i] = f[i]
    BY <2>1
  <2>6. h[n] = g[<<h[n - 1], n>>]
    <3>1. n - 1 \in 0..(n - 1) /\ n \in 0..n
      BY <2>1
    <3>2. h[n - 1] = f[n - 1] /\ h[n] = g[<<f[n - 1], n>>]
      BY <2>5, <3>1
    <3> QED
      BY <3>2
  <2> HIDE DEF h
  <2>7. Runs(h, n, a, g)
    <3>1. h[0] = a
      BY <2>1, <2>2, <2>5 DEF Runs
    <3>2. \A i \in 1..(n - 1) : h[i] = g[<<h[i - 1], i>>]
      <4> TAKE i \in 1..(n - 1)
      <4>1. i \in 0..(n - 1) /\ i - 1 \in 0..(n - 1)
        BY <2>1
      <4> QED
        BY <2>2, <2>5, <4>1 DEF Runs
    <3>3. \A i \in 1..n : i \in 1..(n - 1) \/ i = n
      BY <2>1
    <3> QED
      BY <2>6, <3>1, <3>2, <3>3 DEF Runs
  <2> QED
    BY <2>4, <2>7
<1> QED
  BY <1>2, <1>3

\* What takes the same steps keeps to the same values.
LEMMA RunsTyped ==
    ASSUME NEW X, NEW a \in X, NEW N \in Nat, NEW g \in [X \X (1..N) -> X],
           NEW f, f[0] = a,
           \A i \in 1..N : f[i - 1] \in X => f[i] = g[<<f[i - 1], i>>]
    PROVE  \A n \in 0..N : f[n] \in X
<1> DEFINE Not == {n \in 0..N : f[n] \notin X}
<1>1. Not = {}
  <2> SUFFICES ASSUME Not # {} PROVE FALSE
    OBVIOUS
  <2>1. PICK n \in Not : \A m \in Not : n <= m
    <3>1. Not \in SUBSET Nat
      OBVIOUS
    <3> HIDE DEF Not
    <3> QED
      BY <3>1, LeastExists
  <2>2. n # 0
    BY <2>1
  <2>3. n \in 1..N /\ n - 1 \in 0..N /\ n - 1 \notin Not
    BY <2>1, <2>2
  <2>4. f[n - 1] \in X
    BY <2>3
  <2> QED
    BY <2>1, <2>3, <2>4
<1> QED
  BY <1>1

(***************************************************************************)
(* What a task waits for, directly or through others                       *)
(***************************************************************************)
Graph(T) == [T -> SUBSET T]
Closed(need, S) == \A s \in S : need[s] \subseteq S

\* One step further up.
Further(need, S) == S \cup UNION {need[s] : s \in S}

LEMMA ReachSteps ==
    ASSUME NEW T, IsFiniteSet(T), NEW need \in Graph(T), NEW t \in T
    PROVE  \E up \in [0..Cardinality(T) -> SUBSET T] :
              /\ up[0] = need[t]
              /\ \A k \in 1..Cardinality(T) : up[k] = Further(need, up[k - 1])
              /\ Reach(need, t) = up[Cardinality(T)]
<1> DEFINE N == Cardinality(T)
           Is(f) == f = [k \in 0..N |-> IF k = 0 THEN need[t]
                                        ELSE f[k - 1] \cup UNION {need[s] : s \in f[k - 1]}]
           g == [p \in (SUBSET T) \X (1..N) |-> Further(need, p[1])]
<1>1. N \in Nat /\ DOMAIN need = T /\ need[t] \in SUBSET T
  BY FS_CardinalityType DEF Graph
<1>2. \A S \in SUBSET T : Further(need, S) \in SUBSET T
  BY DEF Graph, Further
<1>3. g \in [(SUBSET T) \X (1..N) -> SUBSET T]
  BY <1>2
<1>4. \A S \in SUBSET T, k \in 1..N : g[<<S, k>>] = Further(need, S)
  OBVIOUS
<1> HIDE DEF N, g
<1>5. PICK h \in [0..N -> SUBSET T] : Runs(h, N, need[t], g)
  BY <1>1, <1>3, RunsExists
<1>6. Is(h)
  <2>1. \A k \in 0..N : h[k] = IF k = 0 THEN need[t]
                               ELSE h[k - 1] \cup UNION {need[s] : s \in h[k - 1]}
    <3> TAKE k \in 0..N
    <3>1. CASE k = 0
      BY <1>5, <3>1 DEF Runs
    <3>2. CASE k # 0
      <4>1. k \in 1..N /\ k - 1 \in 0..N
        BY <1>1, <3>2
      <4>2. h[k] = g[<<h[k - 1], k>>] /\ h[k - 1] \in SUBSET T
        BY <1>5, <4>1 DEF Runs
      <4>3. h[k] = Further(need, h[k - 1])
        BY <1>4, <4>1, <4>2
      <4> QED
        BY <3>2, <4>3 DEF Further
    <3> QED
      BY <3>1, <3>2
  <2> QED
    BY <2>1
<1> DEFINE F == CHOOSE f : Is(f)
<1>7. Is(F)
  BY <1>6
<1>8. Reach(need, t) = F[N]
  BY <1>1 DEF Reach, N
<1> HIDE DEF F
<1>9. \A k \in 0..N : F[k] = IF k = 0 THEN need[t]
                             ELSE F[k - 1] \cup UNION {need[s] : s \in F[k - 1]}
  BY <1>7
<1>10. DOMAIN F = 0..N /\ F = [k \in 0..N |-> F[k]]
  BY <1>7
<1> HIDE DEF Is
<1>11. F[0] = need[t] /\ \A k \in 1..N : F[k] = Further(need, F[k - 1])
  <2>1. 0 \in 0..N /\ \A k \in 1..N : k \in 0..N /\ k # 0
    BY <1>1
  <2> QED
    BY <1>9, <2>1 DEF Further
<1>12. \A k \in 1..N : F[k - 1] \in SUBSET T => F[k] = g[<<F[k - 1], k>>]
  BY <1>4, <1>11
<1>13. F[0] = need[t]
  BY <1>11
<1>14. F \in [0..N -> SUBSET T]
  <2> DEFINE X == SUBSET T
             a == need[t]
  <2>1. /\ a \in X /\ N \in Nat /\ g \in [X \X (1..N) -> X] /\ F[0] = a
        /\ \A k \in 1..N : F[k - 1] \in X => F[k] = g[<<F[k - 1], k>>]
    BY <1>1, <1>3, <1>12, <1>13
  <2> HIDE DEF X, a
  <2>2. \A k \in 0..N : F[k] \in X
    BY <2>1, RunsTyped
  <2>3. F \in [0..N -> X]
    BY <1>10, <2>2
  <2> QED
    BY <2>3 DEF X
<1> QED
  BY <1>8, <1>11, <1>14 DEF N

\* It is all that t waits for, and what that waits for; and the least such set.
LEMMA ReachIs ==
    ASSUME NEW T, IsFiniteSet(T), NEW need \in Graph(T), NEW t \in T
    PROVE  /\ Reach(need, t) \in SUBSET T
           /\ need[t] \subseteq Reach(need, t)
           /\ Closed(need, Reach(need, t))
           /\ \A C : need[t] \subseteq C /\ Closed(need, C) => Reach(need, t) \subseteq C
<1> DEFINE N == Cardinality(T)
<1>1. PICK up \in [0..N -> SUBSET T] :
         /\ up[0] = need[t]
         /\ \A k \in 1..N : up[k] = Further(need, up[k - 1])
         /\ Reach(need, t) = up[N]
  BY ReachSteps
<1>2. N \in Nat
  BY FS_CardinalityType
<1>3. \A S \in SUBSET T : IsFiniteSet(S) /\ Cardinality(S) \in Nat /\ Cardinality(S) <= N
                          /\ (Cardinality(S) = N => S = T)
  BY FS_Subset, FS_CardinalityType
<1>4. \A R, S \in SUBSET T : R \subseteq S /\ R # S => Cardinality(R) < Cardinality(S)
  <2> SUFFICES ASSUME NEW R \in SUBSET T, NEW S \in SUBSET T, R \subseteq S, R # S
               PROVE  Cardinality(R) < Cardinality(S)
    OBVIOUS
  <2>1. IsFiniteSet(S) /\ Cardinality(R) <= Cardinality(S) /\ Cardinality(R) # Cardinality(S)
    BY <1>3, FS_Subset
  <2> QED
    BY <1>3, <2>1
<1> HIDE DEF N
\* It grows by a member each time, or no more.
<1>5. \A k \in 0..N : Closed(need, up[k]) \/ k <= Cardinality(up[k])
  <2> DEFINE Not == {k \in 0..N : ~(Closed(need, up[k]) \/ k <= Cardinality(up[k]))}
  <2> SUFFICES ASSUME Not # {} PROVE FALSE
    OBVIOUS
  <2>1. PICK k \in Not : \A m \in Not : k <= m
    <3>1. Not \in SUBSET Nat
      OBVIOUS
    <3> HIDE DEF Not
    <3> QED
      BY <3>1, LeastExists
  <2>2. up[k] \in SUBSET T /\ Cardinality(up[k]) \in Nat
    BY <1>3
  <2>3. k # 0
    BY <2>1, <2>2
  <2>4. k \in 1..N /\ k - 1 \in 0..N /\ k - 1 \notin Not
    BY <1>2, <2>1, <2>3
  <2>5. up[k] = Further(need, up[k - 1]) /\ up[k - 1] \in SUBSET T
    BY <1>1, <2>4
  <2>6. CASE Closed(need, up[k - 1])
    <3>1. up[k] = up[k - 1]
      BY <2>5, <2>6 DEF Closed, Further
    <3> QED
      BY <2>1, <2>6, <3>1
  <2>7. CASE ~Closed(need, up[k - 1]) /\ k - 1 <= Cardinality(up[k - 1])
    <3>1. up[k - 1] \subseteq up[k]
      BY <2>5 DEF Further
    <3>2. up[k - 1] # up[k]
      BY <2>5, <2>7 DEF Closed, Further
    <3>3. Cardinality(up[k - 1]) < Cardinality(up[k]) /\ Cardinality(up[k - 1]) \in Nat
      BY <1>3, <1>4, <2>2, <2>5, <3>1, <3>2
    <3>4. k <= Cardinality(up[k])
      BY <2>2, <2>4, <2>7, <3>3
    <3> QED
      BY <2>1, <3>4
  <2> QED
    BY <2>4, <2>6, <2>7
<1>6. up[N] \in SUBSET T /\ N \in 0..N /\ 0 \in 0..N
  BY <1>2
<1>7. Closed(need, up[N])
  <2> SUFFICES ASSUME N <= Cardinality(up[N]) PROVE Closed(need, up[N])
    BY <1>5, <1>6
  <2>1. up[N] = T
    BY <1>2, <1>3, <1>6
  <2> QED
    BY <2>1 DEF Closed, Graph
<1>8. \A k \in 0..N : need[t] \subseteq up[k]
  <2> DEFINE Not == {k \in 0..N : ~(need[t] \subseteq up[k])}
  <2> SUFFICES ASSUME Not # {} PROVE FALSE
    OBVIOUS
  <2>1. PICK k \in Not : \A m \in Not : k <= m
    <3>1. Not \in SUBSET Nat
      OBVIOUS
    <3> HIDE DEF Not
    <3> QED
      BY <3>1, LeastExists
  <2>2. k # 0
    BY <1>1, <2>1
  <2>3. k \in 1..N /\ k - 1 \in 0..N /\ k - 1 \notin Not
    BY <1>2, <2>1, <2>2
  <2>4. need[t] \subseteq up[k - 1] /\ up[k] = Further(need, up[k - 1])
    BY <1>1, <2>3
  <2> QED
    BY <2>1, <2>4 DEF Further
<1>9. ASSUME NEW C, need[t] \subseteq C, Closed(need, C) PROVE up[N] \subseteq C
  <2> DEFINE Not == {k \in 0..N : ~(up[k] \subseteq C)}
  <2> SUFFICES ASSUME Not # {} PROVE FALSE
    BY <1>6
  <2>1. PICK k \in Not : \A m \in Not : k <= m
    <3>1. Not \in SUBSET Nat
      OBVIOUS
    <3> HIDE DEF Not
    <3> QED
      BY <3>1, LeastExists
  <2>2. k # 0
    BY <1>1, <1>9, <2>1
  <2>3. k \in 1..N /\ k - 1 \in 0..N /\ k - 1 \notin Not
    BY <1>2, <2>1, <2>2
  <2>4. up[k - 1] \subseteq C /\ up[k] = Further(need, up[k - 1])
    BY <1>1, <2>3
  <2> QED
    BY <1>9, <2>1, <2>4 DEF Further, Closed
<1> QED
  BY <1>1, <1>6, <1>7, <1>8, <1>9

\* No task waits for itself.
Acyclic(T, need) == \A t \in T : t \notin Reach(need, t)

\* What a task waits for is not waited for by it in turn; and nothing waits for
\* more than what it waits for through another.
LEMMA ReachPasses ==
    ASSUME NEW T, IsFiniteSet(T), NEW need \in Graph(T), NEW t \in T, NEW s \in Reach(need, t)
    PROVE  s \in T /\ Reach(need, s) \subseteq Reach(need, t)
<1>1. s \in T /\ Closed(need, Reach(need, t))
  BY ReachIs
<1>2. need[s] \subseteq Reach(need, t)
  BY <1>1 DEF Closed
<1> QED
  BY <1>1, <1>2, ReachIs

\* More dependencies, more upstream.
LEMMA ReachGrows ==
    ASSUME NEW T, IsFiniteSet(T), NEW need \in Graph(T), NEW more \in Graph(T),
           \A t \in T : need[t] \subseteq more[t], NEW t \in T
    PROVE  Reach(need, t) \subseteq Reach(more, t)
<1>1. /\ Reach(more, t) \in SUBSET T /\ more[t] \subseteq Reach(more, t)
      /\ Closed(more, Reach(more, t))
  BY ReachIs
<1>2. need[t] \subseteq Reach(more, t) /\ Closed(need, Reach(more, t))
  BY <1>1 DEF Closed
<1> QED
  BY <1>2, ReachIs

\* A set of tasks that is not empty has one that waits for none of them.
LEMMA SomeIsReady ==
    ASSUME NEW T, IsFiniteSet(T), NEW need \in Graph(T), Acyclic(T, need),
           NEW Q \in SUBSET T, Q # {}
    PROVE  \E t \in Q : need[t] \cap Q = {}
<1> DEFINE size(t) == Cardinality(Reach(need, t))
           Sizes == {size(t) : t \in Q}
<1>1. \A t \in T : IsFiniteSet(Reach(need, t)) /\ size(t) \in Nat
  <2> TAKE t \in T
  <2>1. Reach(need, t) \in SUBSET T
    BY ReachIs
  <2> QED
    BY <2>1, FS_Subset, FS_CardinalityType
<1>2. Sizes \in SUBSET Nat /\ Sizes # {}
  BY <1>1
<1>3. PICK k \in Sizes : \A m \in Sizes : k <= m
  BY <1>2, LeastExists
<1>4. PICK t \in Q : k = size(t)
  BY <1>3
<1>5. ASSUME NEW s \in need[t], s \in Q PROVE FALSE
  <2>1. s \in Reach(need, t)
    BY ReachIs
  <2>2. s \in T /\ Reach(need, s) \subseteq Reach(need, t) /\ s \notin Reach(need, s)
    BY <2>1, ReachPasses DEF Acyclic
  <2>3. size(s) <= size(t) /\ size(s) # size(t)
    BY <1>1, <2>1, <2>2, FS_Subset
  <2>4. size(t) <= size(s)
    BY <1>3, <1>4, <1>5
  <2> QED
    BY <1>1, <2>2, <2>3, <2>4
<1> QED
  BY <1>5

(***************************************************************************)
(* The dependencies that are enforced                                      *)
(***************************************************************************)
\* The condition and the task that step k of Dependencies is about.
CondOf(n, k) == 1 + ((k - 1) \div n)
TaskOf(n, k) == 1 + ((k - 1) % n)

\* Every pair has its step.
LEMMA PairPlace ==
    ASSUME NEW n \in Nat \ {0}, NEW c \in 1..n, NEW f \in 1..n
    PROVE  \E k \in 1..(n * n) : CondOf(n, k) = c /\ TaskOf(n, k) = f
<1> DEFINE x == n * (c - 1) + (f - 1)
           q == x \div n
           r == x % n
<1>1. n * (c - 1) \in Nat /\ x \in Nat
  OBVIOUS
<1>2. q \in Int /\ r \in 0..(n - 1) /\ x = n * q + r
  BY <1>1
<1>3. \A a, b \in Int : a < b => n * a + n <= n * b
  <2> TAKE a, b \in Int
  <2> HAVE a < b
  <2>1. n * (b - a - 1) \in Nat
    OBVIOUS
  <2>2. n * (b - a - 1) = n * b - n * a - n
    OBVIOUS
  <2> QED
    BY <2>1, <2>2
<1>4. n * q \in Int
  BY <1>2
<1>5. x = n * (c - 1) + (f - 1)
  OBVIOUS
<1> HIDE DEF x, q, r
<1>6. ~(q < c - 1)
  <2> SUFFICES ASSUME q < c - 1 PROVE FALSE
    OBVIOUS
  <2>1. n * q + n <= n * (c - 1)
    BY <1>2, <1>3
  <2> QED
    BY <1>1, <1>2, <1>4, <1>5, <2>1
<1>7. ~(c - 1 < q)
  <2> SUFFICES ASSUME c - 1 < q PROVE FALSE
    OBVIOUS
  <2>1. n * (c - 1) + n <= n * q
    BY <1>2, <1>3
  <2> QED
    BY <1>1, <1>2, <1>4, <1>5, <2>1
<1>8. q = c - 1
  BY <1>2, <1>6, <1>7
<1>9. r = f - 1
  BY <1>1, <1>2, <1>5, <1>8
<1>10. x + 1 \in 1..(n * n)
  <2>1. n * (c - 1) <= n * (n - 1)
    <3>1. CASE c = n
      BY <3>1
    <3>2. CASE c # n
      <4>1. n * (c - 1) + n <= n * (n - 1)
        BY <1>3, <3>2
      <4> QED
        BY <1>1, <4>1
    <3> QED
      BY <3>1, <3>2
  <2>2. n * (n - 1) = n * n - n /\ n * n \in Nat
    OBVIOUS
  <2> QED
    BY <1>1, <1>5, <2>1, <2>2
<1>11. CondOf(n, x + 1) = c /\ TaskOf(n, x + 1) = f
  <2>1. (x + 1) - 1 = x
    BY <1>1
  <2>2. 1 + q = c /\ 1 + r = f
    BY <1>8, <1>9
  <2> QED
    BY <2>1, <2>2 DEF q, r, CondOf, TaskOf
<1> QED
  BY <1>10, <1>11

\* What a definition is made of.
LEMMA DefinitionIs ==
    ASSUME NEW d, IsDefinition(d)
    PROVE  /\ Len(d.kind) \in Nat /\ Tasks(d) = 1..Len(d.kind)
           /\ IsFiniteSet(Tasks(d)) /\ Cardinality(Tasks(d)) = Len(d.kind)
           /\ Conditions(d) \in SUBSET Tasks(d)
           /\ Declared(d) \in Graph(Tasks(d))
           /\ \A t \in Tasks(d) : d.deps[t] \subseteq Declared(d)[t]
           /\ [t \in Tasks(d) |-> Branches(d, t)] \in Graph(Tasks(d))
           /\ \A c \in Tasks(d) : /\ d.onTrue[c] \in SUBSET Tasks(d) /\ d.onFalse[c] \in SUBSET Tasks(d)
                                  /\ Branches(d, c) \in SUBSET Tasks(d)
                                  /\ Under(d, c) \in SUBSET Tasks(d)
                                  /\ Branches(d, c) \subseteq Under(d, c)
                                  /\ \A m \in Under(d, c) : Branches(d, m) \subseteq Under(d, c)
                                  /\ \A m \in Branches(d, c) : c \in Conditions(d) /\ c \in Declared(d)[m]
           /\ \A c \in Tasks(d) : \A m \in Branches(d, c) : Under(d, m) \subseteq Under(d, c)
<1> DEFINE T == Tasks(d)
           B == [t \in T |-> Branches(d, t)]
<1>1. Len(d.kind) \in Nat /\ T = 1..Len(d.kind)
  BY DEF IsDefinition, Tasks
<1>2. IsFiniteSet(T) /\ Cardinality(T) = Len(d.kind)
  BY <1>1, FS_Interval
<1>3. Conditions(d) \in SUBSET T
  BY DEF Conditions
<1>4. \A c \in T : d.onTrue[c] \in SUBSET T /\ d.onFalse[c] \in SUBSET T /\ Branches(d, c) \in SUBSET T
  BY DEF IsDefinition, Branches
<1>5. d.deps \in Graph(T)
  BY DEF IsDefinition, Graph
<1>6. /\ Declared(d) \in Graph(T) /\ \A t \in T : d.deps[t] \subseteq Declared(d)[t]
      /\ \A c \in Conditions(d), m \in T : m \in Branches(d, c) => c \in Declared(d)[m]
  BY <1>3, <1>5 DEF Declared, Graph
<1>7. \A c \in T : \A m \in Branches(d, c) : c \in Conditions(d)
  BY DEF IsDefinition
<1>8. B \in Graph(T) /\ \A c \in T : B[c] = Branches(d, c) /\ Under(d, c) = Reach(B, c)
  BY <1>4 DEF Graph, Under
<1> HIDE DEF B
<1>9. \A c \in T : /\ Under(d, c) \in SUBSET T /\ Branches(d, c) \subseteq Under(d, c)
                   /\ \A m \in Under(d, c) : Branches(d, m) \subseteq Under(d, c)
  <2> TAKE c \in T
  <2>1. /\ Reach(B, c) \in SUBSET T /\ B[c] \subseteq Reach(B, c) /\ Closed(B, Reach(B, c))
    BY <1>2, <1>8, ReachIs
  <2> QED
    BY <1>8, <2>1 DEF Closed
<1>10. \A c \in T : \A m \in Branches(d, c) : Under(d, m) \subseteq Under(d, c)
  <2> TAKE c \in T
  <2> TAKE m \in Branches(d, c)
  <2>1. m \in T /\ m \in Reach(B, c)
    BY <1>4, <1>8, <1>9
  <2>2. Reach(B, m) \subseteq Reach(B, c)
    BY <1>2, <1>8, <2>1, ReachPasses
  <2> QED
    BY <1>8, <2>1, <2>2
<1> QED
  BY <1>1, <1>2, <1>3, <1>4, <1>6, <1>7, <1>8, <1>9, <1>10 DEF B

\* What is under a condition waits for it.
LEMMA UnderWaits ==
    ASSUME NEW d, IsDefinition(d), NEW c \in Tasks(d), NEW m \in Under(d, c)
    PROVE  m \in Tasks(d) /\ c \in Reach(Declared(d), m)
<1> DEFINE T == Tasks(d)
           W == {t \in T : c \in Reach(Declared(d), t)}
           B == [t \in T |-> Branches(d, t)]
<1>1. IsFiniteSet(T) /\ Declared(d) \in Graph(T) /\ B \in Graph(T)
  BY DefinitionIs
<1>2. \A s \in T : B[s] = Branches(d, s) /\ B[s] \in SUBSET T /\ \A t \in B[s] : s \in Declared(d)[t]
  BY DefinitionIs
<1>3. \A s \in T, t \in T : t \in B[s] => s \in Reach(Declared(d), t)
  <2> TAKE s \in T, t \in T
  <2> HAVE t \in B[s]
  <2>1. Declared(d)[t] \subseteq Reach(Declared(d), t)
    BY <1>1, ReachIs
  <2> QED
    BY <1>2, <2>1
<1>4. Under(d, c) = Reach(B, c)
  BY DEF Under
<1> HIDE DEF B
<1>5. B[c] \subseteq W
  BY <1>2, <1>3
<1>6. Closed(B, W)
  <2> SUFFICES ASSUME NEW s \in W, NEW t \in B[s] PROVE t \in W
    BY DEF Closed
  <2>1. t \in T /\ s \in Reach(Declared(d), t)
    BY <1>2, <1>3
  <2>2. Reach(Declared(d), s) \subseteq Reach(Declared(d), t)
    BY <1>1, <2>1, ReachPasses
  <2> QED
    BY <2>1, <2>2
<1> HIDE DEF W
<1>7. Reach(B, c) \subseteq W
  BY <1>1, <1>5, <1>6, ReachIs
<1> QED
  BY <1>4, <1>7 DEF W

\* A task that comes to wait for tasks which do not wait for it: nothing waits for
\* itself then either.
LEMMA WaitingForMore ==
    ASSUME NEW T, IsFiniteSet(T), NEW need \in Graph(T), Acyclic(T, need), NEW f \in T,
           NEW M \in SUBSET T, f \notin M, \A m \in M : f \notin Reach(need, m),
           NEW more \in Graph(T), more[f] = need[f] \cup M, \A t \in T \ {f} : more[t] = need[t]
    PROVE  Acyclic(T, more)
<1>1. \A t \in T : /\ Reach(need, t) \in SUBSET T /\ need[t] \subseteq Reach(need, t)
                   /\ Closed(need, Reach(need, t)) /\ t \notin Reach(need, t)
  BY ReachIs DEF Acyclic
<1>2. \A t \in T : \A s \in Reach(need, t) : s \in T /\ Reach(need, s) \subseteq Reach(need, t)
  BY ReachPasses
<1> DEFINE W == more[f] \cup UNION {Reach(need, m) : m \in more[f]}
<1>3. more[f] \in SUBSET T /\ more[f] \subseteq W
  BY DEF Graph
<1>4. \A m \in more[f] : m # f /\ f \notin Reach(need, m)
  <2> TAKE m \in more[f]
  <2>1. CASE m \in M
    BY <2>1
  <2>2. CASE m \in need[f]
    BY <1>1, <1>2, <2>2
  <2> QED
    BY <2>1, <2>2
<1>5. f \notin W
  BY <1>4
<1>6. W \in SUBSET T /\ \A s \in W : need[s] \subseteq W
  BY <1>1, <1>3 DEF Closed
<1>7. Closed(more, W)
  BY <1>5, <1>6 DEF Closed
<1>8. \A s \in W : \E m \in more[f] : s = m \/ s \in Reach(need, m)
  OBVIOUS
<1> HIDE DEF W
<1>9. Reach(more, f) \subseteq W
  BY <1>3, <1>7, ReachIs
<1>10. ASSUME NEW t \in T, t # f, t \in Reach(more, t) PROVE FALSE
  <2>1. more[t] = need[t]
    BY <1>10
  <2>2. CASE f \notin Reach(need, t)
    <3>1. Closed(more, Reach(need, t)) /\ more[t] \subseteq Reach(need, t)
      BY <1>1, <2>1, <2>2 DEF Closed
    <3>2. Reach(more, t) \subseteq Reach(need, t)
      BY <3>1, ReachIs
    <3> QED
      BY <1>1, <1>10, <3>2
  <2>3. CASE f \in Reach(need, t)
    <3> DEFINE V == Reach(need, t) \cup W
    <3>1. more[f] \subseteq V /\ Closed(more, V) /\ more[t] \subseteq V
      BY <1>1, <1>3, <1>6, <1>7, <2>1 DEF Closed
    <3> HIDE DEF V
    <3>2. Reach(more, t) \subseteq V
      BY <3>1, ReachIs
    <3>3. t \in W
      BY <1>1, <1>10, <3>2 DEF V
    <3>4. PICK m \in more[f] : t = m \/ t \in Reach(need, m)
      BY <1>8, <3>3
    <3>5. CASE m \in M
      <4>1. m \in T /\ f \in Reach(need, m)
        BY <1>2, <2>3, <3>4, <3>5
      <4> QED
        BY <3>5, <4>1
    <3>6. CASE m \in need[f]
      <4>1. m \in Reach(need, t)
        BY <1>1, <1>2, <2>3, <3>6
      <4>2. t \in Reach(need, t)
        BY <1>2, <3>4, <4>1
      <4> QED
        BY <1>1, <4>2
    <3> QED
      BY <3>5, <3>6
  <2> QED
    BY <2>2, <2>3
<1> QED
  BY <1>5, <1>9, <1>10 DEF Acyclic

\* One step of orderAfterBranches only adds, and leaves no task waiting for itself.
LEMMA FollowBranchesIs ==
    ASSUME NEW d, IsDefinition(d), NEW need \in Graph(Tasks(d)), NEW c, NEW f \in Tasks(d)
    PROVE  LET more == FollowBranches(d, need, c, f)
           IN  /\ more \in Graph(Tasks(d))
               /\ \A t \in Tasks(d) : need[t] \subseteq more[t]
               /\ Acyclic(Tasks(d), need) => Acyclic(Tasks(d), more)
               /\ c \in Conditions(d) /\ f # c /\ f \notin Under(d, c)
                     /\ need[f] \cap (Under(d, c) \cup {c}) # {} =>
                       \A m \in Under(d, c) : m \in more[f] \/ f \in Reach(need, m)
<1> DEFINE T == Tasks(d)
           more == FollowBranches(d, need, c, f)
           M == {m \in Under(d, c) : f \notin Reach(need, m)}
<1>1. CASE ~(c \in Conditions(d) /\ f # c /\ f \notin Under(d, c)
             /\ need[f] \cap (Under(d, c) \cup {c}) # {})
  <2>1. more = need
    BY <1>1 DEF FollowBranches
  <2> QED
    BY <1>1, <2>1
<1>2. CASE c \in Conditions(d) /\ f # c /\ f \notin Under(d, c)
           /\ need[f] \cap (Under(d, c) \cup {c}) # {}
  <2>1. more = [need EXCEPT ![f] = @ \cup M]
    BY <1>2 DEF FollowBranches
  <2>2. M \in SUBSET T /\ f \notin M /\ \A m \in M : f \notin Reach(need, m)
    BY <1>2, DefinitionIs
  <2>3. /\ DOMAIN need = T /\ need[f] \in SUBSET T
    BY DEF Graph
  <2>4. \A m \in Under(d, c) : m \in M \/ f \in Reach(need, m)
    OBVIOUS
  <2> HIDE DEF M
  <2>5. /\ more \in Graph(T) /\ more[f] = need[f] \cup M
        /\ \A t \in T \ {f} : more[t] = need[t]
    BY <2>1, <2>2, <2>3 DEF Graph
  <2> HIDE DEF more
  <2>6. IsFiniteSet(T)
    BY DefinitionIs
  <2> HIDE DEF T
  <2>7. Acyclic(T, need) => Acyclic(T, more)
    BY <2>2, <2>5, <2>6, WaitingForMore DEF T
  <2>8. \A t \in T : need[t] \subseteq more[t]
    BY <2>5
  <2>9. \A m \in Under(d, c) : m \in more[f] \/ f \in Reach(need, m)
    BY <2>4, <2>5
  <2> QED
    BY <2>5, <2>7, <2>8, <2>9 DEF more, T
<1> QED
  BY <1>1, <1>2

LEMMA DependenciesSteps ==
    ASSUME NEW d, IsDefinition(d)
    PROVE  LET n == Len(d.kind)
           IN  \E after \in [0..(n * n) -> Graph(Tasks(d))] :
                  /\ after[0] = Declared(d)
                  /\ \A k \in 1..(n * n) :
                        /\ after[k] = FollowBranches(d, after[k - 1], CondOf(n, k), TaskOf(n, k))
                        /\ TaskOf(n, k) \in Tasks(d)
                  /\ Dependencies(d) = after[n * n]
<1> DEFINE n == Len(d.kind)
           N == n * n
           X == Graph(Tasks(d))
           a == Declared(d)
           Is(f) == f = [k \in 0..N |->
                           IF k = 0 THEN a
                           ELSE FollowBranches(d, f[k - 1], 1 + ((k - 1) \div n), 1 + ((k - 1) % n))]
           g == [p \in X \X (1..N) |-> FollowBranches(d, p[1], CondOf(n, p[2]), TaskOf(n, p[2]))]
<1>1. n \in Nat /\ N \in Nat /\ a \in X
  <2>1. n \in Nat /\ a \in X
    BY DefinitionIs
  <2> HIDE DEF n
  <2>2. n * n \in Nat
    BY <2>1
  <2> QED
    BY <2>1, <2>2
<1>2. \A k \in 1..N : TaskOf(n, k) \in Tasks(d)
  <2> TAKE k \in 1..N
  <2> HIDE DEF n
  <2>1. n # 0
    BY <1>1
  <2>2. k - 1 \in Int /\ n \in Nat \ {0}
    BY <1>1, <2>1
  <2>3. (k - 1) % n \in 0..(n - 1)
    BY <2>2
  <2>4. 1 + ((k - 1) % n) \in 1..n
    BY <2>2, <2>3
  <2>5. Tasks(d) = 1..n
    BY DefinitionIs DEF n
  <2> QED
    BY <2>4, <2>5 DEF TaskOf
<1>3. \A need \in X, k \in 1..N : FollowBranches(d, need, CondOf(n, k), TaskOf(n, k)) \in X
  BY <1>2, FollowBranchesIs
<1>4. g \in [X \X (1..N) -> X]
  BY <1>3
<1>5. \A need \in X, k \in 1..N :
         g[<<need, k>>] = FollowBranches(d, need, CondOf(n, k), TaskOf(n, k))
  OBVIOUS
<1> HIDE DEF N, X, a, g
<1>6. PICK h \in [0..N -> X] : Runs(h, N, a, g)
  BY <1>1, <1>4, RunsExists
<1>7. Is(h)
  <2>1. \A k \in 0..N : h[k] = IF k = 0 THEN a
                               ELSE FollowBranches(d, h[k - 1], 1 + ((k - 1) \div n), 1 + ((k - 1) % n))
    <3> TAKE k \in 0..N
    <3>1. CASE k = 0
      BY <1>6, <3>1 DEF Runs
    <3>2. CASE k # 0
      <4>1. k \in 1..N /\ k - 1 \in 0..N
        BY <1>1, <3>2
      <4>2. h[k] = g[<<h[k - 1], k>>] /\ h[k - 1] \in X
        BY <1>6, <4>1 DEF Runs
      <4>3. h[k] = FollowBranches(d, h[k - 1], CondOf(n, k), TaskOf(n, k))
        BY <1>5, <4>1, <4>2
      <4> QED
        BY <3>2, <4>3 DEF CondOf, TaskOf
    <3> QED
      BY <3>1, <3>2
  <2> QED
    BY <2>1
<1> DEFINE F == CHOOSE f : Is(f)
<1>8. Is(F)
  BY <1>7
<1>9. Dependencies(d) = F[N]
  BY DEF Dependencies, N, a
<1> HIDE DEF F
<1>10. \A k \in 0..N : F[k] = IF k = 0 THEN a
                             ELSE FollowBranches(d, F[k - 1], 1 + ((k - 1) \div n), 1 + ((k - 1) % n))
  BY <1>8
<1>11. F = [k \in 0..N |-> F[k]]
  BY <1>8
<1> HIDE DEF Is
<1>12. F[0] = a /\ \A k \in 1..N : F[k] = FollowBranches(d, F[k - 1], CondOf(n, k), TaskOf(n, k))
  <2>1. 0 \in 0..N /\ \A k \in 1..N : k \in 0..N /\ k # 0
    BY <1>1
  <2> QED
    BY <1>10, <2>1 DEF CondOf, TaskOf
<1>13. \A k \in 1..N : F[k - 1] \in X => F[k] = g[<<F[k - 1], k>>]
  BY <1>5, <1>12
<1>14. \A k \in 0..N : F[k] \in X
  <2>1. N \in Nat /\ a \in X /\ F[0] = a
    BY <1>1, <1>12
  <2> QED
    BY <1>4, <1>13, <2>1, RunsTyped
<1>15. F \in [0..N -> X]
  BY <1>11, <1>14
<1> QED
  BY <1>2, <1>9, <1>12, <1>15 DEF N, X, a

\* What a task follows: of a condition it comes after, whatever is under the
\* condition that does not wait for the task.
Follows(d, need) ==
    \A t \in Tasks(d), c \in Conditions(d) :
        t \notin Under(d, c) /\ d.deps[t] \cap (Under(d, c) \cup {c}) # {} =>
            \A s \in Under(d, c) : s \in need[t] \/ t \in Reach(need, s)

\* The dependencies of a definition that has an order: what is declared, and what
\* follows from it.
LEMMA DependenciesIs ==
    ASSUME NEW d, IsDefinition(d), Sound(d)
    PROVE  /\ Dependencies(d) \in Graph(Tasks(d)) /\ Acyclic(Tasks(d), Dependencies(d))
           /\ \A t \in Tasks(d) : Declared(d)[t] \subseteq Dependencies(d)[t]
           /\ Follows(d, Dependencies(d))
<1> DEFINE n == Len(d.kind)
           N == n * n
           T == Tasks(d)
<1>1. PICK after \in [0..N -> Graph(T)] :
         /\ after[0] = Declared(d)
         /\ \A k \in 1..N : /\ after[k] = FollowBranches(d, after[k - 1], CondOf(n, k), TaskOf(n, k))
                             /\ TaskOf(n, k) \in T
         /\ Dependencies(d) = after[N]
  BY DependenciesSteps
<1>2. n \in Nat /\ N \in Nat /\ T = 1..n /\ IsFiniteSet(T)
  <2>1. n \in Nat /\ T = 1..n /\ IsFiniteSet(T)
    BY DefinitionIs
  <2> HIDE DEF n, T
  <2>2. n * n \in Nat
    BY <2>1
  <2> QED
    BY <2>1, <2>2
<1>3. Acyclic(T, Declared(d))
  BY DEF Sound, Acyclic
<1> DEFINE Grows(j, k) == \A t \in T : after[j][t] \subseteq after[k][t]
<1>4. \A k \in 1..N : /\ after[k - 1] \in Graph(T) /\ after[k] \in Graph(T) /\ Grows(k - 1, k)
                      /\ Acyclic(T, after[k - 1]) => Acyclic(T, after[k])
  <2> TAKE k \in 1..N
  <2>1. k - 1 \in 0..N /\ k \in 0..N
    BY <1>2
  <2>2. after[k - 1] \in Graph(T) /\ after[k] \in Graph(T)
    BY <2>1
  <2> QED
    BY <1>1, <2>2, FollowBranchesIs
<1> HIDE DEF N
<1>5. \A k \in 0..N : Acyclic(T, after[k]) /\ \A j \in 0..k : Grows(j, k)
  <2> DEFINE Not == {k \in 0..N : ~(Acyclic(T, after[k]) /\ \A j \in 0..k : Grows(j, k))}
  <2> SUFFICES ASSUME Not # {} PROVE FALSE
    OBVIOUS
  <2>1. PICK k \in Not : \A m \in Not : k <= m
    <3>1. Not \in SUBSET Nat
      OBVIOUS
    <3> HIDE DEF Not
    <3> QED
      BY <3>1, LeastExists
  <2>2. CASE k = 0
    <3>1. Acyclic(T, after[k]) /\ \A j \in 0..k : j = k
      BY <1>1, <1>3, <2>2
    <3> QED
      BY <2>1, <3>1
  <2>3. CASE k # 0
    <3>1. k \in 1..N /\ k - 1 \in 0..N /\ k - 1 \notin Not
      BY <1>2, <2>1, <2>3
    <3>2. Acyclic(T, after[k - 1]) /\ \A j \in 0..(k - 1) : Grows(j, k - 1)
      BY <3>1
    <3>3. Acyclic(T, after[k]) /\ Grows(k - 1, k)
      BY <1>4, <3>1, <3>2
    <3>4. \A j \in 0..k : j \in 0..(k - 1) \/ j = k
      BY <3>1
    <3>5. \A j \in 0..k : Grows(j, k)
      BY <3>2, <3>3, <3>4
    <3> QED
      BY <2>1, <3>3, <3>5
  <2> QED
    BY <2>2, <2>3
<1>6. N \in 0..N /\ 0 \in 0..N
  BY <1>2
<1>7. /\ after[N] \in Graph(T) /\ Acyclic(T, after[N])
      /\ \A t \in T : Declared(d)[t] \subseteq after[N][t]
  <2>1. 0 \in 0..N /\ N \in 0..N /\ Grows(0, N)
    BY <1>5, <1>6
  <2> QED
    BY <1>1, <1>5, <2>1
<1>8. Follows(d, after[N])
  <2> SUFFICES ASSUME NEW t \in T, NEW c \in Conditions(d), t \notin Under(d, c),
                      d.deps[t] \cap (Under(d, c) \cup {c}) # {}, NEW s \in Under(d, c)
               PROVE  s \in after[N][t] \/ t \in Reach(after[N], s)
    BY DEF Follows
  <2>1. c \in T /\ s \in T /\ d.deps[t] \subseteq Declared(d)[t] /\ Declared(d) \in Graph(T)
    BY DefinitionIs
  <2>2. CASE t = c
    <3>1. t \in Reach(Declared(d), s)
      BY <2>1, <2>2, UnderWaits
    <3>2. Reach(Declared(d), s) \subseteq Reach(after[N], s)
      BY <1>2, <1>7, <2>1, ReachGrows
    <3> QED
      BY <3>1, <3>2
  <2>3. CASE t # c
    <3>1. n \in Nat \ {0} /\ t \in 1..n /\ c \in 1..n
      BY <1>2, <2>1
    <3>2. PICK k \in 1..N : CondOf(n, k) = c /\ TaskOf(n, k) = t
      <4> HIDE DEF n
      <4>1. \E k \in 1..(n * n) : CondOf(n, k) = c /\ TaskOf(n, k) = t
        BY <3>1, PairPlace
      <4> QED
        BY <4>1 DEF N
    <3>3. k \in 0..N /\ k - 1 \in 0..N /\ 0 \in 0..(k - 1) /\ k - 1 \in 0..N /\ k \in 0..N
      BY <1>2
    <3>4. /\ after[k - 1] \in Graph(T) /\ Grows(0, k - 1) /\ Grows(k - 1, N) /\ Grows(k, N)
      <4>1. k - 1 \in 0..N /\ k \in 0..N
        BY <3>3
      <4> QED
        BY <1>5, <1>6, <3>3, <4>1
    <3>5. after[k - 1][t] \cap (Under(d, c) \cup {c}) # {}
      BY <1>1, <2>1, <3>4
    <3>6. s \in after[k][t] \/ t \in Reach(after[k - 1], s)
      <4>1. after[k] = FollowBranches(d, after[k - 1], c, t)
        BY <1>1, <3>2
      <4> QED
        BY <2>3, <3>4, <3>5, <4>1, FollowBranchesIs
    <3>7. Reach(after[k - 1], s) \subseteq Reach(after[N], s)
      <4> DEFINE low == after[k - 1]
                 top == after[N]
      <4>1. low \in Graph(T) /\ top \in Graph(T) /\ \A r \in T : low[r] \subseteq top[r]
        BY <1>7, <3>4
      <4> HIDE DEF low, top
      <4>2. Reach(low, s) \subseteq Reach(top, s)
        BY <1>2, <2>1, <4>1, ReachGrows
      <4> QED
        BY <4>2 DEF low, top
    <3> QED
      BY <3>4, <3>6, <3>7
  <2> QED
    BY <2>2, <2>3
<1> QED
  BY <1>1, <1>7, <1>8

(***************************************************************************)
(* The order of execution                                                  *)
(***************************************************************************)
Placed(s) == {s[i] : i \in 1..Len(s)}
Ready(d, need, s) == {t \in Tasks(d) \ Placed(s) : need[t] \subseteq Placed(s)}

LEMMA OrderSteps ==
    ASSUME NEW d, IsDefinition(d), NEW need
    PROVE  LET n == Len(d.kind)
               All == Tasks(d) \cup {Least({})}
           IN  \E first \in [0..n -> Seq(All)] :
                  /\ first[0] = << >>
                  /\ \A k \in 1..n :
                        first[k] = Append(first[k - 1], Least(Ready(d, need, first[k - 1])))
                  /\ ExecutionOrder(d, need) = first[n]
<1> DEFINE N == Len(d.kind)
           All == Tasks(d) \cup {Least({})}
           X == Seq(All)
           next(s) == Append(s, Least(Ready(d, need, s)))
           Is(f) == f = [k \in 0..N |-> IF k = 0 THEN << >> ELSE next(f[k - 1])]
           g == [p \in X \X (1..N) |-> next(p[1])]
<1>1. N \in Nat /\ << >> \in X /\ Tasks(d) \in SUBSET Nat
  <2>1. N \in Nat /\ Tasks(d) = 1..N
    BY DefinitionIs
  <2>2. << >> \in X
    OBVIOUS
  <2> QED
    BY <2>1, <2>2
<1>2. \A s \in X : next(s) \in X
  <2> TAKE s \in X
  <2> DEFINE e == Least(Ready(d, need, s))
  <2>1. e \in All
    <3>1. CASE Ready(d, need, s) = {}
      BY <3>1
    <3>2. CASE Ready(d, need, s) # {}
      <4>1. Ready(d, need, s) \in SUBSET Tasks(d)
        BY DEF Ready
      <4>2. e \in Ready(d, need, s)
        BY <1>1, <3>2, <4>1, LeastIs
      <4> QED
        BY <4>1, <4>2
    <3> QED
      BY <3>1, <3>2
  <2> HIDE DEF e, All
  <2>2. Append(s, e) \in Seq(All)
    BY <2>1
  <2> QED
    BY <2>2 DEF e
<1>3. g \in [X \X (1..N) -> X]
  BY <1>2
<1>4. \A s \in X, k \in 1..N : g[<<s, k>>] = next(s)
  OBVIOUS
<1> HIDE DEF X, g, N
<1>5. PICK h \in [0..N -> X] : Runs(h, N, << >>, g)
  BY <1>1, <1>3, RunsExists
<1>6. Is(h)
  <2>1. \A k \in 0..N : h[k] = IF k = 0 THEN << >> ELSE next(h[k - 1])
    <3> TAKE k \in 0..N
    <3>1. CASE k = 0
      BY <1>5, <3>1 DEF Runs
    <3>2. CASE k # 0
      <4>1. k \in 1..N /\ k - 1 \in 0..N
        BY <1>1, <3>2
      <4>2. h[k] = g[<<h[k - 1], k>>] /\ h[k - 1] \in X
        BY <1>5, <4>1 DEF Runs
      <4>3. h[k] = next(h[k - 1])
        BY <1>4, <4>1, <4>2
      <4> QED
        BY <3>2, <4>3
    <3> QED
      BY <3>1, <3>2
  <2> QED
    BY <2>1
<1> DEFINE F == CHOOSE f : Is(f)
<1>7. Is(F)
  BY <1>6
<1>8. ExecutionOrder(d, need) = F[N]
  BY DEF ExecutionOrder, N, Ready, Placed
<1> HIDE DEF F
<1>9. \A k \in 0..N : F[k] = IF k = 0 THEN << >> ELSE next(F[k - 1])
  BY <1>7
<1>10. F = [k \in 0..N |-> F[k]]
  BY <1>7
<1> HIDE DEF Is
<1>11. F[0] = << >> /\ \A k \in 1..N : F[k] = next(F[k - 1])
  <2>1. 0 \in 0..N /\ \A k \in 1..N : k \in 0..N /\ k # 0
    BY <1>1
  <2> QED
    BY <1>9, <2>1
<1>12. \A k \in 1..N : F[k - 1] \in X => F[k] = g[<<F[k - 1], k>>]
  BY <1>4, <1>11
<1>13. \A k \in 0..N : F[k] \in X
  BY <1>1, <1>3, <1>11, <1>12, RunsTyped
<1>14. F \in [0..N -> X]
  BY <1>10, <1>13
<1> QED
  BY <1>8, <1>11, <1>14 DEF N, X

\* s has each of its tasks once, and each after all it waits for.
Orderly(T, need, s) ==
    /\ s \in Seq(T)
    /\ \A p, q \in 1..Len(s) : s[p] = s[q] => p = q
    /\ \A p \in 1..Len(s) : \A t \in need[s[p]] : \E q \in 1..(p - 1) : s[q] = t

LEMMA OrderGrows ==
    ASSUME NEW T, NEW need, NEW s, Orderly(T, need, s), NEW e \in T \ Placed(s),
           need[e] \subseteq Placed(s)
    PROVE  /\ Orderly(T, need, Append(s, e)) /\ Len(Append(s, e)) = Len(s) + 1
           /\ Placed(Append(s, e)) = Placed(s) \cup {e}
<1> DEFINE r == Append(s, e)
<1>1. /\ Len(s) \in Nat /\ s \in Seq(T)
      /\ r \in Seq(T) /\ Len(r) = Len(s) + 1 /\ r[Len(s) + 1] = e
      /\ \A i \in 1..Len(s) : r[i] = s[i]
  BY DEF Orderly
<1> HIDE DEF r
<1>2. \A i \in 1..Len(r) : i \in 1..Len(s) \/ i = Len(s) + 1
  BY <1>1
<1>3. \A i \in 1..Len(s) : i \in 1..Len(r) /\ s[i] \in Placed(s)
  BY <1>1 DEF Placed
<1>4. Placed(r) = Placed(s) \cup {e}
  <2>1. Placed(r) \subseteq Placed(s) \cup {e}
    BY <1>1, <1>2 DEF Placed
  <2>2. Placed(s) \cup {e} \subseteq Placed(r)
    BY <1>1, <1>3 DEF Placed
  <2> QED
    BY <2>1, <2>2
<1>5. \A p, q \in 1..Len(r) : r[p] = r[q] => p = q
  BY <1>1, <1>2, <1>3 DEF Orderly
<1>6. \A p \in 1..Len(r) : \A t \in need[r[p]] : \E q \in 1..(p - 1) : r[q] = t
  <2> TAKE p \in 1..Len(r)
  <2> TAKE t \in need[r[p]]
  <2>1. CASE p \in 1..Len(s)
    <3>1. PICK q \in 1..(p - 1) : s[q] = t
      BY <1>1, <2>1 DEF Orderly
    <3>2. q \in 1..Len(s)
      BY <1>1, <2>1
    <3> QED
      BY <1>1, <3>1, <3>2
  <2>2. CASE p = Len(s) + 1
    <3>1. PICK q \in 1..Len(s) : s[q] = t
      BY <1>1, <2>2 DEF Placed
    <3>2. q \in 1..(p - 1)
      BY <1>1, <2>2
    <3> QED
      BY <1>1, <3>1, <3>2
  <2> QED
    BY <1>2, <2>1, <2>2
<1> QED
  BY <1>1, <1>4, <1>5, <1>6 DEF Orderly, r

\* Every task has its place in the order.
Ordered(d, need, s) ==
    /\ Orderly(Tasks(d), need, s) /\ Len(s) = Len(d.kind)
    /\ \A t \in Tasks(d) : \E p \in 1..Len(s) : s[p] = t

LEMMA ExecutionOrderIs ==
    ASSUME NEW d, IsDefinition(d), NEW need \in Graph(Tasks(d)), Acyclic(Tasks(d), need)
    PROVE  Ordered(d, need, ExecutionOrder(d, need))
<1> DEFINE n == Len(d.kind)
           T == Tasks(d)
           All == T \cup {Least({})}
<1>1. PICK first \in [0..n -> Seq(All)] :
         /\ first[0] = << >>
         /\ \A k \in 1..n : first[k] = Append(first[k - 1], Least(Ready(d, need, first[k - 1])))
         /\ ExecutionOrder(d, need) = first[n]
  BY OrderSteps
<1>2. n \in Nat /\ T = 1..n /\ IsFiniteSet(T) /\ Cardinality(T) = n
  BY DefinitionIs
<1> HIDE DEF n, T, All
<1> DEFINE Good(k) == /\ Orderly(T, need, first[k]) /\ Len(first[k]) = k
                      /\ IsFiniteSet(Placed(first[k])) /\ Cardinality(Placed(first[k])) = k
<1>3. Good(0)
  <2>1. << >> \in Seq(T) /\ Len(<< >>) = 0 /\ 1..0 = {}
    OBVIOUS
  <2>2. Placed(<< >>) = {} /\ Orderly(T, need, << >>)
    BY <2>1 DEF Placed, Orderly
  <2> QED
    BY <1>1, <2>1, <2>2, FS_EmptySet
<1>4. ASSUME NEW k \in 1..n, Good(k - 1) PROVE Good(k)
  <2> DEFINE s == first[k - 1]
             R == Ready(d, need, s)
             e == Least(R)
  <2>1. k - 1 \in Nat /\ k - 1 < n
    BY <1>2
  <2>2. Orderly(T, need, s) /\ Len(s) = k - 1 /\ IsFiniteSet(Placed(s)) /\ Cardinality(Placed(s)) = k - 1
    BY <1>4
  <2>3. first[k] = Append(s, e)
    BY <1>1
  <2> HIDE DEF s
  <2>4. Placed(s) \in SUBSET T
    BY <2>2 DEF Orderly, Placed
  <2>5. Placed(s) # T
    BY <1>2, <2>1, <2>2
  <2>6. R # {}
    <3> DEFINE Q == T \ Placed(s)
    <3>1. Q \in SUBSET T /\ Q # {}
      BY <2>4, <2>5
    <3> HIDE DEF Q
    <3>2. PICK t \in Q : need[t] \cap Q = {}
      <4>1. IsFiniteSet(T) /\ need \in Graph(T) /\ Acyclic(T, need)
        BY <1>2 DEF T
      <4> QED
        BY <3>1, <4>1, SomeIsReady
    <3>3. need[t] \in SUBSET T
      BY <3>1 DEF Graph, T
    <3>4. t \in T \ Placed(s) /\ need[t] \subseteq Placed(s)
      BY <3>2, <3>3 DEF Q
    <3> QED
      BY <3>4 DEF Ready, T
  <2>7. R \in SUBSET Nat
    BY <1>2 DEF Ready, T
  <2>8. e \in R
    BY <2>6, <2>7, LeastIs
  <2>9. e \in T \ Placed(s) /\ need[e] \subseteq Placed(s)
    BY <2>8 DEF Ready, T
  <2> HIDE DEF e
  <2>10. /\ Orderly(T, need, first[k]) /\ Len(first[k]) = k
         /\ Placed(first[k]) = Placed(s) \cup {e}
    BY <2>1, <2>2, <2>3, <2>9, OrderGrows
  <2>11. IsFiniteSet(Placed(first[k])) /\ Cardinality(Placed(first[k])) = k
    <3>1. IsFiniteSet(Placed(s) \cup {e}) /\ Cardinality(Placed(s) \cup {e}) = (k - 1) + 1
      BY <2>2, <2>9, FS_AddElement
    <3> QED
      BY <2>1, <2>10, <3>1
  <2> QED
    BY <2>10, <2>11
<1>5. Good(n)
  <2> DEFINE Not == {k \in 0..n : ~Good(k)}
  <2> SUFFICES ASSUME Not # {} PROVE FALSE
    BY <1>2
  <2>1. PICK k \in Not : \A m \in Not : k <= m
    <3>1. Not \in SUBSET Nat
      OBVIOUS
    <3> HIDE DEF Not
    <3> QED
      BY <3>1, LeastExists
  <2>2. k # 0
    BY <1>3, <2>1
  <2>3. k \in 1..n /\ k - 1 \in 0..n /\ k - 1 \notin Not
    BY <1>2, <2>1, <2>2
  <2>4. Good(k - 1)
    BY <2>3
  <2> QED
    BY <1>4, <2>1, <2>3, <2>4
<1> DEFINE o == first[n]
<1>6. Orderly(T, need, o) /\ Len(o) = n /\ Cardinality(Placed(o)) = n
  BY <1>5
<1> HIDE DEF o
<1>7. Placed(o) \in SUBSET T
  BY <1>6 DEF Orderly, Placed
<1>8. Placed(o) = T
  BY <1>2, <1>6, <1>7, FS_Subset
<1>9. \A t \in T : \E p \in 1..Len(o) : o[p] = t
  BY <1>8 DEF Placed
<1> QED
  BY <1>1, <1>6, <1>9 DEF Ordered, o, n, T

(***************************************************************************)
(* Which tasks run together                                                *)
(***************************************************************************)
\* The actions from start to e run together: none is skipped, and none waits for
\* or reads one before it.
RunsTogether(d, need, s, start, out, e) ==
    /\ e \in (start + 1)..(Len(s) + 1)
    /\ \A p \in (start + 1)..(e - 1) :
          /\ d.kind[s[p]] = "action" /\ s[p] \notin out
          /\ \A i \in start..(p - 1) : s[i] \notin need[s[p]] /\ s[i] \notin d.reads[s[p]]
    /\ e # start + 1 => d.kind[s[start]] = "action"

LEMMA RunEndIs ==
    ASSUME NEW d, NEW need, NEW s, Len(s) \in Nat, NEW start \in 1..Len(s), NEW out,
           NEW limit
    PROVE  RunsTogether(d, need, s, start, out, RunEnd(d, need, s, start, out, limit))
<1> DEFINE may(t) == ConcurrencySafe(d, t) /\ t \notin out
           joins(e) == /\ may(s[e]) /\ e - start < limit
                       /\ \A i \in start..(e - 1) : Independent(d, need, s[i], s[e])
           Ends == {e \in (start + 1)..(Len(s) + 1) : e = Len(s) + 1 \/ ~joins(e)}
           end == RunEnd(d, need, s, start, out, limit)
<1>1. CASE ~may(s[start])
  <2>1. end = start + 1
    BY <1>1 DEF RunEnd
  <2>2. start + 1 \in (start + 1)..(Len(s) + 1) /\ (start + 1)..((start + 1) - 1) = {}
    OBVIOUS
  <2> QED
    BY <2>1, <2>2 DEF RunsTogether
<1>2. CASE may(s[start])
  <2>1. end = Least(Ends)
    BY <1>2 DEF RunEnd
  <2>2. Ends \in SUBSET Nat /\ Len(s) + 1 \in Ends
    OBVIOUS
  <2> DEFINE E == Ends
  <2>3. E \in SUBSET Nat /\ E # {}
    BY <2>2
  <2>4. \A e \in (start + 1)..(Len(s) + 1) : e \notin E => joins(e)
    OBVIOUS
  <2>5. \A e \in E : e \in (start + 1)..(Len(s) + 1)
    OBVIOUS
  <2> HIDE DEF E
  <2>6. Least(E) \in E /\ \A m \in E : Least(E) <= m
    BY <2>3, LeastIs
  <2>7. end \in E /\ \A m \in E : end <= m
    BY <2>1, <2>6 DEF E
  <2> HIDE DEF end
  <2>8. end \in (start + 1)..(Len(s) + 1)
    BY <2>5, <2>7
  <2>9. \A p \in (start + 1)..(end - 1) : p \in (start + 1)..(Len(s) + 1) /\ p \notin E
    BY <2>7, <2>8
  <2>10. \A p \in (start + 1)..(end - 1) : joins(p)
    BY <2>4, <2>9
  <2>11. \A p \in (start + 1)..(end - 1) :
            /\ d.kind[s[p]] = "action" /\ s[p] \notin out
            /\ \A i \in start..(p - 1) : s[i] \notin need[s[p]] /\ s[i] \notin d.reads[s[p]]
    BY <2>10 DEF ConcurrencySafe, Independent
  <2>12. d.kind[s[start]] = "action"
    BY <1>2 DEF ConcurrencySafe
  <2> QED
    BY <2>8, <2>11, <2>12 DEF end, RunsTogether
<1> QED
  BY <1>1, <1>2

LEMMA PlannedIs ==
    ASSUME Len(order) \in Nat, at \in 1..Len(order)
    PROVE  /\ Planned \in (at + 1)..(Len(order) + 1)
           /\ \A p \in (at + 1)..(Planned - 1) :
                 /\ def.kind[order[p]] = "action" /\ order[p] \notin skipped
                 /\ \A i \in at..(p - 1) : /\ order[i] \notin deps[order[p]]
                                           /\ order[i] \notin def.reads[order[p]]
           /\ Planned # at + 1 => def.kind[order[at]] = "action"
<1> DEFINE last == RunEnd(def, deps, order, at, skipped, MaxConcurrent)
<1>1. RunsTogether(def, deps, order, at, skipped, last)
  BY RunEndIs
<1> HIDE DEF last
<1>2. Planned = last
  BY DEF Planned, last
<1> QED
  BY <1>1, <1>2 DEF RunsTogether

LEMMA GuardEndIs ==
    ASSUME NEW e \in Nat, at \in Nat, at <= e
    PROVE  /\ GuardEnd(e) \in at..e
           /\ \A i \in at..(GuardEnd(e) - 1) : Decision(def, order[i], skipped, exports) # "error"
<1> DEFINE E == {i \in at..e : i = e \/ Decision(def, order[i], skipped, exports) = "error"}
<1>1. GuardEnd(e) = Least(E)
  BY DEF GuardEnd
<1>2. E \in SUBSET Nat /\ e \in E /\ \A i \in E : i \in at..e
  OBVIOUS
<1>3. \A i \in at..e : i \notin E => Decision(def, order[i], skipped, exports) # "error"
  OBVIOUS
<1> HIDE DEF E
<1> DEFINE end == GuardEnd(e)
<1>4. end \in E /\ \A m \in E : end <= m
  BY <1>1, <1>2, LeastIs
<1> HIDE DEF end
<1>5. end \in at..e /\ \A i \in at..(end - 1) : i \in at..e /\ i \notin E
  BY <1>2, <1>4
<1>6. \A i \in at..(end - 1) : Decision(def, order[i], skipped, exports) # "error"
  BY <1>3, <1>5
<1> QED
  BY <1>5, <1>6 DEF end

\* What is found of the first k positions.
FoundOf(s, from, k, S) ==
    /\ s \in Seq(Nat)
    /\ {s[i] : i \in 1..Len(s)} = {p \in from..(from + k - 1) : p \in S}
    /\ \A i, j \in 1..Len(s) : i < j => s[i] < s[j]
    /\ \A i \in 1..Len(s) : from + i - 1 <= s[i]
    /\ Len(s) <= k /\ (Len(s) < k => \E r \in from..(from + k - 1) : r \notin S)
    /\ \A i \in 1..Len(s) : from + i - 1 < s[i] => \E r \in from..(s[i] - 1) : r \notin S

LEMMA FoundGrows ==
    ASSUME NEW from \in Nat, NEW k \in Nat \ {0}, NEW S, NEW s, FoundOf(s, from, k - 1, S)
    PROVE  FoundOf(IF from + k - 1 \in S THEN Append(s, from + k - 1) ELSE s, from, k, S)
<1> DEFINE e == from + k - 1
           r == Append(s, e)
<1>1. e \in Nat /\ \A p \in from..e : p \in from..(e - 1) \/ p = e
  OBVIOUS
<1>2. e \in from..e /\ \A p \in from..(e - 1) : p \in from..e /\ p < e
  OBVIOUS
<1>3. from + (k - 1) - 1 = e - 1
  OBVIOUS
<1>4. /\ s \in Seq(Nat) /\ Len(s) \in Nat
      /\ {s[i] : i \in 1..Len(s)} = {p \in from..(e - 1) : p \in S}
      /\ \A i, j \in 1..Len(s) : i < j => s[i] < s[j]
      /\ \A i \in 1..Len(s) : from + i - 1 <= s[i]
      /\ Len(s) <= k - 1 /\ (Len(s) < k - 1 => \E q \in from..(e - 1) : q \notin S)
      /\ \A i \in 1..Len(s) : from + i - 1 < s[i] => \E q \in from..(s[i] - 1) : q \notin S
  BY <1>3 DEF FoundOf
<1>5. \A i \in 1..Len(s) : s[i] \in from..(e - 1) /\ s[i] < e
  BY <1>2, <1>4
<1>6. e = from + k - 1
  OBVIOUS
<1> HIDE DEF e
<1>7. CASE e \notin S
  <2>1. {p \in from..e : p \in S} = {p \in from..(e - 1) : p \in S}
    BY <1>1, <1>2, <1>7
  <2>2. Len(s) <= k /\ \E q \in from..(from + k - 1) : q \notin S
    BY <1>2, <1>4, <1>6, <1>7
  <2>3. FoundOf(s, from, k, S)
    BY <1>4, <1>6, <2>1, <2>2 DEF FoundOf
  <2> QED
    BY <1>6, <1>7, <2>3
<1>8. CASE e \in S
  <2>1. /\ r \in Seq(Nat) /\ Len(r) = Len(s) + 1 /\ r[Len(s) + 1] = e
        /\ \A i \in 1..Len(s) : r[i] = s[i]
    BY <1>1, <1>4
  <2> HIDE DEF r
  <2>2. \A i \in 1..Len(r) : i \in 1..Len(s) \/ i = Len(s) + 1
    BY <1>4, <2>1
  <2>3. \A i \in 1..Len(s) : i \in 1..Len(r)
    BY <1>4, <2>1
  <2>4. {r[i] : i \in 1..Len(r)} = {s[i] : i \in 1..Len(s)} \cup {e}
    <3>1. Len(s) + 1 \in 1..Len(r)
      BY <1>4, <2>1
    <3> QED
      BY <2>1, <2>2, <2>3, <3>1
  <2>5. {p \in from..e : p \in S} = {p \in from..(e - 1) : p \in S} \cup {e}
    BY <1>1, <1>2, <1>8
  <2>6. \A i, j \in 1..Len(r) : i < j => r[i] < r[j]
    <3> TAKE i, j \in 1..Len(r)
    <3> HAVE i < j
    <3>1. i \in 1..Len(s)
      BY <1>4, <2>1
    <3>2. CASE j \in 1..Len(s)
      BY <1>4, <2>1, <3>1, <3>2
    <3>3. CASE j = Len(s) + 1
      BY <1>5, <2>1, <3>1, <3>3
    <3> QED
      BY <2>2, <3>2, <3>3
  <2>7. from + Len(s) <= e
    <3>1. CASE Len(s) = 0
      BY <1>2, <3>1
    <3>2. CASE Len(s) # 0
      <4>1. Len(s) \in 1..Len(s)
        BY <1>4, <3>2
      <4>2. from + Len(s) - 1 <= s[Len(s)] /\ s[Len(s)] < e /\ s[Len(s)] \in Nat
        BY <1>4, <1>5, <4>1
      <4> QED
        BY <1>1, <1>4, <4>2
    <3> QED
      BY <3>1, <3>2
  <2>8. \A i \in 1..Len(r) : from + i - 1 <= r[i]
    <3> TAKE i \in 1..Len(r)
    <3>1. CASE i \in 1..Len(s)
      BY <1>4, <2>1, <3>1
    <3>2. CASE i = Len(s) + 1
      <4>1. from + i - 1 = from + Len(s)
        BY <1>4, <3>2
      <4> QED
        BY <2>1, <2>7, <3>2, <4>1
    <3> QED
      BY <2>2, <3>1, <3>2
  <2>9. Len(r) <= k /\ (Len(r) < k => \E q \in from..(from + k - 1) : q \notin S)
    <3>1. Len(r) < k => Len(s) < k - 1
      BY <1>4, <2>1
    <3> QED
      BY <1>2, <1>4, <1>6, <2>1, <3>1
  <2>10. \A i \in 1..Len(r) : from + i - 1 < r[i] => \E q \in from..(r[i] - 1) : q \notin S
    <3> TAKE i \in 1..Len(r)
    <3>1. CASE i \in 1..Len(s)
      BY <1>4, <2>1, <3>1
    <3>2. CASE i = Len(s) + 1
      <4>1. from + i - 1 < e => Len(s) < k - 1
        BY <1>4, <1>6, <3>2
      <4> QED
        BY <1>4, <2>1, <3>2, <4>1
    <3> QED
      BY <2>2, <3>1, <3>2
  <2>11. FoundOf(r, from, k, S)
    BY <1>4, <1>6, <2>1, <2>4, <2>5, <2>6, <2>8, <2>9, <2>10 DEF FoundOf
  <2> QED
    BY <1>6, <1>8, <2>11 DEF r
<1> QED
  BY <1>7, <1>8

\* Ascending finds the positions of S, each once and in order.
LEMMA AscendingIs ==
    ASSUME NEW from \in Nat, NEW to \in Nat, from <= to, NEW S
    PROVE  FoundOf(Ascending(from, to, S), from, to - from, S)
<1> DEFINE N == to - from
           X == Seq(Nat)
           next(s, i) == IF from + i - 1 \in S THEN Append(s, from + i - 1) ELSE s
           Is(f) == f = [i \in 0..N |-> IF i = 0 THEN << >> ELSE next(f[i - 1], i)]
           g == [p \in X \X (1..N) |-> next(p[1], p[2])]
<1>1. N \in Nat /\ << >> \in X
  <2>1. << >> \in X
    OBVIOUS
  <2> QED
    BY <2>1
<1>2. \A s \in X, i \in 1..N : next(s, i) \in X
  <2> TAKE s \in X, i \in 1..N
  <2>1. from + i - 1 \in Nat
    OBVIOUS
  <2>2. Append(s, from + i - 1) \in X
    BY <2>1
  <2> QED
    BY <2>2
<1>3. g \in [X \X (1..N) -> X]
  BY <1>2
<1>4. \A s \in X, i \in 1..N : g[<<s, i>>] = next(s, i)
  OBVIOUS
<1> HIDE DEF X, g, N
<1>5. PICK h \in [0..N -> X] : Runs(h, N, << >>, g)
  BY <1>1, <1>3, RunsExists
<1>6. Is(h)
  <2>1. \A i \in 0..N : h[i] = IF i = 0 THEN << >> ELSE next(h[i - 1], i)
    <3> TAKE i \in 0..N
    <3>1. CASE i = 0
      BY <1>5, <3>1 DEF Runs
    <3>2. CASE i # 0
      <4>1. i \in 1..N /\ i - 1 \in 0..N
        BY <1>1, <3>2
      <4>2. h[i] = g[<<h[i - 1], i>>] /\ h[i - 1] \in X
        BY <1>5, <4>1 DEF Runs
      <4> HIDE DEF next
      <4>3. h[i] = next(h[i - 1], i)
        BY <1>4, <4>1, <4>2
      <4> QED
        BY <3>2, <4>3
    <3> QED
      BY <3>1, <3>2
  <2> QED
    BY <2>1
<1> DEFINE F == CHOOSE f : Is(f)
<1>7. Is(F)
  BY <1>6
<1>8. Ascending(from, to, S) = F[N]
  BY DEF Ascending, N
<1> HIDE DEF F
<1>9. \A i \in 0..N : F[i] = IF i = 0 THEN << >> ELSE next(F[i - 1], i)
  BY <1>7
<1> HIDE DEF Is
<1> DEFINE Not == {k \in 0..N : ~FoundOf(F[k], from, k, S)}
<1>10. Not = {}
  <2> SUFFICES ASSUME Not # {} PROVE FALSE
    OBVIOUS
  <2>1. PICK k \in Not : \A m \in Not : k <= m
    <3>1. Not \in SUBSET Nat
      OBVIOUS
    <3> HIDE DEF Not
    <3> QED
      BY <3>1, LeastExists
  <2>2. k # 0
    <3>1. F[0] = << >>
      BY <1>1, <1>9
    <3>2. << >> \in Seq(Nat) /\ Len(<< >>) = 0 /\ 1..0 = {} /\ from..(from + 0 - 1) = {}
      OBVIOUS
    <3>3. FoundOf(<< >>, from, 0, S)
      BY <3>2 DEF FoundOf
    <3> QED
      BY <2>1, <3>1, <3>3
  <2>3. k \in Nat \ {0} /\ k \in 0..N /\ k - 1 \in 0..N /\ k - 1 \notin Not
    BY <1>1, <2>1, <2>2
  <2>4. FoundOf(F[k - 1], from, k - 1, S)
    BY <2>3
  <2>5. F[k] = next(F[k - 1], k)
    BY <1>9, <2>3
  <2>6. FoundOf(next(F[k - 1], k), from, k, S)
    BY <2>3, <2>4, FoundGrows
  <2> QED
    BY <2>1, <2>5, <2>6
<1> QED
  BY <1>1, <1>8, <1>10 DEF N

(***************************************************************************)
(* The run: its inductive invariant                                        *)
(***************************************************************************)
Positions == 1..Len(order)
Going(phases) == pc \in phases

\* What a run keeps from its start or its resume.
Fixed ==
    /\ IsDefinition(def) /\ (resumed = "no" => def \in Definitions)
    /\ luck.fails \subseteq Tasks(def)
    /\ \A t \in Tasks(def) : def.guard[t] # "none" => luck.verdict[t] \in {"true", "false", "error"}
    /\ deps \in Graph(Tasks(def)) /\ order \in Seq(Tasks(def))
    /\ Sound(def) => /\ Ordered(def, deps, order) /\ Follows(def, deps)
                     /\ \A t \in Tasks(def) : Declared(def)[t] \subseteq deps[t]
    /\ ~Sound(def) => order = << >> /\ Going({"graph", "settled"})
    /\ resumed \in {"no", "here", "edited"} /\ DOMAIN restored \subseteq Tasks(def)
    /\ results \subseteq DOMAIN restored /\ (resumed = "no" => DOMAIN restored = {})

StepsOf == [task : Tasks(def), status : Entries, index : Positions]

\* The shape of what changes.
Shape ==
    /\ pc \in {"graph", "look", "step", "collect", "apply", "paused", "settled"}
    /\ at \in 1..(Len(order) + 1)
    /\ Going({"step", "collect", "apply", "paused"}) => at \in Positions
    /\ skipped \subseteq Tasks(def) /\ exports \subseteq Tasks(def)
    /\ entry \in [Tasks(def) -> Entries] /\ steps \in Seq(StepsOf)
    /\ sent \in Seq(Tasks(def)) /\ flight \in [Tasks(def) -> Flights]
    /\ collected \subseteq Sent /\ cancel \in BOOLEAN
    /\ status \in {"running"} \cup Settled /\ (status = "running") = (pc # "settled")

\* The tasks sent off: each is at its position of the run at the least, and what
\* came back is known.
Sending ==
    IF Going({"collect", "apply"})
    THEN /\ \A i \in 1..Len(sent) :
               \E q \in (at + i - 1)..(Planned - 1) : q \in Positions /\ sent[i] = order[q]
         /\ \A t \in collected : flight[t] \in {"ok", "failed"}
    ELSE sent = << >> /\ collected = {}

\* What is behind main was restored, or finished or skipped and recorded.
Behind ==
    \A p \in 1..(at - 1) :
        \/ order[p] \in DOMAIN restored
        \/ order[p] \in Recorded /\ entry[order[p]] \in {"success", "skipped"}

\* What a task that was sent off comes to.
Came(t) == IF t \notin collected THEN "cancelled"
           ELSE IF flight[t] = "ok" THEN "success" ELSE "failed"

\* A task of the concurrent run that main waits for, or whose results it applies.
InRun(t) ==
    \/ t \notin Sent /\ t \in Recorded /\ entry[t] = "skipped"
    \/ t \in Sent /\ t \notin Recorded /\ entry[t] = "running"
    \/ t \in Sent /\ t \in Recorded /\ pc = "apply" /\ entry[t] = Came(t)

\* A task that main has yet to come to, but for the wait that it may be at.
Untouched(p) ==
    /\ order[p] \notin Recorded
    /\ entry[order[p]] = "none" \/ (p = at /\ entry[order[p]] = "waiting")

\* What is ahead of main while it runs.
Ahead ==
    pc # "settled" => \A p \in at..Len(order) :
        /\ order[p] \notin DOMAIN restored
        /\ IF Going({"collect", "apply"}) /\ p < Planned THEN InRun(order[p]) ELSE Untouched(p)

\* A task that started waits for nothing that is not behind main.
InTurn ==
    \A t \in Tasks(def) : Started(t) =>
        Sound(def) /\ \A s \in deps[t] : \E q \in 1..(at - 1) : order[q] = s

\* No task is recorded twice.
Once == \A i, j \in 1..Len(steps) : steps[i].task = steps[j].task => i = j

\* What was sent off is recorded, or main is at it.
Flown ==
    \A t \in Tasks(def) : flight[t] # "none" =>
        t \in Recorded \/ (Going({"collect", "apply"}) /\ t \in Sent)

\* A run that completed has come to the end of its order.
Complete == status = "completed" => Sound(def) /\ at = Len(order) + 1

\* Where main takes what was sent off to be, it is, or it is behind a task that was
\* skipped.
SentAt ==
    Going({"collect", "apply"}) => \A i \in 1..Len(sent) :
        \E q \in Positions : /\ sent[i] = order[q] /\ at + i - 1 <= q
                             /\ at + i - 1 < q => \E r \in 1..(q - 1) : SkippedAt(r)

\* Every task is recorded at its position, or behind one that was skipped.
PlaceInv == (\A i \in 1..Len(steps) : AtItsPosition(steps[i])) /\ SentAt

LoopInv ==
    Fixed /\ Shape /\ Sending /\ Behind /\ Ahead /\ InTurn /\ Once /\ Flown /\ Complete

(***************************************************************************)
(* What it promises                                                        *)
(***************************************************************************)
LEMMA LoopInvTyped ==
    ASSUME LoopInv
    PROVE  TypeOK
<1>1. IsDefinition(def) /\ deps \in Graph(Tasks(def))
  BY DEF LoopInv, Fixed
<1>2. at \in 1..(Len(def.kind) + 1)
  <2>1. CASE Sound(def)
    BY <2>1 DEF LoopInv, Fixed, Shape, Ordered
  <2>2. CASE ~Sound(def)
    <3>1. Len(order) = 0 /\ at \in 1..(Len(order) + 1) /\ Len(def.kind) \in Nat
      BY <1>1, <2>2, DefinitionIs DEF LoopInv, Fixed, Shape
    <3> QED
      BY <3>1
  <2> QED
    BY <2>1, <2>2
<1>3. \A i \in 1..Len(steps) : steps[i].task \in Tasks(def) /\ steps[i].index \in 1..Len(order)
  <2> TAKE i \in 1..Len(steps)
  <2>1. steps[i] \in StepsOf
    BY DEF LoopInv, Shape
  <2> QED
    BY <2>1 DEF StepsOf, Positions
<1>4. Sent \subseteq Tasks(def)
  BY DEF LoopInv, Shape, Sent
<1> QED
  BY <1>1, <1>2, <1>3, <1>4 DEF LoopInv, Fixed, Shape, TypeOK, Graph

LEMMA LoopInvWaits ==
    ASSUME LoopInv
    PROVE  WaitsForItsOwn
<1>1. \A q \in 1..(at - 1) : Done(order[q])
  BY DEF LoopInv, Behind, Done
<1>2. \A t \in Tasks(def) : Started(t) => Sound(def) /\ \A s \in deps[t] : Done(s)
  BY <1>1 DEF LoopInv, InTurn
<1> QED
  BY <1>2 DEF LoopInv, Fixed, Follows, WaitsForItsOwn

LEMMA LoopInvRecords ==
    ASSUME LoopInv, PlaceInv
    PROVE  RecordsAll
<1>1. pc = "settled" => \A t \in Tasks(def) : flight[t] # "none" => t \in Recorded
  BY DEF LoopInv, Flown, Going
<1>2. ASSUME status = "completed" PROVE Tasks(def) = Recorded \cup DOMAIN restored
  <2>1. \A t \in Tasks(def) : \E p \in 1..(at - 1) : order[p] = t
    <3>1. Len(order) \in Nat /\ (at - 1) = Len(order)
      BY <1>2 DEF LoopInv, Complete, Fixed
    <3> QED
      BY <1>2, <3>1 DEF LoopInv, Complete, Fixed, Ordered
  <2>2. Tasks(def) \subseteq Recorded \cup DOMAIN restored
    BY <2>1 DEF LoopInv, Behind
  <2>3. \A i \in 1..Len(steps) : steps[i].task \in Tasks(def)
    BY LoopInvTyped DEF TypeOK
  <2> QED
    BY <2>2, <2>3 DEF LoopInv, Fixed, Recorded
<1> QED
  BY <1>1, <1>2 DEF LoopInv, PlaceInv, Once, RecordsAll

(***************************************************************************)
(* How it starts                                                           *)
(***************************************************************************)
\* NewDependencyGraph, orderAfterBranches and GetExecutionOrder together: if what
\* a workflow declares has no cycle, neither has what orderAfterBranches makes of
\* it, and the order has every task once, after all that it waits for.
THEOREM SoundIsOrdered ==
    ASSUME NEW d, IsDefinition(d), Sound(d)
    PROVE  /\ Dependencies(d) \in Graph(Tasks(d))
           /\ Ordered(d, Dependencies(d), ExecutionOrder(d, Dependencies(d)))
           /\ ExecutionOrder(d, Dependencies(d)) \in Seq(Tasks(d))
           /\ Follows(d, Dependencies(d))
           /\ \A t \in Tasks(d) : Declared(d)[t] \subseteq Dependencies(d)[t]
<1> DEFINE need == Dependencies(d)
<1>1. /\ need \in Graph(Tasks(d)) /\ Acyclic(Tasks(d), need) /\ Follows(d, need)
      /\ \A t \in Tasks(d) : Declared(d)[t] \subseteq need[t]
  BY DependenciesIs
<1> HIDE DEF need
<1>2. Ordered(d, need, ExecutionOrder(d, need))
  BY <1>1, ExecutionOrderIs
<1> QED
  BY <1>1, <1>2 DEF Ordered, Orderly, need

LEMMA LoopStarts ==
    ASSUME Init
    PROVE  LoopInv
<1>1. /\ def \in Definitions /\ IsDefinition(def)
      /\ deps = IF Sound(def) THEN Dependencies(def) ELSE Declared(def)
      /\ order = IF Sound(def) THEN ExecutionOrder(def, deps) ELSE << >>
      /\ pc = "graph" /\ status = "running" /\ cancel = FALSE /\ at = 1
      /\ skipped = {} /\ exports = {} /\ steps = << >> /\ sent = << >> /\ collected = {}
      /\ entry = [t \in Tasks(def) |-> "none"] /\ flight = [t \in Tasks(def) |-> "none"]
      /\ resumed = "no" /\ restored = [t \in {} |-> ""] /\ results = {}
  BY DefinitionsAssumption DEF Init, NoneOf
<1>2. luck.fails \subseteq Tasks(def)
      /\ \A t \in Tasks(def) : def.guard[t] # "none" => luck.verdict[t] \in {"true", "false", "error"}
  BY DEF Init
<1>3. /\ deps \in Graph(Tasks(def)) /\ order \in Seq(Tasks(def))
      /\ Sound(def) => /\ Ordered(def, deps, order) /\ Follows(def, deps)
                       /\ \A t \in Tasks(def) : Declared(def)[t] \subseteq deps[t]
  <2>1. CASE Sound(def)
    BY <1>1, <2>1, SoundIsOrdered
  <2>2. CASE ~Sound(def)
    <3>1. << >> \in Seq(Tasks(def))
      OBVIOUS
    <3> QED
      BY <1>1, <2>2, <3>1, DefinitionIs
  <2> QED
    BY <2>1, <2>2
<1>4. DOMAIN restored = {}
  BY <1>1
<1>5. Fixed
  BY <1>1, <1>2, <1>3, <1>4 DEF Fixed, Going
<1>6. Len(order) \in Nat
  BY <1>3
<1>7. Recorded = {} /\ Sent = {}
  BY <1>1 DEF Recorded, Sent
<1>8. Shape
  <2>1. << >> \in Seq(StepsOf) /\ << >> \in Seq(Tasks(def))
    OBVIOUS
  <2>2. 1 \in 1..(Len(order) + 1)
    BY <1>6
  <2> QED
    BY <1>1, <2>1, <2>2 DEF Shape, Going, Entries, Flights, Settled
<1>9. Sending /\ Behind
  BY <1>1 DEF Sending, Behind, Going
<1>10. Ahead
  <2>1. \A p \in at..Len(order) : order[p] \in Tasks(def)
    BY <1>1, <1>3
  <2> QED
    BY <1>1, <1>4, <1>7, <2>1 DEF Ahead, Going, Untouched
<1>11. InTurn
  BY <1>1 DEF InTurn, Started
<1>12. Once /\ Flown /\ Complete
  BY <1>1 DEF Once, Flown, Complete
<1> QED
  BY <1>5, <1>8, <1>9, <1>10, <1>11, <1>12 DEF LoopInv

(***************************************************************************)
(* Every step keeps it                                                     *)
(***************************************************************************)
\* A step that is not a resume keeps what is fixed.
LEMMA FixedStays ==
    ASSUME Fixed, UNCHANGED runVars, Sound(def) \/ pc' \in {"graph", "settled"}
    PROVE  Fixed'
<1>1. /\ def' = def /\ luck' = luck /\ deps' = deps /\ order' = order
      /\ resumed' = resumed /\ restored' = restored /\ results' = results
  BY DEF runVars
<1> QED
  BY <1>1 DEF Fixed, Going

\* Where a run is in its order, and what it is made of.
LEMMA OrderIs ==
    ASSUME LoopInv
    PROVE  /\ order \in Seq(Tasks(def)) /\ Len(order) \in Nat /\ at \in Nat \ {0}
           /\ \A p \in Positions : order[p] \in Tasks(def)
           /\ \A p, q \in Positions : order[p] = order[q] => p = q
           /\ pc \notin {"graph", "settled"} => Sound(def)
           /\ Sound(def) => \A p \in Positions : \A s \in deps[order[p]] :
                               \E q \in 1..(p - 1) : order[q] = s
<1>1. order \in Seq(Tasks(def)) /\ at \in 1..(Len(order) + 1)
  BY DEF LoopInv, Fixed, Shape
<1>2. Len(order) \in Nat /\ \A p \in Positions : order[p] \in Tasks(def)
  BY <1>1 DEF Positions
<1>3. CASE Sound(def)
  BY <1>1, <1>2, <1>3 DEF LoopInv, Fixed, Ordered, Orderly, Positions
<1>4. CASE ~Sound(def)
  <2>1. Positions = {} /\ pc \in {"graph", "settled"}
    BY <1>4 DEF LoopInv, Fixed, Positions, Going
  <2> QED
    BY <1>1, <1>2, <1>4, <2>1
<1> QED
  BY <1>3, <1>4

\* Main goes from one phase to the next and changes nothing else.
LEMMA PhaseMoves ==
    ASSUME LoopInv, pc # "settled",
           UNCHANGED <<runVars, at, skipped, exports, entry, steps, taskVars>>,
           cancel' \in BOOLEAN,
           Going({"collect", "apply"}) <=> pc' \in {"collect", "apply"},
           pc = "apply" => pc' = "apply",
           pc' \in {"graph", "look", "step", "collect", "apply", "paused", "settled"},
           pc' \in {"step", "paused"} => at \in Positions,
           pc' \in {"graph", "settled"} \/ Sound(def),
           status' \in {"running"} \cup Settled, (status' = "running") = (pc' # "settled"),
           status' = "completed" => Sound(def) /\ at = Len(order) + 1
    PROVE  LoopInv'
<1>1. /\ def' = def /\ luck' = luck /\ deps' = deps /\ order' = order
      /\ resumed' = resumed /\ restored' = restored /\ results' = results
      /\ at' = at /\ skipped' = skipped /\ exports' = exports /\ entry' = entry /\ steps' = steps
      /\ sent' = sent /\ flight' = flight /\ collected' = collected
  BY DEF runVars, taskVars
<1>2. /\ Recorded' = Recorded /\ Sent' = Sent /\ Planned' = Planned
      /\ Positions' = Positions /\ StepsOf' = StepsOf
  BY <1>1 DEF Recorded, Sent, Planned, Positions, StepsOf
<1>3. Fixed'
  BY FixedStays DEF LoopInv
<1>4. Shape'
  BY <1>1, <1>2 DEF LoopInv, Shape, Going
<1>5. Sending'
  BY <1>1, <1>2 DEF LoopInv, Sending, Going
<1>6. Behind'
  BY <1>1, <1>2 DEF LoopInv, Behind
<1>7. Ahead'
  <2>1. \A p \in at..Len(order) :
           /\ order[p] \notin DOMAIN restored
           /\ IF Going({"collect", "apply"}) /\ p < Planned THEN InRun(order[p]) ELSE Untouched(p)
    BY DEF LoopInv, Ahead
  <2>2. \A p : Untouched(p) => Untouched(p)'
    BY <1>1, <1>2 DEF Untouched
  <2>3. \A t : InRun(t) => InRun(t)'
    BY <1>1, <1>2 DEF InRun, Came
  <2>4. Going({"collect", "apply"}) <=> Going({"collect", "apply"})'
    BY DEF Going
  <2> QED
    BY <1>1, <1>2, <2>1, <2>2, <2>3, <2>4 DEF Ahead
<1>8. InTurn'
  BY <1>1 DEF LoopInv, InTurn, Started
<1>9. Once' /\ Flown' /\ Complete'
  BY <1>1, <1>2 DEF LoopInv, Once, Flown, Complete, Going
<1> QED
  BY <1>3, <1>4, <1>5, <1>6, <1>7, <1>8, <1>9 DEF LoopInv

LEMMA PhasesKeep ==
    ASSUME LoopInv, BuildGraph \/ Look \/ StopCollecting \/ Cancel \/ WaitClaimed
    PROVE  LoopInv'
<1>1. /\ at \in 1..(Len(order) + 1) /\ cancel \in BOOLEAN
      /\ status \in {"running"} \cup Settled /\ (status = "running") = (pc # "settled")
      /\ pc \in {"graph", "look", "step", "collect", "apply", "paused", "settled"}
      /\ pc \in {"step", "collect", "apply", "paused"} => at \in Positions
  BY DEF LoopInv, Shape, Going
<1>2. Len(order) \in Nat /\ (pc \notin {"graph", "settled"} => Sound(def))
  BY OrderIs
<1>3. CASE BuildGraph
  <2>1. pc = "graph" /\ status = "running"
    BY <1>1, <1>3 DEF BuildGraph
  <2>2. CASE Sound(def)
    <3>1. pc' = "look" /\ status' = status
      BY <1>3, <2>2 DEF BuildGraph
    <3> QED
      BY <1>1, <1>3, <2>1, <2>2, <3>1, PhaseMoves DEF BuildGraph, Going
  <2>3. CASE ~Sound(def)
    <3>1. pc' = "settled" /\ status' \in {"cancelled", "failed"}
      BY <1>3, <2>3 DEF BuildGraph, Settle
    <3> QED
      BY <1>1, <1>3, <2>1, <3>1, PhaseMoves DEF BuildGraph, Going, Settled
  <2> QED
    BY <2>2, <2>3
<1>4. CASE Look
  <2>1. pc = "look" /\ status = "running" /\ Sound(def)
    BY <1>1, <1>2, <1>4 DEF Look
  <2>2. CASE at > Len(order)
    <3>1. at = Len(order) + 1 /\ ~(at <= Len(order))
      BY <1>1, <1>2, <2>2
    <3>2. Settle("completed")
      BY <1>4, <2>2, <3>1 DEF Look
    <3>3. pc' = "settled" /\ status' \in {"cancelled", "completed"}
      BY <3>2 DEF Settle
    <3> QED
      BY <1>1, <1>4, <2>1, <3>1, <3>3, PhaseMoves DEF Look, Going, Settled
  <2>3. CASE at <= Len(order) /\ cancel
    <3>1. pc' = "settled" /\ status' = "cancelled"
      BY <1>2, <1>1, <1>4, <2>3 DEF Look, Settle
    <3> QED
      BY <1>1, <1>4, <2>1, <3>1, PhaseMoves DEF Look, Going, Settled
  <2>4. CASE at <= Len(order) /\ ~cancel
    <3>1. pc' = "step" /\ status' = status /\ at \in Positions
      BY <1>2, <1>1, <1>4, <2>4 DEF Look, Positions
    <3> QED
      BY <1>1, <1>4, <2>1, <3>1, PhaseMoves DEF Look, Going
  <2> QED
    BY <1>1, <1>2, <2>2, <2>3, <2>4
<1>5. CASE StopCollecting
  BY <1>1, <1>2, <1>5, PhaseMoves DEF StopCollecting, Going
<1>6. CASE Cancel
  <2>1. cancel' \in BOOLEAN /\ pc' = pc /\ status' = status /\ pc # "settled"
    BY <1>6 DEF Cancel
  <2>2. UNCHANGED <<runVars, at, skipped, exports, entry, steps, taskVars>>
    BY <1>6 DEF Cancel
  <2>3. status # "completed"
    BY <1>1, <2>1
  <2> QED
    BY <1>1, <1>2, <2>1, <2>2, <2>3, PhaseMoves DEF Going
<1>7. CASE WaitClaimed
  BY <1>1, <1>2, <1>7, PhaseMoves DEF WaitClaimed, Going
<1> QED
  BY <1>3, <1>4, <1>5, <1>6, <1>7

LEMMA TaskReturnsKeeps ==
    ASSUME LoopInv, NEW t \in Tasks(def), TaskReturns(t)
    PROVE  LoopInv'
<1>1. /\ def' = def /\ luck' = luck /\ deps' = deps /\ order' = order
      /\ resumed' = resumed /\ restored' = restored /\ results' = results /\ pc' = pc
      /\ at' = at /\ skipped' = skipped /\ exports' = exports /\ entry' = entry /\ steps' = steps
      /\ sent' = sent /\ collected' = collected /\ cancel' = cancel /\ status' = status
  BY DEF TaskReturns, runVars
<1>2. /\ Recorded' = Recorded /\ Sent' = Sent /\ Planned' = Planned
      /\ Positions' = Positions /\ StepsOf' = StepsOf
  BY <1>1 DEF Recorded, Sent, Planned, Positions, StepsOf
<1>3. /\ flight[t] = "spawned" /\ flight' \in [Tasks(def) -> Flights]
      /\ \A s \in Tasks(def) : s # t => flight'[s] = flight[s]
  BY DEF TaskReturns, LoopInv, Shape, Flights
<1>4. collected \subseteq Tasks(def) /\ t \notin collected
  <2>1. collected \subseteq Sent /\ Sent \subseteq Tasks(def)
    BY LoopInvTyped DEF TypeOK
  <2>2. \A s \in collected : flight[s] \in {"ok", "failed"}
    BY DEF LoopInv, Sending
  <2> QED
    BY <1>3, <2>1, <2>2
<1>5. \A s \in collected : flight'[s] = flight[s]
  BY <1>3, <1>4
<1>6. Fixed'
  BY <1>1, FixedStays, OrderIs DEF LoopInv, runVars
<1>7. Shape'
  BY <1>1, <1>2, <1>3 DEF LoopInv, Shape, Going
<1>8. Sending'
  BY <1>1, <1>2, <1>5 DEF LoopInv, Sending, Going
<1>9. Behind' /\ InTurn' /\ Once' /\ Complete'
  BY <1>1, <1>2 DEF LoopInv, Behind, InTurn, Started, Once, Complete
<1>10. Ahead'
  <2>1. \A p : Untouched(p) => Untouched(p)'
    BY <1>1, <1>2 DEF Untouched
  <2>2. \A s : InRun(s) => InRun(s)'
    BY <1>1, <1>2, <1>5 DEF InRun, Came
  <2>3. Going({"collect", "apply"}) <=> Going({"collect", "apply"})'
    BY <1>1 DEF Going
  <2> QED
    BY <1>1, <1>2, <2>1, <2>2, <2>3 DEF LoopInv, Ahead
<1>11. Flown'
  BY <1>1, <1>2, <1>3 DEF LoopInv, Flown, Going
<1> QED
  BY <1>6, <1>7, <1>8, <1>9, <1>10, <1>11 DEF LoopInv

LEMMA CollectKeeps ==
    ASSUME LoopInv, NEW t \in Tasks(def), Collect(t)
    PROVE  LoopInv'
<1>1. /\ def' = def /\ luck' = luck /\ deps' = deps /\ order' = order
      /\ resumed' = resumed /\ restored' = restored /\ results' = results
      /\ at' = at /\ skipped' = skipped /\ exports' = exports /\ entry' = entry /\ steps' = steps
      /\ sent' = sent /\ flight' = flight /\ cancel' = cancel /\ status' = status
      /\ pc = "collect" /\ pc' \in {"collect", "apply"}
      /\ t \in Sent /\ flight[t] \in {"ok", "failed"} /\ collected' = collected \cup {t}
  BY DEF Collect, runVars
<1>2. /\ Recorded' = Recorded /\ Sent' = Sent /\ Planned' = Planned
      /\ Positions' = Positions /\ StepsOf' = StepsOf
  BY <1>1 DEF Recorded, Sent, Planned, Positions, StepsOf
<1>3. Fixed' /\ Sound(def)
  BY <1>1, FixedStays, OrderIs DEF LoopInv, runVars
<1>4. Shape'
  BY <1>1, <1>2 DEF LoopInv, Shape, Going
<1>5. Sending'
  BY <1>1, <1>2 DEF LoopInv, Sending, Going
<1>6. Behind' /\ InTurn' /\ Once' /\ Complete'
  BY <1>1, <1>2 DEF LoopInv, Behind, InTurn, Started, Once, Complete
<1>7. Ahead'
  <2>1. \A p : Untouched(p) => Untouched(p)'
    BY <1>1, <1>2 DEF Untouched
  <2>2. \A s : InRun(s) => InRun(s)'
    BY <1>1, <1>2 DEF InRun
  <2>3. Going({"collect", "apply"}) /\ Going({"collect", "apply"})' /\ pc # "settled"
    BY <1>1 DEF Going
  <2> QED
    BY <1>1, <1>2, <2>1, <2>2, <2>3 DEF LoopInv, Ahead
<1>8. Flown'
  BY <1>1, <1>2 DEF LoopInv, Flown, Going
<1> QED
  BY <1>3, <1>4, <1>5, <1>6, <1>7, <1>8 DEF LoopInv

\* One more step is recorded.
LEMMA RecordsOne ==
    ASSUME steps \in Seq(StepsOf), NEW x \in StepsOf, steps' = Append(steps, x)
    PROVE  /\ steps' \in Seq(StepsOf) /\ Recorded' = Recorded \cup {x.task}
           /\ Once /\ x.task \notin Recorded => Once'
<1>1. /\ steps' \in Seq(StepsOf) /\ Len(steps) \in Nat /\ Len(steps') = Len(steps) + 1
      /\ steps'[Len(steps) + 1] = x /\ \A i \in 1..Len(steps) : steps'[i] = steps[i]
  OBVIOUS
<1>2. \A i \in 1..Len(steps') : i \in 1..Len(steps) \/ i = Len(steps) + 1
  BY <1>1
<1>3. \A i \in 1..Len(steps) : i \in 1..Len(steps')
  BY <1>1
<1>4. Recorded' = Recorded \cup {x.task}
  <2>1. Recorded' \subseteq Recorded \cup {x.task}
    BY <1>1, <1>2 DEF Recorded
  <2>2. Recorded \subseteq Recorded'
    BY <1>1, <1>3 DEF Recorded
  <2>3. x.task \in Recorded'
    <3>1. Len(steps) + 1 \in 1..Len(steps')
      BY <1>1
    <3> QED
      BY <1>1, <3>1 DEF Recorded
  <2> QED
    BY <2>1, <2>2, <2>3
<1>5. ASSUME Once, x.task \notin Recorded PROVE Once'
  <2> SUFFICES ASSUME NEW i \in 1..Len(steps'), NEW j \in 1..Len(steps'),
                      steps'[i].task = steps'[j].task
               PROVE  i = j
    BY DEF Once
  <2>1. \A k \in 1..Len(steps) : steps[k].task # x.task
    BY <1>5 DEF Recorded
  <2> QED
    BY <1>1, <1>2, <1>5, <2>1 DEF Once
<1> QED
  BY <1>1, <1>4, <1>5

\* The task main is at is recorded, and main goes on or the run settles.
LEMMA HereRecords ==
    ASSUME LoopInv, Going({"step", "paused"}), UNCHANGED <<runVars, taskVars>>, cancel' = cancel,
           NEW outcome \in {"success", "failed", "skipped", "cancelled"},
           entry' = [entry EXCEPT ![Here] = outcome],
           steps' = Append(steps, Step(Here, outcome, at)),
           \/ /\ pc' = "settled" /\ at' = at /\ status' \in {"failed", "cancelled"}
           \/ /\ pc' = "look" /\ at' = at + 1 /\ status' = status
              /\ outcome \in {"success", "skipped"},
           skipped' \subseteq Tasks(def), exports' \subseteq Tasks(def)
    PROVE  LoopInv'
<1>1. /\ def' = def /\ luck' = luck /\ deps' = deps /\ order' = order
      /\ resumed' = resumed /\ restored' = restored /\ results' = results
      /\ sent' = sent /\ flight' = flight /\ collected' = collected
  BY DEF runVars, taskVars
<1>2. /\ Sent' = Sent /\ Positions' = Positions /\ StepsOf' = StepsOf
  BY <1>1 DEF Sent, Positions, StepsOf
<1>3. /\ pc \in {"step", "paused"} /\ at \in Positions /\ Here = order[at] /\ Here \in Tasks(def)
      /\ Sound(def) /\ Len(order) \in Nat /\ at \in 1..Len(order) /\ status = "running"
  BY OrderIs DEF LoopInv, Shape, Going, Here, Positions
<1>4. sent = << >> /\ collected = {} /\ Sent = {}
  BY <1>3 DEF LoopInv, Sending, Going, Sent
<1>5. \A p \in at..Len(order) : order[p] \notin DOMAIN restored /\ Untouched(p)
  BY <1>3 DEF LoopInv, Ahead, Going
<1>6. Here \notin Recorded
  BY <1>3, <1>5 DEF Untouched
<1>7. Step(Here, outcome, at) \in StepsOf /\ Step(Here, outcome, at).task = Here
  BY <1>3 DEF Step, StepsOf, Entries
<1>8. steps' \in Seq(StepsOf) /\ Recorded' = Recorded \cup {Here} /\ Once'
  BY <1>6, <1>7, RecordsOne DEF LoopInv, Shape
<1>9. /\ entry' \in [Tasks(def) -> Entries] /\ entry'[Here] = outcome
      /\ \A t \in Tasks(def) : t # Here => entry'[t] = entry[t]
  BY <1>3 DEF LoopInv, Shape, Entries
<1>10. at' \in 1..(Len(order) + 1) /\ at <= at'
  BY <1>3
<1>11. \A p \in Positions : order[p] \in Tasks(def) /\ (order[p] = Here => p = at)
  BY <1>3, OrderIs
<1>12. Fixed'
  BY <1>3, FixedStays DEF LoopInv
<1>13. Shape'
  BY <1>1, <1>2, <1>3, <1>8, <1>9, <1>10 DEF LoopInv, Shape, Going, Settled
<1>14. Sending'
  BY <1>1, <1>3, <1>4 DEF Sending, Going
<1>15. Behind'
  <2>1. ASSUME NEW p \in 1..(at' - 1)
        PROVE  \/ order[p] \in DOMAIN restored
               \/ order[p] \in Recorded' /\ entry'[order[p]] \in {"success", "skipped"}
    <3>1. CASE p \in 1..(at - 1)
      <4>1. p \in Positions /\ p # at
        BY <1>3, <3>1 DEF Positions
      <4> QED
        BY <1>8, <1>9, <1>11, <3>1, <4>1 DEF LoopInv, Behind
    <3>2. CASE p = at
      <4>1. at' = at + 1 /\ outcome \in {"success", "skipped"}
        BY <1>3, <2>1, <3>2
      <4> QED
        BY <1>3, <1>8, <1>9, <3>2, <4>1
    <3> QED
      BY <1>3, <2>1, <3>1, <3>2
  <2> QED
    BY <1>1, <2>1 DEF Behind
<1>16. Ahead'
  <2>1. ASSUME pc' # "settled", NEW p \in at'..Len(order)
        PROVE  order[p] \notin DOMAIN restored /\ order[p] \notin Recorded' /\ entry'[order[p]] = "none"
    <3>1. at' = at + 1 /\ p \in at..Len(order) /\ p # at /\ p \in Positions
      BY <1>3, <2>1 DEF Positions
    <3> QED
      BY <1>5, <1>8, <1>9, <1>11, <3>1 DEF Untouched
  <2>2. ~Going({"collect", "apply"})'
    BY <1>3 DEF Going
  <2> QED
    BY <1>1, <2>1, <2>2 DEF Ahead, Untouched
<1>17. InTurn'
  <2>1. \A s \in deps[Here] : \E q \in 1..(at - 1) : order[q] = s
    BY <1>3, OrderIs
  <2>2. \A q \in 1..(at - 1) : q \in 1..(at' - 1)
    <3>1. at \in Nat /\ at' \in Nat /\ at <= at'
      BY <1>3, <1>10
    <3>2. \A a, b \in Nat : a <= b => \A q \in 1..(a - 1) : q \in 1..(b - 1)
      OBVIOUS
    <3> QED
      BY <3>1, <3>2
  <2>3. \A t \in Tasks(def) : Started(t)' => \A s \in deps[t] : \E q \in 1..(at - 1) : order[q] = s
    BY <1>9, <2>1 DEF LoopInv, InTurn, Started
  <2> QED
    BY <1>1, <1>3, <2>2, <2>3 DEF InTurn
<1>18. Flown'
  BY <1>1, <1>3, <1>8 DEF LoopInv, Flown, Going
<1>19. Complete'
  BY <1>3 DEF Complete
<1> QED
  BY <1>8, <1>12, <1>13, <1>14, <1>15, <1>16, <1>17, <1>18, <1>19 DEF LoopInv

\* Main stops at a task that waits.
LEMMA PauseKeeps ==
    ASSUME LoopInv, pc = "step", Pause,
           UNCHANGED <<runVars, at, skipped, exports, taskVars, cancel>>
    PROVE  LoopInv'
<1>1. /\ def' = def /\ luck' = luck /\ deps' = deps /\ order' = order
      /\ resumed' = resumed /\ restored' = restored /\ results' = results
      /\ at' = at /\ skipped' = skipped /\ exports' = exports /\ cancel' = cancel
      /\ sent' = sent /\ flight' = flight /\ collected' = collected
      /\ entry' = [entry EXCEPT ![Here] = "waiting"] /\ pc' = "paused"
      /\ steps' = steps /\ status' = status
  BY DEF runVars, taskVars, Pause
<1>2. /\ Recorded' = Recorded /\ Sent' = Sent /\ Planned' = Planned
      /\ Positions' = Positions /\ StepsOf' = StepsOf
  BY <1>1 DEF Recorded, Sent, Planned, Positions, StepsOf
<1>3. /\ at \in Positions /\ Here = order[at] /\ Here \in Tasks(def)
      /\ Sound(def) /\ Len(order) \in Nat /\ at \in 1..Len(order) /\ status = "running"
  BY OrderIs DEF LoopInv, Shape, Going, Here, Positions
<1>4. /\ entry' \in [Tasks(def) -> Entries] /\ entry'[Here] = "waiting"
      /\ \A t \in Tasks(def) : t # Here => entry'[t] = entry[t]
  BY <1>1, <1>3 DEF LoopInv, Shape, Entries
<1>5. \A p \in at..Len(order) : order[p] \notin DOMAIN restored /\ Untouched(p)
  BY <1>3 DEF LoopInv, Ahead, Going
<1>6. \A p \in Positions : order[p] \in Tasks(def) /\ (order[p] = Here => p = at)
  BY <1>3, OrderIs
<1>7. Fixed'
  BY <1>3, FixedStays DEF LoopInv
<1>8. Shape'
  BY <1>1, <1>2, <1>3, <1>4 DEF LoopInv, Shape, Going
<1>9. Sending' /\ Once' /\ Flown' /\ Complete'
  BY <1>1, <1>2, <1>3 DEF LoopInv, Sending, Once, Flown, Complete, Going
<1>10. Behind'
  <2>1. \A p \in 1..(at - 1) : p \in Positions /\ p # at
    BY <1>3 DEF Positions
  <2> QED
    BY <1>1, <1>2, <1>4, <1>6, <2>1 DEF LoopInv, Behind
<1>11. Ahead'
  <2>1. \A p \in at..Len(order) : p \in Positions
    BY <1>3 DEF Positions
  <2>2. ~Going({"collect", "apply"})'
    BY <1>1 DEF Going
  <2>3. \A p \in at..Len(order) : Untouched(p)'
    BY <1>1, <1>2, <1>4, <1>5, <1>6, <2>1 DEF Untouched
  <2> QED
    BY <1>1, <1>5, <2>2, <2>3 DEF Ahead
<1>12. InTurn'
  <2>1. \A s \in deps[Here] : \E q \in 1..(at - 1) : order[q] = s
    BY <1>3, OrderIs
  <2>2. \A t \in Tasks(def) : Started(t)' => \A s \in deps[t] : \E q \in 1..(at - 1) : order[q] = s
    BY <1>4, <2>1 DEF LoopInv, InTurn, Started
  <2> QED
    BY <1>1, <1>3, <2>2 DEF InTurn
<1> QED
  BY <1>7, <1>8, <1>9, <1>10, <1>11, <1>12 DEF LoopInv

LEMMA HereKeeps ==
    ASSUME LoopInv,
           \/ SkipTask \/ FailGuard \/ SettleCondition \/ StartWait \/ SettleWait
           \/ StartDetached \/ StartWaited \/ ChildSettles \/ ClaimPaused
    PROVE  LoopInv'
<1>1. skipped \subseteq Tasks(def) /\ exports \subseteq Tasks(def) /\ IsDefinition(def)
  BY DEF LoopInv, Shape, Fixed
<1>2. pc \in {"step", "paused"} => Here \in Tasks(def)
  BY OrderIs DEF LoopInv, Shape, Going, Here
<1>3. \A kinds : HereIs(kinds) => pc = "step"
  BY DEF HereIs
<1>4. ASSUME pc \in {"step", "paused"}, NEW outcome \in {"success", "failed", "skipped"},
             SettleHere(outcome, at), skipped' \subseteq Tasks(def), exports' \subseteq Tasks(def)
      PROVE  LoopInv'
  BY <1>4, HereRecords DEF SettleHere, Settle, Going
<1>5. ASSUME pc \in {"step", "paused"}, Abandon(Here, at),
             UNCHANGED <<runVars, at, skipped, exports, taskVars, cancel>>
      PROVE  LoopInv'
  <2>1. pc' = "settled" /\ status' \in {"failed", "cancelled"}
    BY <1>5 DEF Abandon, Settle
  <2> QED
    BY <1>1, <1>5, <2>1, HereRecords DEF Abandon, Going
<1>6. \A decision : \A t \in Tasks(def) : Excludes(def, t, decision) \subseteq Tasks(def)
  BY <1>1, DefinitionIs DEF Excludes, NotTaken, ExcludedBy, Result
<1>7. CASE SkipTask
  <2>1. pc = "step" /\ SettleHere("skipped", at) /\ exports' = exports
        /\ skipped' = skipped \cup Excludes(def, Here, Decision(def, Here, skipped, exports))
    BY <1>3, <1>7 DEF SkipTask
  <2> QED
    BY <1>1, <1>2, <1>4, <1>6, <2>1
<1>8. CASE FailGuard
  <2>1. pc = "step" /\ SettleHere("failed", at) /\ exports' = exports /\ skipped' = skipped
    BY <1>3, <1>8 DEF FailGuard
  <2> QED
    BY <1>1, <1>4, <2>1
<1>9. CASE SettleCondition
  <2>1. pc = "step" /\ SettleHere("success", at) /\ exports' = exports \cup {Here}
        /\ skipped' = skipped \cup Excludes(def, Here, Decision(def, Here, skipped, exports))
    BY <1>3, <1>9 DEF SettleCondition
  <2> QED
    BY <1>1, <1>2, <1>4, <1>6, <2>1
<1>10. CASE StartWait
  <2>1. pc = "step" /\ UNCHANGED <<runVars, at, skipped, exports, taskVars, cancel>>
    BY <1>3, <1>10 DEF StartWait
  <2>2. Abandon(Here, at) \/ Pause
    BY <1>10 DEF StartWait
  <2> QED
    BY <1>5, <2>1, <2>2, PauseKeeps
<1>11. CASE SettleWait
  <2>1. /\ pc = "step" /\ skipped' = skipped
        /\ exports' = IF Here \in luck.fails THEN exports ELSE exports \cup {Here}
        /\ SettleHere(IF Here \in luck.fails THEN "failed" ELSE "success", at)
    BY <1>3, <1>11 DEF SettleWait
  <2> QED
    BY <1>1, <1>2, <1>4, <2>1
<1>12. CASE StartDetached
  <2>1. pc = "step" /\ skipped' = skipped
    BY <1>3, <1>12 DEF StartDetached
  <2>2. CASE Succeeds(def, Here, exports)
    <3>1. exports' = exports \cup {Here} /\ SettleHere("success", at)
      BY <1>12, <2>2 DEF StartDetached
    <3> QED
      BY <1>1, <1>2, <1>4, <2>1, <3>1
  <2>3. CASE ~Succeeds(def, Here, exports)
    <3>1. exports' = exports /\ SettleHere("failed", at)
      BY <1>12, <2>3 DEF StartDetached
    <3> QED
      BY <1>1, <1>4, <2>1, <3>1
  <2> QED
    BY <2>2, <2>3
<1>13. CASE StartWaited
  <2>1. pc = "step" /\ UNCHANGED <<skipped, exports>>
    BY <1>3, <1>13 DEF StartWaited
  <2>2. CASE ~(def.reads[Here] \subseteq exports)
    <3>1. SettleHere("failed", at)
      BY <1>13, <2>2 DEF StartWaited
    <3> QED
      BY <1>1, <1>4, <2>1, <3>1
  <2>3. CASE def.reads[Here] \subseteq exports
    <3>1. Abandon(Here, at) \/ Pause
      BY <1>13, <2>3 DEF StartWaited
    <3>2. UNCHANGED <<runVars, at, taskVars, cancel>>
      BY <1>13, <2>3 DEF StartWaited
    <3> QED
      BY <1>5, <2>1, <3>1, <3>2, PauseKeeps
  <2> QED
    BY <2>2, <2>3
<1>14. CASE ChildSettles
  <2>1. /\ pc = "paused" /\ exports' = exports
        /\ skipped' = IF Here \in luck.fails THEN skipped ELSE {}
        /\ SettleHere(IF Here \in luck.fails THEN "failed" ELSE "success", at)
    BY <1>14 DEF ChildSettles
  <2> QED
    BY <1>1, <1>4, <2>1
<1>15. CASE ClaimPaused
  BY <1>5, <1>15 DEF ClaimPaused
<1> QED
  BY <1>7, <1>8, <1>9, <1>10, <1>11, <1>12, <1>13, <1>14, <1>15

\* The tasks of some steps; no two of them are of one task.
TasksOf(s) == {s[i].task : i \in 1..Len(s)}
OnceIn(s) == \A i, j \in 1..Len(s) : s[i].task = s[j].task => i = j

LEMMA StepsJoin ==
    ASSUME NEW X, NEW s \in Seq(X), NEW r \in Seq(X), OnceIn(s), OnceIn(r),
           TasksOf(s) \cap TasksOf(r) = {}
    PROVE  s \o r \in Seq(X) /\ OnceIn(s \o r) /\ TasksOf(s \o r) = TasksOf(s) \cup TasksOf(r)
<1> DEFINE all == s \o r
<1>1. /\ all \in Seq(X) /\ Len(s) \in Nat /\ Len(r) \in Nat /\ Len(all) = Len(s) + Len(r)
      /\ \A i \in 1..Len(s) : all[i] = s[i]
      /\ \A i \in 1..Len(r) : all[Len(s) + i] = r[i]
  OBVIOUS
<1> HIDE DEF all
<1>2. \A i \in 1..Len(all) : \/ i \in 1..Len(s) /\ all[i] = s[i]
                             \/ \E k \in 1..Len(r) : i = Len(s) + k /\ all[i] = r[k]
  <2> TAKE i \in 1..Len(all)
  <2>1. CASE i \in 1..Len(s)
    BY <1>1, <2>1
  <2>2. CASE i \notin 1..Len(s)
    <3> DEFINE k == i - Len(s)
    <3>1. k \in 1..Len(r) /\ i = Len(s) + k
      BY <1>1, <2>2
    <3> HIDE DEF k
    <3>2. all[i] = r[k]
      BY <1>1, <3>1
    <3> QED
      BY <3>1, <3>2
  <2> QED
    BY <2>1, <2>2
<1>3. /\ \A i \in 1..Len(s) : i \in 1..Len(all)
      /\ \A i \in 1..Len(r) : Len(s) + i \in 1..Len(all)
  BY <1>1
<1>4. TasksOf(all) = TasksOf(s) \cup TasksOf(r)
  <2>1. \A i \in 1..Len(all) : all[i].task \in TasksOf(s) \cup TasksOf(r)
    BY <1>2 DEF TasksOf
  <2>2. TasksOf(s) \subseteq TasksOf(all)
    BY <1>1, <1>3 DEF TasksOf
  <2>3. TasksOf(r) \subseteq TasksOf(all)
    <3>1. ASSUME NEW k \in 1..Len(r) PROVE r[k].task \in TasksOf(all)
      <4>1. Len(s) + k \in 1..Len(all) /\ all[Len(s) + k] = r[k]
        BY <1>1, <1>3
      <4> QED
        BY <4>1 DEF TasksOf
    <3> QED
      BY <3>1 DEF TasksOf
  <2>4. TasksOf(all) \subseteq TasksOf(s) \cup TasksOf(r)
    BY <2>1 DEF TasksOf
  <2> QED
    BY <2>2, <2>3, <2>4
<1>5. OnceIn(all)
  <2> SUFFICES ASSUME NEW i \in 1..Len(all), NEW j \in 1..Len(all), all[i].task = all[j].task
               PROVE  i = j
    BY DEF OnceIn
  <2>1. \A m \in 1..Len(s), k \in 1..Len(r) : s[m].task # r[k].task
    BY DEF TasksOf
  <2>2. ASSUME i \in 1..Len(s), all[i] = s[i] PROVE i = j
    <3>1. j \in 1..Len(s) /\ all[j] = s[j]
      BY <1>2, <2>1, <2>2
    <3> QED
      BY <2>2, <3>1 DEF OnceIn
  <2>3. ASSUME NEW k \in 1..Len(r), i = Len(s) + k, all[i] = r[k] PROVE i = j
    <3>1. PICK m \in 1..Len(r) : j = Len(s) + m /\ all[j] = r[m]
      BY <1>2, <2>1, <2>3
    <3> QED
      BY <2>3, <3>1 DEF OnceIn
  <2> QED
    BY <1>2, <2>2, <2>3
<1> QED
  BY <1>1, <1>4, <1>5 DEF all

\* The concurrent run main plans waits for nothing in itself, and what the guards
\* of its first tasks come to is known.
LEMMA PlanIs ==
    ASSUME LoopInv, HereIs({"action"}), ~HereDecides({"excluded"})
    PROVE  /\ at \in Positions /\ Planned \in (at + 1)..(Len(order) + 1)
           /\ \A p \in at..(Planned - 1) :
                 \A s \in deps[order[p]] : \E q \in 1..(at - 1) : order[q] = s
           /\ \A p \in at..(Planned - 1) : p \in Positions /\ order[p] \notin skipped
           /\ GuardEnd(Planned) \in at..Planned
           /\ \A p \in at..(GuardEnd(Planned) - 1) :
                 Decision(def, order[p], skipped, exports) \in {"true", "false", "disabled"}
<1>1. /\ at \in Positions /\ Sound(def) /\ Len(order) \in Nat /\ Here = order[at]
      /\ at \in 1..Len(order)
  BY OrderIs DEF LoopInv, Shape, Going, HereIs, Here, Positions
<1>2. Here \notin skipped
  BY DEF HereDecides, Decision
<1> DEFINE last == Planned
<1>3. /\ last \in (at + 1)..(Len(order) + 1)
      /\ \A p \in (at + 1)..(last - 1) :
            /\ order[p] \notin skipped
            /\ \A i \in at..(p - 1) : order[i] \notin deps[order[p]]
  BY <1>1, PlannedIs
<1> HIDE DEF last
<1>4. last \in Nat /\ at \in Nat /\ at <= last
  BY <1>1, <1>3
<1>5. \A p \in at..(last - 1) : p = at \/ p \in (at + 1)..(last - 1)
  BY <1>1, <1>3
<1>6. \A p \in at..(last - 1) : p \in Positions /\ order[p] \notin skipped
  BY <1>1, <1>2, <1>3, <1>5 DEF Positions
<1>7. ASSUME NEW p \in at..(last - 1), NEW s \in deps[order[p]]
      PROVE  \E q \in 1..(at - 1) : order[q] = s
  <2>1. PICK q \in 1..(p - 1) : order[q] = s
    BY <1>1, <1>6, <1>7, OrderIs
  <2>2. CASE p = at
    BY <2>1, <2>2
  <2>3. CASE p \in (at + 1)..(last - 1)
    <3>1. q \notin at..(p - 1)
      BY <1>3, <1>7, <2>1, <2>3
    <3>2. q \in 1..(at - 1)
      BY <1>4, <2>1, <2>3, <3>1
    <3> QED
      BY <2>1, <3>2
  <2> QED
    BY <1>5, <1>7, <2>2, <2>3
<1> DEFINE e == GuardEnd(last)
<1>8. e \in at..last /\ \A i \in at..(e - 1) : Decision(def, order[i], skipped, exports) # "error"
  BY <1>4, GuardEndIs
<1> HIDE DEF e
<1>9. \A p \in at..(e - 1) : p \in at..(last - 1)
  BY <1>4, <1>8
<1>10. ASSUME NEW p \in at..(e - 1)
       PROVE  Decision(def, order[p], skipped, exports) \in {"true", "false", "disabled"}
  <2>1. order[p] \in Tasks(def) /\ order[p] \notin skipped
    BY <1>6, <1>9, OrderIs
  <2>2. Verdict(def, order[p], exports) \in {"true", "false", "error"}
    BY <2>1 DEF Verdict, LoopInv, Fixed
  <2>3. Decision(def, order[p], skipped, exports) \in {"disabled", Verdict(def, order[p], exports)}
    BY <2>1 DEF Decision
  <2> QED
    BY <1>8, <2>2, <2>3
<1> QED
  BY <1>1, <1>3, <1>6, <1>7, <1>8, <1>10 DEF e, last

\* What SendOff decides of the positions before e, where it stops.
LEMMA SendOffKeeps ==
    ASSUME LoopInv, SendOff
    PROVE  LoopInv'
<1> DEFINE last == Planned
           e == GuardEnd(Planned)
           decided(i) == Decision(def, order[i], skipped, exports)
           UnwantedAt == {i \in at..(e - 1) : decided(i) \in {"false", "disabled"}}
           WantedAt == {i \in at..(e - 1) : decided(i) \in {"true"}}
           unwanted == Ascending(at, e, UnwantedAt)
           wanted == Ascending(at, e, WantedAt)
           bad == IF e < last THEN << Step(order[e], "failed", e) >> ELSE << >>
           skips == [i \in 1..Len(unwanted) |-> Step(order[unwanted[i]], "skipped", unwanted[i])]
           U == {order[i] : i \in UnwantedAt}
           W == {order[i] : i \in WantedAt}
<1>1. /\ entry' = [t \in Tasks(def) |-> CASE t \in U -> "skipped"
                                          [] t \in W -> "running"
                                          [] e < last /\ t = order[e] -> "failed"
                                          [] OTHER -> entry[t]]
      /\ steps' = (steps \o skips) \o bad
      /\ e < last => Settle("failed") /\ UNCHANGED <<at, sent, flight>>
      /\ ~(e < last) /\ WantedAt = {} =>
            status' = status /\ pc' = "look" /\ at' = last /\ UNCHANGED <<sent, flight>>
      /\ ~(e < last) /\ WantedAt # {} =>
            /\ status' = status /\ pc' = "collect" /\ at' = at
            /\ sent' = [i \in 1..Len(wanted) |-> order[wanted[i]]]
            /\ flight' = [t \in Tasks(def) |-> IF t \in W THEN "spawned" ELSE "none"]
      /\ UNCHANGED <<runVars, skipped, exports, collected, cancel>>
      /\ HereIs({"action"}) /\ ~HereDecides({"excluded"})
  BY DEF SendOff
<1> HIDE DEF last, e, U, W, bad, skips, unwanted, wanted
<1>2. /\ pc = "step" /\ at \in Positions /\ Sound(def) /\ Len(order) \in Nat /\ at \in 1..Len(order)
      /\ status = "running" /\ sent = << >> /\ collected = {} /\ cancel \in BOOLEAN
  BY <1>1, OrderIs DEF LoopInv, Shape, Sending, Going, HereIs, Positions
<1>3. /\ def' = def /\ luck' = luck /\ deps' = deps /\ order' = order
      /\ resumed' = resumed /\ restored' = restored /\ results' = results
      /\ skipped' = skipped /\ exports' = exports /\ collected' = collected /\ cancel' = cancel
  BY <1>1 DEF runVars
<1>4. Positions' = Positions /\ StepsOf' = StepsOf
  BY <1>3 DEF Positions, StepsOf
<1>5. /\ last \in (at + 1)..(Len(order) + 1) /\ e \in at..last
      /\ \A p \in at..(last - 1) : \A s \in deps[order[p]] : \E q \in 1..(at - 1) : order[q] = s
      /\ \A p \in at..(e - 1) : decided(p) \in {"true", "false", "disabled"}
  BY <1>1, PlanIs DEF last, e
<1>6. /\ at \in Nat /\ e \in Nat /\ last \in Nat /\ at <= e /\ e <= last /\ at < last
      /\ at..(at + (e - at) - 1) = at..(e - 1)
  BY <1>2, <1>5
<1>7. /\ \A p \in at..(last - 1) : p \in Positions /\ p \in at..Len(order)
      /\ \A p \in at..(e - 1) : p \in at..(last - 1)
      /\ e < last => e \in at..(last - 1)
      /\ e \notin at..(e - 1)
  BY <1>2, <1>5, <1>6 DEF Positions
<1>8. /\ \A p \in Positions : order[p] \in Tasks(def)
      /\ \A p, q \in Positions : order[p] = order[q] => p = q
  BY OrderIs
<1>9. /\ UnwantedAt \subseteq at..(e - 1) /\ WantedAt \subseteq at..(e - 1)
      /\ UnwantedAt \cap WantedAt = {}
      /\ \A p \in at..(e - 1) : p \in UnwantedAt \/ p \in WantedAt
  BY <1>5
<1> HIDE DEF UnwantedAt, WantedAt
<1>10. /\ unwanted \in Seq(Nat) /\ Placed(unwanted) = UnwantedAt
       /\ \A i, j \in 1..Len(unwanted) : i < j => unwanted[i] < unwanted[j]
  <2>1. FoundOf(unwanted, at, e - at, UnwantedAt)
    BY <1>6, AscendingIs DEF unwanted
  <2> QED
    BY <1>6, <1>9, <2>1 DEF FoundOf, Placed
<1>11. /\ wanted \in Seq(Nat) /\ Placed(wanted) = WantedAt
       /\ \A i \in 1..Len(wanted) : at + i - 1 <= wanted[i]
  <2>1. FoundOf(wanted, at, e - at, WantedAt)
    BY <1>6, AscendingIs DEF wanted
  <2> QED
    BY <1>6, <1>9, <2>1 DEF FoundOf, Placed
<1>12. U = {order[p] : p \in UnwantedAt} /\ W = {order[p] : p \in WantedAt}
  BY DEF U, W
<1>13. /\ \A p \in Positions : order[p] \in U <=> p \in UnwantedAt
       /\ \A p \in Positions : order[p] \in W <=> p \in WantedAt
  BY <1>7, <1>8, <1>9, <1>12
<1>14. U \subseteq Tasks(def) /\ W \subseteq Tasks(def) /\ U \cap W = {}
  BY <1>7, <1>8, <1>9, <1>12, <1>13
\* What becomes of the entries.
<1>15. /\ \A p \in UnwantedAt : entry'[order[p]] = "skipped"
       /\ \A p \in WantedAt : entry'[order[p]] = "running"
       /\ e < last => entry'[order[e]] = "failed"
       /\ \A t \in Tasks(def) : t \notin U /\ t \notin W /\ ~(e < last /\ t = order[e]) =>
             entry'[t] = entry[t]
       /\ entry' \in [Tasks(def) -> Entries]
  <2> DEFINE becomes(t) == CASE t \in U -> "skipped"
                             [] t \in W -> "running"
                             [] e < last /\ t = order[e] -> "failed"
                             [] OTHER -> entry[t]
  <2>0. \A t \in Tasks(def) : entry'[t] = becomes(t)
    BY <1>1
  <2>1. \A t \in U : entry'[t] = "skipped"
    <3> TAKE t \in U
    <3>1. t \in Tasks(def) /\ t \in U /\ t \notin W /\ ~(e < last /\ t = order[e])
      BY <1>7, <1>8, <1>9, <1>13, <1>14
    <3> QED
      BY <2>0, <3>1
  <2>2. \A t \in W : entry'[t] = "running"
    <3> TAKE t \in W
    <3>1. t \in Tasks(def) /\ t \in W /\ t \notin U /\ ~(e < last /\ t = order[e])
      BY <1>7, <1>8, <1>9, <1>13, <1>14
    <3> QED
      BY <2>0, <3>1
  <2>3. e < last => order[e] \in Tasks(def) /\ order[e] \notin U /\ order[e] \notin W
    BY <1>7, <1>8, <1>9, <1>13
  <2>4. e < last => entry'[order[e]] = "failed"
    BY <1>1, <2>3
  <2>5. \A t \in Tasks(def) : t \notin U /\ t \notin W /\ ~(e < last /\ t = order[e]) =>
           entry'[t] = entry[t]
    BY <1>1
  <2>6. \A t \in Tasks(def) : entry'[t] \in {"skipped", "running", "failed", entry[t]}
    BY <1>1
  <2>7. \A t \in Tasks(def) : entry'[t] \in Entries
    BY <2>6 DEF LoopInv, Shape, Entries
  <2> QED
    BY <1>1, <1>12, <2>1, <2>2, <2>4, <2>5, <2>7
<1>16. \A p \in Positions : p \notin at..(last - 1) => entry'[order[p]] = entry[order[p]]
  BY <1>7, <1>8, <1>9, <1>13, <1>15
<1>17. \A t \in Tasks(def) : entry'[t] = entry[t] \/ \E p \in at..(last - 1) : t = order[p]
  BY <1>7, <1>9, <1>12, <1>15
\* What is recorded.
<1>18. \A p \in at..Len(order) : order[p] \notin DOMAIN restored /\ Untouched(p)
  BY <1>2 DEF LoopInv, Ahead, Going
<1>19. \A p \in at..(last - 1) : order[p] \notin Recorded
  BY <1>7, <1>18 DEF Untouched
<1>20. /\ skips \in Seq(StepsOf) /\ OnceIn(skips) /\ TasksOf(skips) = U
  <2>1. Len(unwanted) \in Nat /\ \A i \in 1..Len(unwanted) : unwanted[i] \in Nat /\ unwanted[i] \in UnwantedAt
    BY <1>10 DEF Placed
  <2>2. \A i \in 1..Len(unwanted) : unwanted[i] \in Positions /\ order[unwanted[i]] \in Tasks(def)
    BY <1>7, <1>8, <1>9, <2>1
  <2>3. \A i \in 1..Len(unwanted) : Step(order[unwanted[i]], "skipped", unwanted[i]) \in StepsOf
    BY <2>2 DEF Step, StepsOf, Entries
  <2>4. skips \in Seq(StepsOf) /\ Len(skips) = Len(unwanted)
    BY <2>1, <2>3 DEF skips
  <2>5. \A i \in 1..Len(skips) : skips[i].task = order[unwanted[i]]
    BY <2>4 DEF skips, Step
  <2>6. \A i, j \in 1..Len(unwanted) : unwanted[i] = unwanted[j] => i = j
    BY <1>10, <2>1
  <2>7. OnceIn(skips)
    BY <1>8, <2>2, <2>4, <2>5, <2>6 DEF OnceIn
  <2>8. TasksOf(skips) = U
    <3>1. TasksOf(skips) = {order[q] : q \in Placed(unwanted)}
      BY <2>4, <2>5 DEF TasksOf, Placed
    <3> QED
      BY <1>10, <3>1 DEF U
  <2> QED
    BY <2>4, <2>7, <2>8
<1>21. /\ bad \in Seq(StepsOf) /\ OnceIn(bad)
       /\ TasksOf(bad) = IF e < last THEN {order[e]} ELSE {}
  <2>1. CASE e < last
    <3> DEFINE x == Step(order[e], "failed", e)
    <3>1. x \in StepsOf /\ x.task = order[e]
      BY <1>7, <1>8, <2>1 DEF Step, StepsOf, Entries
    <3> HIDE DEF x
    <3>2. bad = << x >>
      BY <2>1 DEF bad, x
    <3>3. << x >> \in Seq(StepsOf) /\ Len(<< x >>) = 1 /\ << x >>[1] = x
      BY <3>1
    <3>4. 1..Len(bad) = {1} /\ bad[1] = x /\ bad \in Seq(StepsOf)
      BY <3>2, <3>3
    <3> QED
      BY <2>1, <3>1, <3>4 DEF OnceIn, TasksOf
  <2>2. CASE ~(e < last)
    <3>1. bad = << >> /\ << >> \in Seq(StepsOf) /\ 1..Len(<< >>) = {}
      BY <2>2 DEF bad
    <3> QED
      BY <2>2, <3>1 DEF OnceIn, TasksOf
  <2> QED
    BY <2>1, <2>2
<1>22. /\ steps' \in Seq(StepsOf) /\ OnceIn(steps')
       /\ Recorded' = (Recorded \cup U) \cup (IF e < last THEN {order[e]} ELSE {})
  <2>1. steps \in Seq(StepsOf) /\ OnceIn(steps) /\ TasksOf(steps) = Recorded
    BY DEF LoopInv, Shape, Once, OnceIn, TasksOf, Recorded
  <2>2. U \cap Recorded = {}
    BY <1>7, <1>9, <1>12, <1>19
  <2> DEFINE some == steps \o skips
  <2>3. some \in Seq(StepsOf) /\ OnceIn(some) /\ TasksOf(some) = Recorded \cup U
    BY <1>20, <2>1, <2>2, StepsJoin
  <2>4. (Recorded \cup U) \cap TasksOf(bad) = {}
    BY <1>7, <1>9, <1>13, <1>19, <1>21
  <2> HIDE DEF some
  <2> DEFINE all == some \o bad
  <2>5. all \in Seq(StepsOf) /\ OnceIn(all) /\ TasksOf(all) = (Recorded \cup U) \cup TasksOf(bad)
    BY <1>21, <2>3, <2>4, StepsJoin
  <2>6. steps' = all
    BY <1>1 DEF some
  <2> HIDE DEF all
  <2>7. Recorded' = TasksOf(steps')
    BY DEF Recorded, TasksOf
  <2> QED
    BY <1>21, <2>5, <2>6, <2>7
<1>23. /\ at' \in {at, last} /\ at' \in 1..(Len(order) + 1)
       /\ pc' \in {"settled", "look", "collect"}
       /\ pc' = "settled" => e < last /\ at' = at /\ status' \in {"failed", "cancelled"}
       /\ pc' # "settled" => e = last /\ status' = "running"
       /\ pc' = "look" => at' = last /\ WantedAt = {}
       /\ pc' = "collect" => at' = at
       /\ pc' # "collect" => sent' = << >> /\ flight' = flight
  <2>2. at \in 1..(Len(order) + 1) /\ last \in 1..(Len(order) + 1)
    BY <1>2, <1>5
  <2>3. CASE e < last
    BY <1>1, <1>2, <2>2, <2>3 DEF Settle
  <2>4. CASE ~(e < last)
    BY <1>1, <1>2, <1>6, <2>2, <2>4
  <2> QED
    BY <2>3, <2>4
<1>24. pc' = "collect" =>
          /\ sent' \in Seq(Tasks(def)) /\ Sent' = W
          /\ flight' = [t \in Tasks(def) |-> IF t \in W THEN "spawned" ELSE "none"]
          /\ \A i \in 1..Len(sent') :
                \E q \in (at + i - 1)..(last - 1) : q \in Positions /\ sent'[i] = order[q]
  <2> SUFFICES ASSUME pc' = "collect"
               PROVE  /\ sent' \in Seq(Tasks(def)) /\ Sent' = W
                      /\ flight' = [t \in Tasks(def) |-> IF t \in W THEN "spawned" ELSE "none"]
                      /\ \A i \in 1..Len(sent') :
                            \E q \in (at + i - 1)..(last - 1) : q \in Positions /\ sent'[i] = order[q]
    OBVIOUS
  <2>1. /\ sent' = [i \in 1..Len(wanted) |-> order[wanted[i]]]
        /\ flight' = [t \in Tasks(def) |-> IF t \in W THEN "spawned" ELSE "none"]
    BY <1>1 DEF Settle
  <2>2. Len(wanted) \in Nat /\ \A i \in 1..Len(wanted) : wanted[i] \in Nat /\ wanted[i] \in WantedAt
    BY <1>11 DEF Placed
  <2>3. \A i \in 1..Len(wanted) : wanted[i] \in Positions /\ order[wanted[i]] \in Tasks(def)
                                  /\ wanted[i] \in at..(last - 1)
    BY <1>7, <1>8, <1>9, <2>2
  <2>4. sent' \in Seq(Tasks(def)) /\ Len(sent') = Len(wanted)
    BY <2>1, <2>2, <2>3
  <2>5. \A i \in 1..Len(wanted) : sent'[i] = order[wanted[i]]
    BY <2>1
  <2>6. Sent' = W
    <3>1. Sent' = {order[q] : q \in Placed(wanted)}
      BY <2>4, <2>5 DEF Sent, Placed
    <3> QED
      BY <1>11, <3>1 DEF W
  <2>7. \A i \in 1..Len(wanted) : wanted[i] \in (at + i - 1)..(last - 1)
    BY <1>6, <1>11, <2>2, <2>3
  <2> QED
    BY <2>1, <2>3, <2>4, <2>5, <2>6, <2>7
<1>25. Planned' = last \/ pc' # "collect"
  BY <1>3, <1>23 DEF Planned, last
<1>26. Fixed'
  BY <1>1, <1>2, FixedStays DEF LoopInv
<1>27. Shape'
  <2>1. sent' \in Seq(Tasks(def)) /\ flight' \in [Tasks(def) -> Flights]
    <3>1. << >> \in Seq(Tasks(def))
      OBVIOUS
    <3> QED
      BY <1>23, <1>24, <3>1 DEF LoopInv, Shape, Flights
  <2>2. status' \in {"running"} \cup Settled /\ (status' = "running") = (pc' # "settled")
    BY <1>23 DEF Settled
  <2>3. pc' = "collect" => at' \in Positions
    BY <1>2, <1>23
  <2> QED
    BY <1>2, <1>3, <1>4, <1>15, <1>22, <1>23, <2>1, <2>2, <2>3 DEF LoopInv, Shape, Going
<1>28. Sending'
  BY <1>2, <1>3, <1>4, <1>23, <1>24, <1>25 DEF Sending, Going
<1>29. Behind'
  <2>1. ASSUME NEW p \in 1..(at' - 1)
        PROVE  \/ order[p] \in DOMAIN restored
               \/ order[p] \in Recorded' /\ entry'[order[p]] \in {"success", "skipped"}
    <3>1. CASE p \in 1..(at - 1)
      <4>1. p \in Positions /\ p \notin at..(last - 1)
        BY <1>2, <3>1 DEF Positions
      <4> QED
        BY <1>16, <1>22, <3>1, <4>1 DEF LoopInv, Behind
    <3>2. CASE p \notin 1..(at - 1)
      <4>0. at' = last
        BY <1>23, <2>1, <3>2
      <4>1. at' # at /\ p \in at..(last - 1)
        BY <1>6, <2>1, <3>2, <4>0
      <4>2. pc' = "look" /\ e = last
        BY <1>23, <4>1
      <4>3. p \in UnwantedAt
        BY <1>9, <1>23, <4>1, <4>2
      <4> QED
        BY <1>12, <1>15, <1>22, <4>3
    <3> QED
      BY <3>1, <3>2
  <2> QED
    BY <1>3, <2>1 DEF Behind
<1>30. Ahead'
  <2>1. ASSUME pc' # "settled", NEW p \in last..Len(order)
        PROVE  order[p] \notin DOMAIN restored /\ order[p] \notin Recorded' /\ entry'[order[p]] = "none"
    <3>1. p \in at..Len(order) /\ p \in Positions /\ p # at /\ p \notin at..(last - 1)
      BY <1>2, <1>6 DEF Positions
    <3>2. order[p] \notin Recorded /\ entry[order[p]] = "none" /\ order[p] \notin DOMAIN restored
      BY <1>18, <3>1 DEF Untouched
    <3>3. order[p] \notin U
      BY <1>7, <1>9, <1>13, <3>1
    <3>4. Recorded' = Recorded \cup U
      BY <1>6, <1>22, <1>23, <2>1
    <3>5. entry'[order[p]] = entry[order[p]]
      BY <1>16, <3>1
    <3> QED
      BY <3>2, <3>3, <3>4, <3>5
  <2>2. ASSUME pc' = "collect", NEW p \in at..(last - 1)
        PROVE  order[p] \notin DOMAIN restored /\ InRun(order[p])'
    <3>1. p \in UnwantedAt \/ p \in WantedAt
      BY <1>9, <1>23, <2>2
    <3>2. p \in Positions /\ order[p] \notin DOMAIN restored /\ order[p] \notin Recorded
      BY <1>7, <1>18, <1>19
    <3>3. Recorded' = Recorded \cup U /\ Sent' = W
      BY <1>6, <1>22, <1>23, <1>24, <2>2
    <3>4. CASE p \in UnwantedAt
      <4>1. order[p] \in U /\ order[p] \notin W
        BY <1>9, <1>13, <3>2, <3>4
      <4>2. entry'[order[p]] = "skipped"
        BY <1>15, <3>4
      <4> QED
        BY <1>3, <3>2, <3>3, <4>1, <4>2 DEF InRun
    <3>5. CASE p \in WantedAt
      <4>1. order[p] \notin U /\ order[p] \in W
        BY <1>9, <1>13, <3>2, <3>5
      <4>2. entry'[order[p]] = "running"
        BY <1>15, <3>5
      <4> QED
        BY <1>3, <3>2, <3>3, <4>1, <4>2 DEF InRun
    <3> QED
      BY <3>1, <3>4, <3>5
  <2>3. CASE pc' = "collect"
    <3>1. at' = at /\ Planned' = last
      BY <1>23, <1>25, <2>3
    <3>2. \A p \in at..Len(order) : IF p < last THEN p \in at..(last - 1) ELSE p \in last..Len(order)
      BY <1>2, <1>6
    <3> QED
      BY <1>3, <2>1, <2>2, <2>3, <3>1, <3>2 DEF Ahead, Going, Untouched
  <2>4. CASE pc' = "look"
    BY <1>3, <1>23, <2>1, <2>4 DEF Ahead, Going, Untouched
  <2>5. CASE pc' = "settled"
    BY <2>5 DEF Ahead
  <2> QED
    BY <1>23, <2>3, <2>4, <2>5
<1>31. InTurn'
  <2>1. ASSUME NEW t \in Tasks(def), Started(t)'
        PROVE  \A s \in deps[t] : \E q \in 1..(at - 1) : order[q] = s
    <3>1. CASE entry'[t] = entry[t]
      BY <2>1, <3>1 DEF LoopInv, InTurn, Started
    <3>2. CASE \E p \in at..(last - 1) : t = order[p]
      BY <1>5, <3>2
    <3> QED
      BY <1>17, <3>1, <3>2
  <2>2. \A q \in 1..(at - 1) : q \in 1..(at' - 1)
    <3>1. at \in Nat /\ at' \in Nat /\ at <= at'
      BY <1>6, <1>23
    <3>2. \A a, b \in Nat : a <= b => \A q \in 1..(a - 1) : q \in 1..(b - 1)
      OBVIOUS
    <3> QED
      BY <3>1, <3>2
  <2> QED
    BY <1>2, <1>3, <2>1, <2>2 DEF InTurn
<1>32. Once' /\ Flown' /\ Complete'
  <2>1. Once' /\ Complete'
    BY <1>22, <1>23 DEF Once, OnceIn, Complete
  <2>2. Flown'
    <3>1. CASE pc' = "collect"
      BY <1>3, <1>24, <3>1 DEF Flown, Going
    <3>2. CASE pc' # "collect"
      BY <1>2, <1>3, <1>22, <1>23, <3>2 DEF LoopInv, Flown, Going
    <3> QED
      BY <3>1, <3>2
  <2> QED
    BY <2>1, <2>2
<1> QED
  BY <1>26, <1>27, <1>28, <1>29, <1>30, <1>31, <1>32 DEF LoopInv

LEMMA ApplyOutcomeKeeps ==
    ASSUME LoopInv, ApplyOutcome
    PROVE  LoopInv'
<1> DEFINE i == Least(Unapplied)
           t == sent[i]
           outcome == IF t \notin collected THEN "cancelled"
                      ELSE IF flight[t] = "ok" THEN "success" ELSE "failed"
<1>1. /\ pc = "apply" /\ Unapplied # {}
      /\ entry' = [entry EXCEPT ![t] = outcome]
      /\ steps' = Append(steps, Step(t, outcome, Position(i)))
      /\ exports' \in {exports, exports \cup {t}}
      /\ def' = def /\ luck' = luck /\ deps' = deps /\ order' = order
      /\ resumed' = resumed /\ restored' = restored /\ results' = results /\ pc' = pc
      /\ at' = at /\ skipped' = skipped /\ cancel' = cancel /\ status' = status
      /\ sent' = sent /\ flight' = flight /\ collected' = collected
  BY DEF ApplyOutcome, runVars, taskVars
<1>2. outcome = Came(t)
  BY DEF Came
<1>3. i \in 1..Len(sent) /\ t \notin Recorded
  <2> DEFINE B == Unapplied
  <2>1. B \in SUBSET Nat /\ B # {} /\ \A k \in B : k \in 1..Len(sent) /\ sent[k] \notin Recorded
    BY <1>1 DEF Unapplied
  <2> HIDE DEF B
  <2>2. Least(B) \in B
    BY <2>1, LeastIs
  <2> QED
    BY <2>1, <2>2 DEF B
<1> HIDE DEF i, t, outcome
<1>4. /\ at \in Positions /\ Sound(def) /\ Len(order) \in Nat /\ at \in 1..Len(order)
      /\ sent \in Seq(Tasks(def)) /\ status = "running"
  BY <1>1, OrderIs DEF LoopInv, Shape, Going, Positions
<1>5. t = sent[i] /\ t \in Sent /\ t \in Tasks(def)
  BY <1>3, <1>4 DEF t, Sent
<1>6. PICK p \in (at + i - 1)..(Planned - 1) : p \in Positions /\ t = order[p]
  BY <1>1, <1>3, <1>5 DEF LoopInv, Sending, Going
<1> DEFINE last == Planned
<1>7. /\ last \in (at + 1)..(Len(order) + 1)
  BY <1>4, PlannedIs
<1> HIDE DEF last
<1>8. /\ p \in at..Len(order) /\ p < last /\ at + i - 1 \in Positions
      /\ p \in (at + i - 1)..(last - 1) /\ p \in Nat /\ at <= p
  <2>1. p \in (at + i - 1)..(last - 1) /\ p \in Positions
    BY <1>6 DEF last
  <2>2. i \in Nat /\ 1 <= i
    BY <1>3, <1>4
  <2> QED
    BY <1>4, <1>7, <2>1, <2>2 DEF Positions
<1>9. /\ Sent' = Sent /\ Planned' = Planned /\ Positions' = Positions /\ StepsOf' = StepsOf
  BY <1>1 DEF Sent, Planned, Positions, StepsOf
<1>10. \A q \in at..Len(order) :
          /\ order[q] \notin DOMAIN restored
          /\ IF q < last THEN InRun(order[q]) ELSE Untouched(q)
  BY <1>1 DEF LoopInv, Ahead, Going, last
<1>11. entry[t] = "running"
  BY <1>3, <1>5, <1>6, <1>8, <1>10 DEF InRun
<1>12. Step(t, outcome, Position(i)) \in StepsOf /\ Step(t, outcome, Position(i)).task = t
  BY <1>2, <1>5, <1>8 DEF Step, StepsOf, Entries, Came, Position
<1>13. steps' \in Seq(StepsOf) /\ Recorded' = Recorded \cup {t} /\ Once'
  BY <1>1, <1>3, <1>12, RecordsOne DEF LoopInv, Shape
<1>14. /\ entry' \in [Tasks(def) -> Entries] /\ entry'[t] = Came(t)
       /\ \A s \in Tasks(def) : s # t => entry'[s] = entry[s]
  BY <1>1, <1>2, <1>5 DEF LoopInv, Shape, Entries, Came
<1>15. \A q \in Positions : order[q] \in Tasks(def) /\ (order[q] = t => q = p)
  BY <1>6, OrderIs
<1>16. Fixed'
  <2>1. UNCHANGED runVars
    BY <1>1 DEF runVars
  <2> QED
    BY <1>4, <2>1, FixedStays DEF LoopInv
<1>17. Shape'
  BY <1>1, <1>5, <1>9, <1>13, <1>14 DEF LoopInv, Shape, Going
<1>18. Sending'
  BY <1>1, <1>9 DEF LoopInv, Sending, Going
<1>19. Behind'
  <2>1. \A q \in 1..(at - 1) : q \in Positions /\ q # p
    BY <1>4, <1>8 DEF Positions
  <2> QED
    BY <1>1, <1>13, <1>14, <1>15, <2>1 DEF LoopInv, Behind
<1>20. Ahead'
  <2>1. ASSUME NEW q \in at..Len(order)
        PROVE  /\ order[q] \notin DOMAIN restored
               /\ IF q < last THEN InRun(order[q])' ELSE Untouched(q)'
    <3>1. q \in Positions /\ q \in Nat /\ at <= q
      BY <1>4 DEF Positions
    <3>2. CASE q = p
      <4>1. InRun(order[q])'
        BY <1>1, <1>5, <1>6, <1>9, <1>13, <1>14, <3>2 DEF InRun, Came
      <4> QED
        BY <1>8, <1>10, <3>2, <4>1
    <3>3. CASE q # p
      <4>1. order[q] # t /\ entry'[order[q]] = entry[order[q]]
        BY <1>14, <1>15, <3>1, <3>3
      <4>2. InRun(order[q]) => InRun(order[q])'
        BY <1>1, <1>9, <1>13, <4>1 DEF InRun, Came
      <4>3. Untouched(q) => Untouched(q)'
        BY <1>1, <1>13, <4>1 DEF Untouched
      <4> QED
        BY <1>10, <4>2, <4>3
    <3> QED
      BY <3>2, <3>3
  <2>2. Going({"collect", "apply"})' /\ Planned' = last
    BY <1>1, <1>9 DEF Going, last
  <2> QED
    BY <1>1, <2>1, <2>2 DEF Ahead
<1>21. InTurn'
  <2>1. \A s \in Tasks(def) : Started(s)' => Started(s)
    BY <1>11, <1>14 DEF Started
  <2> QED
    BY <1>1, <2>1 DEF LoopInv, InTurn
<1>22. Flown' /\ Complete'
  BY <1>1, <1>4, <1>9, <1>13 DEF LoopInv, Flown, Complete, Going
<1> QED
  BY <1>13, <1>16, <1>17, <1>18, <1>19, <1>20, <1>21, <1>22 DEF LoopInv

\* How a concurrent run ends.
LEMMA EndRunEnds ==
    ASSUME LoopInv, EndRun
    PROVE  \/ pc' = "settled" /\ at' = at /\ status' \in {"failed", "cancelled"}
           \/ /\ pc' = "look" /\ at' = Planned /\ status' = status
              /\ Sent \subseteq collected /\ \A t \in Sent : flight[t] = "ok"
<1>1. pc = "apply"
  BY DEF EndRun
<1>2. CASE ~(Sent \subseteq collected)
  BY <1>2 DEF EndRun, Settle
<1>3. CASE Sent \subseteq collected /\ \E t \in Sent : flight[t] = "failed"
  <2>1. Settle("failed") /\ at' = at
    BY <1>3 DEF EndRun
  <2> QED
    BY <2>1 DEF Settle
<1>4. CASE Sent \subseteq collected /\ ~(\E t \in Sent : flight[t] = "failed")
  <2>1. \A t \in collected : flight[t] \in {"ok", "failed"}
    BY <1>1 DEF LoopInv, Sending, Going
  <2>2. \A t \in Sent : flight[t] = "ok"
    BY <1>4, <2>1
  <2> QED
    BY <1>4, <2>2 DEF EndRun
<1> QED
  BY <1>2, <1>3, <1>4

LEMMA EndRunKeeps ==
    ASSUME LoopInv, EndRun
    PROVE  LoopInv'
<1> DEFINE last == Planned
<1>1. /\ pc = "apply" /\ Unapplied = {}
      /\ def' = def /\ luck' = luck /\ deps' = deps /\ order' = order
      /\ resumed' = resumed /\ restored' = restored /\ results' = results
      /\ entry' = entry /\ steps' = steps /\ skipped' = skipped /\ exports' = exports
      /\ flight' = flight /\ cancel' = cancel /\ sent' = << >> /\ collected' = {}
  BY DEF EndRun, runVars
<1>2. \/ pc' = "settled" /\ at' = at /\ status' \in {"failed", "cancelled"}
      \/ /\ pc' = "look" /\ at' = last /\ status' = status
         /\ Sent \subseteq collected /\ \A t \in Sent : flight[t] = "ok"
  BY EndRunEnds
<1>3. /\ at \in Positions /\ Sound(def) /\ Len(order) \in Nat /\ at \in 1..Len(order)
      /\ status = "running"
  BY <1>1, OrderIs DEF LoopInv, Shape, Going, Positions
<1>4. last \in (at + 1)..(Len(order) + 1)
  BY <1>3, PlannedIs
<1>5. \A p \in at..Len(order) :
         /\ order[p] \notin DOMAIN restored
         /\ IF p < last THEN InRun(order[p]) ELSE Untouched(p)
  BY <1>1 DEF LoopInv, Ahead, Going
<1> HIDE DEF last
<1>6. Sent \subseteq Recorded
  BY <1>1 DEF Unapplied, Sent
<1>7. /\ Recorded' = Recorded /\ Sent' = {} /\ Positions' = Positions /\ StepsOf' = StepsOf
  BY <1>1 DEF Recorded, Sent, Positions, StepsOf
<1>8. at' \in Nat /\ at \in Nat /\ last \in Nat /\ at <= at' /\ at' \in 1..(Len(order) + 1)
      /\ at < last
  BY <1>2, <1>3, <1>4
<1>9. Fixed'
  <2>1. UNCHANGED runVars
    BY <1>1 DEF runVars
  <2> QED
    BY <1>3, <2>1, FixedStays DEF LoopInv
<1>10. Shape'
  <2>1. << >> \in Seq(Tasks(def))
    OBVIOUS
  <2> QED
    BY <1>1, <1>2, <1>3, <1>7, <1>8, <2>1 DEF LoopInv, Shape, Going, Settled
<1>11. Sending'
  BY <1>1, <1>2 DEF Sending, Going
<1>12. Behind'
  <2>1. ASSUME NEW p \in 1..(at' - 1)
        PROVE  \/ order[p] \in DOMAIN restored
               \/ order[p] \in Recorded /\ entry[order[p]] \in {"success", "skipped"}
    <3>1. CASE p \in 1..(at - 1)
      BY <3>1 DEF LoopInv, Behind
    <3>2. CASE p \notin 1..(at - 1)
      <4>1. at' # at
        BY <2>1, <3>2
      <4>2. /\ at' = last /\ Sent \subseteq collected /\ \A t \in Sent : flight[t] = "ok"
        BY <1>2, <4>1
      <4>3. p \in at..Len(order) /\ p < last
        BY <1>4, <1>3, <1>8, <2>1, <3>2, <4>2
      <4>4. InRun(order[p])
        BY <1>5, <4>3
      <4> QED
        BY <1>6, <4>2, <4>4 DEF InRun, Came
    <3> QED
      BY <3>1, <3>2
  <2> QED
    BY <1>1, <1>7, <2>1 DEF Behind
<1>13. Ahead'
  <2>1. ASSUME pc' # "settled", NEW p \in at'..Len(order)
        PROVE  order[p] \notin DOMAIN restored /\ order[p] \notin Recorded /\ entry[order[p]] = "none"
    <3>1. at' = last
      BY <1>2, <2>1
    <3>2. p \in at..Len(order) /\ ~(p < last) /\ p # at
      BY <1>3, <1>8, <2>1, <3>1
    <3> QED
      BY <1>5, <3>2 DEF Untouched
  <2>2. ~Going({"collect", "apply"})'
    BY <1>2 DEF Going
  <2> QED
    BY <1>1, <1>7, <2>1, <2>2 DEF Ahead, Untouched
<1>14. InTurn'
  <2>1. \A q \in 1..(at - 1) : q \in 1..(at' - 1)
    <3>1. \A a, b \in Nat : a <= b => \A q \in 1..(a - 1) : q \in 1..(b - 1)
      OBVIOUS
    <3> QED
      BY <1>8, <3>1
  <2> QED
    BY <1>1, <2>1 DEF LoopInv, InTurn, Started
<1>15. Once' /\ Flown' /\ Complete'
  BY <1>1, <1>2, <1>3, <1>6, <1>7 DEF LoopInv, Once, Flown, Complete, Going
<1> QED
  BY <1>9, <1>10, <1>11, <1>12, <1>13, <1>14, <1>15 DEF LoopInv

\* What restoring the k-th task of ord adds to what is skipped.
RestoredNext(d, t, out) ==
    IF t \in out \/ (t \in Recorded /\ Outcome(t) = "skipped")
    THEN out \cup {t} \cup Branches(d, t)
    ELSE out \cup (IF t \in Conditions(d) THEN ExcludedBy(d, t, Result(def, t)) ELSE {})

LEMMA RestoredSkipsIs ==
    ASSUME NEW d, IsDefinition(d), NEW ord \in Seq(Tasks(d))
    PROVE  LET out == RestoredSkips(d, ord)
           IN  /\ out[0] = {} /\ \A k \in 1..Len(ord) : out[k] = RestoredNext(d, ord[k], out[k - 1])
               /\ \A k \in 0..Len(ord) : out[k] \in SUBSET Tasks(d)
<1> DEFINE N == Len(ord)
           X == SUBSET Tasks(d)
           next(out, k) == RestoredNext(d, ord[k], out)
           Is(f) == f = [k \in 0..N |-> IF k = 0 THEN {} ELSE next(f[k - 1], k)]
           g == [p \in X \X (1..N) |-> next(p[1], p[2])]
<1>1. N \in Nat /\ {} \in X
  OBVIOUS
<1>2. \A out \in X, k \in 1..N : next(out, k) \in X
  <2> TAKE out \in X, k \in 1..N
  <2>1. ord[k] \in Tasks(d)
    OBVIOUS
  <2>2. Branches(d, ord[k]) \in X /\ \A result : ExcludedBy(d, ord[k], result) \in X
    BY <2>1, DefinitionIs DEF ExcludedBy
  <2> QED
    BY <2>1, <2>2 DEF RestoredNext
<1>3. g \in [X \X (1..N) -> X]
  BY <1>2
<1>4. \A out \in X, k \in 1..N : g[<<out, k>>] = next(out, k)
  OBVIOUS
<1> HIDE DEF X, g, N, next
<1>5. PICK h \in [0..N -> X] : Runs(h, N, {}, g)
  BY <1>1, <1>3, RunsExists
<1>6. Is(h)
  <2>1. \A k \in 0..N : h[k] = IF k = 0 THEN {} ELSE next(h[k - 1], k)
    <3> TAKE k \in 0..N
    <3>1. CASE k = 0
      BY <1>5, <3>1 DEF Runs
    <3>2. CASE k # 0
      <4>1. k \in 1..N /\ k - 1 \in 0..N
        BY <1>1, <3>2
      <4>2. h[k] = g[<<h[k - 1], k>>] /\ h[k - 1] \in X
        BY <1>5, <4>1 DEF Runs
      <4>3. h[k] = next(h[k - 1], k)
        BY <1>4, <4>1, <4>2
      <4> QED
        BY <3>2, <4>3
    <3> QED
      BY <3>1, <3>2
  <2> QED
    BY <2>1
<1> DEFINE F == CHOOSE f : Is(f)
<1>7. Is(F)
  BY <1>6
<1>8. RestoredSkips(d, ord) = F
  BY DEF RestoredSkips, N, next, RestoredNext
<1> HIDE DEF F
<1>9. \A k \in 0..N : F[k] = IF k = 0 THEN {} ELSE next(F[k - 1], k)
  BY <1>7
<1> HIDE DEF Is
<1> DEFINE Not == {k \in 0..N : F[k] \notin X}
<1>10. Not = {}
  <2> SUFFICES ASSUME Not # {} PROVE FALSE
    OBVIOUS
  <2>1. PICK k \in Not : \A m \in Not : k <= m
    <3>1. Not \in SUBSET Nat
      OBVIOUS
    <3> HIDE DEF Not
    <3> QED
      BY <3>1, LeastExists
  <2>2. k # 0
    BY <1>1, <1>9, <2>1
  <2>3. k \in 1..N /\ k - 1 \in 0..N /\ k - 1 \notin Not
    BY <1>1, <2>1, <2>2
  <2>4. F[k - 1] \in X /\ F[k] = next(F[k - 1], k)
    BY <1>9, <2>1, <2>2, <2>3
  <2>5. F[k] \in X
    BY <1>2, <2>3, <2>4
  <2> QED
    BY <2>1, <2>5
<1>11. F[0] = {} /\ \A k \in 1..N : F[k] = RestoredNext(d, ord[k], F[k - 1])
  <2>1. 0 \in 0..N /\ \A k \in 1..N : k \in 0..N /\ k # 0
    BY <1>1
  <2> QED
    BY <1>9, <2>1 DEF next
<1> QED
  BY <1>8, <1>10, <1>11 DEF N, X

LEMMA ResumeKeeps ==
    ASSUME LoopInv, NEW d \in {def} \cup Edits(def), NEW start \in Tasks(def), Resume(d, start)
    PROVE  LoopInv'
<1> DEFINE ord == ExecutionOrder(d, Dependencies(d))
           out == RestoredSkips(d, ord)[start - 1]
           before == {ord[i] : i \in 1..(start - 1)}
<1>1. /\ pc = "settled" /\ resumed = "no" /\ Sound(d)
      /\ deps' = Dependencies(d) /\ order' = ord
      /\ skipped' = out
      /\ restored' = [t \in before |-> IF t \in out THEN "skipped" ELSE "success"]
      /\ exports' \subseteq before
      /\ def' = d /\ at' = start /\ pc' = "look" /\ status' = "running" /\ cancel' = FALSE
      /\ entry' = [t \in Tasks(d) |-> "none"] /\ steps' = << >>
      /\ sent' = << >> /\ flight' = [t \in Tasks(d) |-> "none"] /\ collected' = {}
      /\ resumed' \in {"here", "edited"} /\ luck' = luck /\ results' \subseteq before
  BY DEF Resume, NoneOf
<1>2. /\ IsDefinition(d) /\ Tasks(d) = Tasks(def)
      /\ \A t \in Tasks(d) : d.guard[t] # "none" => def.guard[t] # "none"
  <2>1. def \in Definitions /\ IsDefinition(def)
    BY <1>1 DEF LoopInv, Fixed
  <2> QED
    BY <2>1, EditsAssumption
<1>3. /\ Dependencies(d) \in Graph(Tasks(d)) /\ Ordered(d, Dependencies(d), ord)
      /\ ord \in Seq(Tasks(d)) /\ Follows(d, Dependencies(d))
      /\ \A t \in Tasks(d) : Declared(d)[t] \subseteq Dependencies(d)[t]
  BY <1>1, <1>2, SoundIsOrdered
<1> HIDE DEF ord
<1>4. /\ Len(ord) \in Nat /\ start \in 1..Len(ord)
      /\ \A p \in 1..Len(ord) : ord[p] \in Tasks(d)
      /\ \A p, q \in 1..Len(ord) : ord[p] = ord[q] => p = q
  <2>1. Len(ord) = Len(d.kind) /\ Tasks(d) = 1..Len(d.kind)
    BY <1>2, <1>3, DefinitionIs DEF Ordered
  <2>2. \A p, q \in 1..Len(ord) : ord[p] = ord[q] => p = q
    BY <1>3 DEF Ordered, Orderly
  <2>3. start \in 1..Len(ord) /\ Len(ord) \in Nat
    BY <1>2, <1>3, <2>1
  <2>4. \A p \in 1..Len(ord) : ord[p] \in Tasks(d)
    BY <1>3
  <2> QED
    BY <2>2, <2>3, <2>4
<1>5. out \subseteq Tasks(d)
  <2>1. start - 1 \in 0..Len(ord)
    BY <1>4
  <2> QED
    BY <1>2, <1>3, <2>1, RestoredSkipsIs
<1>6. before \subseteq Tasks(d) /\ \A p \in 1..(start - 1) : ord[p] \in before
  BY <1>4
<1>7. \A p \in start..Len(ord) : ord[p] \in Tasks(d) /\ ord[p] \notin before
  <2> TAKE p \in start..Len(ord)
  <2>1. p \in 1..Len(ord) /\ \A i \in 1..(start - 1) : i \in 1..Len(ord) /\ i # p
    BY <1>4
  <2> QED
    BY <1>4, <2>1
<1>8. DOMAIN restored' = before
  BY <1>1
<1> HIDE DEF out, before
<1>9. Tasks(def)' = Tasks(d) /\ Recorded' = {} /\ Sent' = {} /\ Len(order') = Len(ord)
  BY <1>1 DEF Tasks, Recorded, Sent
<1>10. Fixed'
  <2>1. \A t \in Tasks(d) : d.guard[t] # "none" => luck.verdict[t] \in {"true", "false", "error"}
    BY <1>2 DEF LoopInv, Fixed
  <2>2. luck.fails \subseteq Tasks(d)
    BY <1>2 DEF LoopInv, Fixed
  <2> QED
    BY <1>1, <1>2, <1>3, <1>6, <1>8, <1>9, <2>1, <2>2 DEF Fixed
<1>11. Shape'
  <2>1. << >> \in Seq(Tasks(d)) /\ << >> \in Seq(StepsOf')
    OBVIOUS
  <2>2. start \in 1..(Len(ord) + 1)
    BY <1>4
  <2> QED
    BY <1>1, <1>5, <1>6, <1>9, <2>1, <2>2 DEF Shape, Going, Entries, Flights
<1>12. Sending'
  BY <1>1 DEF Sending, Going
<1>13. Behind'
  BY <1>1, <1>6, <1>8 DEF Behind
<1>14. Ahead'
  BY <1>1, <1>7, <1>8, <1>9 DEF Ahead, Going, Untouched
<1>15. InTurn'
  BY <1>1, <1>9 DEF InTurn, Started
<1>16. Once' /\ Flown' /\ Complete'
  BY <1>1, <1>9 DEF Once, Flown, Complete
<1> QED
  BY <1>10, <1>11, <1>12, <1>13, <1>14, <1>15, <1>16 DEF LoopInv

(***************************************************************************)
(* Theorems                                                                *)
(***************************************************************************)
LEMMA StillKeeps ==
    ASSUME LoopInv, UNCHANGED vars
    PROVE  LoopInv'
<1>1. /\ def' = def /\ luck' = luck /\ pc' = pc /\ deps' = deps /\ order' = order /\ at' = at
      /\ skipped' = skipped /\ exports' = exports /\ entry' = entry /\ steps' = steps
      /\ sent' = sent /\ flight' = flight /\ collected' = collected /\ cancel' = cancel
      /\ status' = status /\ resumed' = resumed /\ restored' = restored /\ results' = results
  BY DEF vars
<1>2. /\ Recorded' = Recorded /\ Sent' = Sent /\ Planned' = Planned
      /\ Positions' = Positions /\ StepsOf' = StepsOf
  BY <1>1 DEF Recorded, Sent, Planned, Positions, StepsOf
<1>3. Fixed' /\ Shape'
  BY <1>1, <1>2 DEF LoopInv, Fixed, Shape, Going
<1>4. Sending' /\ Behind'
  BY <1>1, <1>2 DEF LoopInv, Sending, Behind, Going
<1>5. Ahead'
  <2>1. \A p : Untouched(p) => Untouched(p)'
    BY <1>1, <1>2 DEF Untouched
  <2>2. \A t : InRun(t) => InRun(t)'
    BY <1>1, <1>2 DEF InRun, Came
  <2>3. Going({"collect", "apply"}) <=> Going({"collect", "apply"})'
    BY <1>1 DEF Going
  <2> QED
    BY <1>1, <1>2, <2>1, <2>2, <2>3 DEF LoopInv, Ahead
<1>6. InTurn' /\ Once' /\ Flown' /\ Complete'
  BY <1>1, <1>2 DEF LoopInv, InTurn, Started, Once, Flown, Complete, Going
<1> QED
  BY <1>3, <1>4, <1>5, <1>6 DEF LoopInv

\* The run's invariant holds of every definition, however guards, conditions and
\* tasks turn out and whatever is edited before a resume.
THEOREM LoopInvariance == Spec => []LoopInv
<1>1. Init => LoopInv
  BY LoopStarts
<1>2. LoopInv /\ [Next]_vars => LoopInv'
  <2> SUFFICES ASSUME LoopInv, [Next]_vars PROVE LoopInv'
    OBVIOUS
  <2>1. CASE BuildGraph \/ Look \/ StopCollecting \/ Cancel \/ WaitClaimed
    BY <2>1, PhasesKeep
  <2>2. CASE \E t \in Tasks(def) : TaskReturns(t)
    BY <2>2, TaskReturnsKeeps
  <2>3. CASE \E t \in Tasks(def) : Collect(t)
    BY <2>3, CollectKeeps
  <2>4. CASE \/ SkipTask \/ FailGuard \/ SettleCondition \/ StartWait \/ SettleWait
             \/ StartDetached \/ StartWaited \/ ChildSettles \/ ClaimPaused
    BY <2>4, HereKeeps
  <2>5. CASE SendOff
    BY <2>5, SendOffKeeps
  <2>6. CASE ApplyOutcome
    BY <2>6, ApplyOutcomeKeeps
  <2>7. CASE EndRun
    BY <2>7, EndRunKeeps
  <2>8. CASE \E d \in {def} \cup Edits(def) : \E start \in Tasks(def) : Resume(d, start)
    BY <2>8, ResumeKeeps
  <2>9. CASE UNCHANGED vars
    BY <2>9, StillKeeps
  <2> QED
    BY <2>1, <2>2, <2>3, <2>4, <2>5, <2>6, <2>7, <2>8, <2>9 DEF Next, Main
<1> QED
  BY <1>1, <1>2, PTL DEF Spec

\* Each part of the run is of its type, and the number recorded with a step is a
\* position of the order.
THEOREM LoopTypes == Spec => []TypeOK
<1>1. LoopInv => TypeOK
  BY LoopInvTyped
<1> QED
  BY <1>1, LoopInvariance, PTL

\* A task starts once everything it waits for has finished or been skipped, what
\* orderAfterBranches makes it wait for included.
THEOREM StartsInTurn == Spec => []WaitsForItsOwn
<1>1. LoopInv => WaitsForItsOwn
  BY LoopInvWaits
<1> QED
  BY <1>1, LoopInvariance, PTL

(***************************************************************************)
(* Where tasks are recorded                                                *)
(***************************************************************************)
\* A step with its own task's position.
Exact(x) == \E p \in Positions : x.task = order[p] /\ x.index = p

LEMMA ExactIs ==
    ASSUME LoopInv, NEW x, Exact(x)
    PROVE  AtItsPosition(x)
<1>1. PICK p \in Positions : x.task = order[p] /\ x.index = p
  BY DEF Exact
<1>2. p \in 1..Len(order) /\ p \in Nat
  BY <1>1, OrderIs DEF Positions
<1> QED
  BY <1>1, <1>2 DEF AtItsPosition

\* More is recorded, at a place, and what was there stays.
LEMMA PlacesGrow ==
    ASSUME PlaceInv, order' = order, steps \in Seq(StepsOf), steps' \in Seq(StepsOf),
           Len(steps) <= Len(steps'), \A i \in 1..Len(steps) : steps'[i] = steps[i]
    PROVE  /\ \A p : SkippedAt(p) => SkippedAt(p)'
           /\ \A i \in 1..Len(steps) : AtItsPosition(steps[i])'
<1>1. Len(steps) \in Nat /\ Len(steps') \in Nat
  OBVIOUS
<1>2. \A i \in 1..Len(steps) : i \in 1..Len(steps')
  BY <1>1
<1>3. \A p : SkippedAt(p) => SkippedAt(p)'
  BY <1>2 DEF SkippedAt
<1>4. ASSUME NEW i \in 1..Len(steps)
      PROVE  AtItsPosition(steps[i])'
  <2>1. PICK p \in 1..Len(order) :
           /\ order[p] = steps[i].task /\ steps[i].index <= p
           /\ steps[i].index < p => \E q \in 1..(p - 1) : SkippedAt(q)
    BY DEF PlaceInv, AtItsPosition
  <2>2. steps'[i] = steps[i]
    OBVIOUS
  <2>3. steps'[i].index < p => \E q \in 1..(p - 1) : SkippedAt(q)'
    BY <1>3, <2>1, <2>2
  <2> QED
    BY <2>1, <2>2, <2>3 DEF AtItsPosition
<1> QED
  BY <1>3, <1>4

\* Nothing is recorded, and nothing is sent off.
LEMMA PlacesStay ==
    ASSUME PlaceInv, steps' = steps, order' = order,
           Going({"collect", "apply"})' => Going({"collect", "apply"}) /\ sent' = sent /\ at' = at
    PROVE  PlaceInv'
<1>1. Positions' = Positions /\ \A p : SkippedAt(p)' <=> SkippedAt(p)
  BY DEF Positions, SkippedAt
<1>2. \A i \in 1..Len(steps) : AtItsPosition(steps[i])'
  BY <1>1 DEF PlaceInv, AtItsPosition
<1>3. SentAt'
  BY <1>1 DEF PlaceInv, SentAt
<1> QED
  BY <1>2, <1>3 DEF PlaceInv

\* One more task is recorded.
LEMMA PlacesJoin ==
    ASSUME LoopInv, PlaceInv, order' = order, NEW x \in StepsOf, AtItsPosition(x),
           steps' = Append(steps, x),
           Going({"collect", "apply"})' => Going({"collect", "apply"}) /\ sent' = sent /\ at' = at
    PROVE  PlaceInv'
<1>1. /\ steps \in Seq(StepsOf) /\ steps' \in Seq(StepsOf) /\ Len(steps) \in Nat
      /\ Len(steps') = Len(steps) + 1 /\ steps'[Len(steps) + 1] = x
      /\ \A i \in 1..Len(steps) : steps'[i] = steps[i]
  BY DEF LoopInv, Shape
<1>2. /\ Len(steps) <= Len(steps')
      /\ \A i \in 1..Len(steps') : i \in 1..Len(steps) \/ i = Len(steps) + 1
  BY <1>1
<1>3. /\ \A p : SkippedAt(p) => SkippedAt(p)'
      /\ \A i \in 1..Len(steps) : AtItsPosition(steps[i])'
  BY <1>1, <1>2, PlacesGrow
<1>4. ASSUME NEW i \in 1..Len(steps'), i = Len(steps) + 1
      PROVE  AtItsPosition(steps[i])'
  <2>1. steps'[i] = x
    BY <1>1, <1>4
  <2> QED
    BY <1>3, <2>1 DEF AtItsPosition
<1>5. SentAt'
  BY <1>3 DEF PlaceInv, SentAt, Positions
<1> QED
  BY <1>2, <1>3, <1>4, <1>5 DEF PlaceInv

\* The task main is at is recorded, or none is.
LEMMA HerePlaces ==
    ASSUME LoopInv, PlaceInv,
           \/ SkipTask \/ FailGuard \/ SettleCondition \/ StartWait \/ SettleWait
           \/ StartDetached \/ StartWaited \/ ChildSettles \/ ClaimPaused
    PROVE  PlaceInv'
<1>1. \A kinds : HereIs(kinds) => pc = "step"
  BY DEF HereIs
<1>2. pc \in {"step", "paused"} => at \in Positions /\ Here \in Tasks(def)
  BY OrderIs DEF LoopInv, Shape, Going, Here
<1>3. ASSUME pc \in {"step", "paused"}, order' = order, pc' \notin {"collect", "apply"},
             NEW outcome \in {"success", "failed", "skipped", "cancelled"},
             steps' = Append(steps, Step(Here, outcome, at))
      PROVE  PlaceInv'
  <2> DEFINE x == Step(Here, outcome, at)
  <2>1. x \in StepsOf /\ Exact(x)
    BY <1>2, <1>3 DEF Step, StepsOf, Entries, Exact, Here
  <2> HIDE DEF x
  <2>2. AtItsPosition(x) /\ steps' = Append(steps, x)
    BY <1>3, <2>1, ExactIs DEF x
  <2> QED
    BY <1>3, <2>1, <2>2, PlacesJoin DEF Going
<1>4. ASSUME pc \in {"step", "paused"}, NEW outcome \in {"success", "failed", "skipped"},
             SettleHere(outcome, at)
      PROVE  PlaceInv'
  BY <1>3, <1>4 DEF SettleHere, Settle, runVars
<1>5. ASSUME pc \in {"step", "paused"}, Abandon(Here, at) \/ Pause, UNCHANGED runVars
      PROVE  PlaceInv'
  <2>1. CASE Abandon(Here, at)
    BY <1>3, <1>5, <2>1 DEF Abandon, Settle, runVars
  <2>2. CASE Pause
    BY <1>5, <2>2, PlacesStay DEF Pause, Going, runVars
  <2> QED
    BY <1>5, <2>1, <2>2
<1>6. CASE SkipTask \/ FailGuard \/ SettleCondition
  <2>1. pc = "step" /\ \E outcome \in {"success", "failed", "skipped"} : SettleHere(outcome, at)
    BY <1>1, <1>6 DEF SkipTask, FailGuard, SettleCondition
  <2> QED
    BY <1>4, <2>1
<1>7. CASE StartWait \/ ClaimPaused
  <2>1. pc \in {"step", "paused"} /\ (Abandon(Here, at) \/ Pause) /\ UNCHANGED runVars
    BY <1>1, <1>7 DEF StartWait, ClaimPaused
  <2> QED
    BY <1>5, <2>1
<1>8. CASE SettleWait \/ ChildSettles
  <2>1. /\ pc \in {"step", "paused"}
        /\ SettleHere(IF Here \in luck.fails THEN "failed" ELSE "success", at)
    BY <1>1, <1>8 DEF SettleWait, ChildSettles
  <2> QED
    BY <1>4, <2>1
<1>9. CASE StartDetached
  <2>1. pc = "step"
    BY <1>1, <1>9 DEF StartDetached
  <2>2. CASE Succeeds(def, Here, exports)
    BY <1>4, <1>9, <2>1, <2>2 DEF StartDetached
  <2>3. CASE ~Succeeds(def, Here, exports)
    BY <1>4, <1>9, <2>1, <2>3 DEF StartDetached
  <2> QED
    BY <2>2, <2>3
<1>10. CASE StartWaited
  <2>1. pc = "step"
    BY <1>1, <1>10 DEF StartWaited
  <2>2. CASE ~(def.reads[Here] \subseteq exports)
    BY <1>4, <1>10, <2>1, <2>2 DEF StartWaited
  <2>3. CASE def.reads[Here] \subseteq exports
    <3>1. (Abandon(Here, at) \/ Pause) /\ UNCHANGED runVars
      BY <1>10, <2>3 DEF StartWaited
    <3> QED
      BY <1>5, <2>1, <3>1
  <2> QED
    BY <2>2, <2>3
<1> QED
  BY <1>6, <1>7, <1>8, <1>9, <1>10

\* What main sends off is at the position it takes it to be at, or behind a task
\* of the same run that is recorded as skipped in the same step.
LEMMA SendOffPlaces ==
    ASSUME LoopInv, PlaceInv, SendOff, LoopInv'
    PROVE  PlaceInv'
<1> DEFINE last == Planned
           e == GuardEnd(Planned)
           decided(i) == Decision(def, order[i], skipped, exports)
           UnwantedAt == {i \in at..(e - 1) : decided(i) \in {"false", "disabled"}}
           WantedAt == {i \in at..(e - 1) : decided(i) \in {"true"}}
           unwanted == Ascending(at, e, UnwantedAt)
           wanted == Ascending(at, e, WantedAt)
           bad == IF e < last THEN << Step(order[e], "failed", e) >> ELSE << >>
           skips == [i \in 1..Len(unwanted) |-> Step(order[unwanted[i]], "skipped", unwanted[i])]
<1>1. /\ steps' = (steps \o skips) \o bad
      /\ e < last => pc' = "settled"
      /\ ~(e < last) /\ WantedAt = {} => pc' = "look"
      /\ ~(e < last) /\ WantedAt # {} => /\ pc' = "collect" /\ at' = at
                                         /\ sent' = [i \in 1..Len(wanted) |-> order[wanted[i]]]
      /\ order' = order /\ HereIs({"action"}) /\ ~HereDecides({"excluded"})
  BY DEF SendOff, Settle, runVars
<1> HIDE DEF last, e, bad, skips, unwanted, wanted
<1>2. /\ at \in Nat \ {0} /\ Len(order) \in Nat /\ last \in (at + 1)..(Len(order) + 1) /\ e \in at..last
      /\ \A p \in at..(e - 1) : decided(p) \in {"true", "false", "disabled"}
  BY <1>1, PlanIs, OrderIs DEF last, e
<1>3. /\ e \in Nat /\ at <= e /\ at..(at + (e - at) - 1) = at..(e - 1)
      /\ \A p \in at..(e - 1) : p \in Positions /\ p \in Nat
      /\ e < last => e \in Positions
  BY <1>2 DEF Positions
<1>4. /\ UnwantedAt \subseteq at..(e - 1) /\ WantedAt \subseteq at..(e - 1)
      /\ \A p \in at..(e - 1) : p \in UnwantedAt \/ p \in WantedAt
  BY <1>2
<1> HIDE DEF UnwantedAt, WantedAt
<1>5. /\ unwanted \in Seq(Nat) /\ Placed(unwanted) = UnwantedAt
  <2>1. FoundOf(unwanted, at, e - at, UnwantedAt)
    BY <1>2, <1>3, AscendingIs DEF unwanted
  <2> QED
    BY <1>3, <1>4, <2>1 DEF FoundOf, Placed
<1>6. /\ wanted \in Seq(Nat) /\ Placed(wanted) = WantedAt
      /\ \A i \in 1..Len(wanted) : at + i - 1 <= wanted[i]
      /\ \A i \in 1..Len(wanted) : at + i - 1 < wanted[i] =>
            \E r \in at..(wanted[i] - 1) : r \notin WantedAt
  <2>1. FoundOf(wanted, at, e - at, WantedAt)
    BY <1>2, <1>3, AscendingIs DEF wanted
  <2> QED
    BY <1>3, <1>4, <2>1 DEF FoundOf, Placed
<1>7. /\ skips \in Seq(StepsOf) /\ Len(skips) = Len(unwanted)
      /\ \A i \in 1..Len(skips) : /\ unwanted[i] \in UnwantedAt /\ unwanted[i] \in Positions
                                  /\ skips[i].task = order[unwanted[i]] /\ skips[i].status = "skipped"
                                  /\ skips[i].index = unwanted[i]
  <2>1. Len(unwanted) \in Nat /\ \A i \in 1..Len(unwanted) : unwanted[i] \in UnwantedAt
    BY <1>5 DEF Placed
  <2>2. \A i \in 1..Len(unwanted) : unwanted[i] \in Positions /\ order[unwanted[i]] \in Tasks(def)
    BY <1>3, <1>4, <2>1, OrderIs
  <2>3. \A i \in 1..Len(unwanted) : Step(order[unwanted[i]], "skipped", unwanted[i]) \in StepsOf
    BY <2>2 DEF Step, StepsOf, Entries
  <2>4. skips \in Seq(StepsOf) /\ Len(skips) = Len(unwanted)
    BY <2>1, <2>3 DEF skips
  <2>5. \A i \in 1..Len(skips) : skips[i] = Step(order[unwanted[i]], "skipped", unwanted[i])
    BY <2>4 DEF skips
  <2>6. ASSUME NEW i \in 1..Len(skips)
        PROVE  /\ unwanted[i] \in UnwantedAt /\ unwanted[i] \in Positions
               /\ skips[i].task = order[unwanted[i]] /\ skips[i].status = "skipped"
               /\ skips[i].index = unwanted[i]
    <3>1. i \in 1..Len(unwanted) /\ skips[i] = Step(order[unwanted[i]], "skipped", unwanted[i])
      BY <2>4, <2>5
    <3> QED
      BY <2>1, <2>2, <3>1 DEF Step
  <2> QED
    BY <2>4, <2>6
<1>8. bad \in Seq(StepsOf) /\ \A i \in 1..Len(bad) : Exact(bad[i])
  <2>1. CASE e < last
    <3> DEFINE x == Step(order[e], "failed", e)
    <3>1. x \in StepsOf /\ Exact(x)
      BY <1>3, <2>1, OrderIs DEF Step, StepsOf, Entries, Exact
    <3> HIDE DEF x
    <3>2. bad = << x >>
      BY <2>1 DEF bad, x
    <3>3. << x >> \in Seq(StepsOf) /\ Len(<< x >>) = 1 /\ << x >>[1] = x
      BY <3>1
    <3> QED
      BY <3>1, <3>2, <3>3
  <2>2. CASE ~(e < last)
    <3>1. bad = << >> /\ << >> \in Seq(StepsOf) /\ 1..Len(<< >>) = {}
      BY <2>2 DEF bad
    <3> QED
      BY <3>1
  <2> QED
    BY <2>1, <2>2
<1>9. \A i \in 1..Len(skips) : Exact(skips[i])
  BY <1>7 DEF Exact
<1>10. /\ steps \in Seq(StepsOf) /\ steps' \in Seq(StepsOf) /\ Len(steps) <= Len(steps')
       /\ \A i \in 1..Len(steps) : steps'[i] = steps[i]
       /\ \A i \in 1..Len(skips) : Len(steps) + i \in 1..Len(steps') /\ steps'[Len(steps) + i] = skips[i]
       /\ \A i \in 1..Len(steps') : i \in 1..Len(steps) \/ Exact(steps'[i])
  <2> DEFINE some == steps \o skips
  <2>1. steps \in Seq(StepsOf) /\ skips \in Seq(StepsOf) /\ bad \in Seq(StepsOf)
    BY <1>7, <1>8 DEF LoopInv, Shape
  <2>2. /\ some \in Seq(StepsOf) /\ Len(some) = Len(steps) + Len(skips)
        /\ \A i \in 1..Len(steps) : some[i] = steps[i] /\ i \in 1..Len(some)
        /\ \A i \in 1..Len(skips) : some[Len(steps) + i] = skips[i] /\ Len(steps) + i \in 1..Len(some)
    BY <2>1
  <2>3. \A i \in 1..Len(some) : i \in 1..Len(steps) \/ Exact(some[i])
    <3> TAKE i \in 1..Len(some)
    <3>1. CASE i \notin 1..Len(steps)
      <4> DEFINE k == i - Len(steps)
      <4>1. k \in 1..Len(skips) /\ i = Len(steps) + k
        BY <2>1, <2>2, <3>1
      <4> HIDE DEF k
      <4> QED
        BY <1>9, <2>2, <4>1
    <3> QED
      BY <3>1
  <2> HIDE DEF some
  <2> DEFINE all == some \o bad
  <2>4. /\ all \in Seq(StepsOf) /\ Len(all) = Len(some) + Len(bad)
        /\ \A i \in 1..Len(some) : all[i] = some[i] /\ i \in 1..Len(all)
        /\ \A i \in 1..Len(bad) : all[Len(some) + i] = bad[i]
    <3>1. some \in Seq(StepsOf) /\ bad \in Seq(StepsOf)
      BY <2>1, <2>2
    <3> QED
      BY <3>1
  <2>5. \A i \in 1..Len(all) : i \in 1..Len(some) \/ Exact(all[i])
    <3> TAKE i \in 1..Len(all)
    <3>1. CASE i \notin 1..Len(some)
      <4> DEFINE k == i - Len(some)
      <4>1. k \in 1..Len(bad) /\ i = Len(some) + k
        BY <2>1, <2>2, <2>4, <3>1
      <4> HIDE DEF k
      <4> QED
        BY <1>8, <2>4, <4>1
    <3> QED
      BY <3>1
  <2>6. steps' = all
    BY <1>1 DEF some
  <2> HIDE DEF all
  <2>7. Len(steps) <= Len(steps')
    BY <2>1, <2>2, <2>4, <2>6
  <2> QED
    BY <2>1, <2>2, <2>3, <2>4, <2>5, <2>6, <2>7
<1>11. /\ \A p : SkippedAt(p) => SkippedAt(p)'
       /\ \A i \in 1..Len(steps) : AtItsPosition(steps[i])'
  BY <1>1, <1>10, PlacesGrow
<1>12. ASSUME NEW i \in 1..Len(steps') PROVE AtItsPosition(steps[i])'
  <2>1. CASE i \in 1..Len(steps)
    BY <1>11, <2>1
  <2>2. CASE Exact(steps'[i])
    <3>1. PICK p \in Positions : steps'[i].task = order[p] /\ steps'[i].index = p
      BY <2>2 DEF Exact
    <3>2. p \in 1..Len(order) /\ p \in Nat
      BY <1>2, <3>1 DEF Positions
    <3> QED
      BY <1>1, <3>1, <3>2 DEF AtItsPosition
  <2> QED
    BY <1>10, <2>1, <2>2
<1>13. \A p \in UnwantedAt : SkippedAt(p)'
  <2> TAKE p \in UnwantedAt
  <2>1. PICK i \in 1..Len(unwanted) : unwanted[i] = p
    BY <1>5 DEF Placed
  <2>2. i \in 1..Len(skips) /\ skips[i].task = order[p] /\ skips[i].status = "skipped"
    BY <1>7, <2>1
  <2>3. Len(steps) + i \in 1..Len(steps') /\ steps'[Len(steps) + i] = skips[i]
    BY <1>10, <2>2
  <2> QED
    BY <1>1, <2>2, <2>3 DEF SkippedAt
<1>14. ASSUME pc' = "collect", NEW i \in 1..Len(sent')
       PROVE  \E q \in Positions : /\ sent'[i] = order[q] /\ at + i - 1 <= q
                                   /\ at + i - 1 < q => \E r \in 1..(q - 1) : SkippedAt(r)'
  <2>1. at' = at /\ sent' = [k \in 1..Len(wanted) |-> order[wanted[k]]]
    BY <1>1, <1>14
  <2>2. Len(wanted) \in Nat /\ \A k \in 1..Len(wanted) : wanted[k] \in WantedAt
    BY <1>6 DEF Placed
  <2>3. Len(sent') = Len(wanted)
    <3>1. \A k \in 1..Len(wanted) : order[wanted[k]] \in Tasks(def)
      BY <1>3, <1>4, <2>2, OrderIs
    <3> QED
      BY <2>1, <2>2, <3>1
  <2>4. i \in 1..Len(wanted) /\ sent'[i] = order[wanted[i]]
    BY <1>14, <2>1, <2>3
  <2> DEFINE q == wanted[i]
  <2>5. q \in WantedAt /\ q \in at..(e - 1) /\ q \in Positions /\ q \in Nat
    BY <1>3, <1>4, <2>2, <2>4
  <2>6. at + i - 1 <= q /\ (at + i - 1 < q => \E r \in at..(q - 1) : r \notin WantedAt)
    BY <1>6, <2>4
  <2> HIDE DEF q
  <2>7. \A r \in at..(q - 1) : r \in at..(e - 1) /\ r \in 1..(q - 1)
    BY <1>2, <1>3, <2>5
  <2>8. at + i - 1 < q => \E r \in 1..(q - 1) : SkippedAt(r)'
    BY <1>4, <1>13, <2>6, <2>7
  <2> QED
    BY <2>4, <2>5, <2>6, <2>8 DEF q
<1>15. SentAt'
  <2>1. CASE pc' = "collect"
    BY <1>1, <1>14, <2>1 DEF SentAt, Positions
  <2>2. CASE pc' # "collect"
    BY <1>1, <2>2 DEF SentAt, Going
  <2> QED
    BY <2>1, <2>2
<1> QED
  BY <1>12, <1>15 DEF PlaceInv

\* The position counted from the first task of the run.
LEMMA ApplyPlaces ==
    ASSUME LoopInv, PlaceInv, ApplyOutcome
    PROVE  PlaceInv'
<1> DEFINE i == Least(Unapplied)
           t == sent[i]
           outcome == IF t \notin collected THEN "cancelled"
                      ELSE IF flight[t] = "ok" THEN "success" ELSE "failed"
           x == Step(t, outcome, Position(i))
<1>1. /\ pc = "apply" /\ Unapplied # {} /\ steps' = Append(steps, x)
      /\ order' = order /\ pc' = pc /\ sent' = sent /\ at' = at
  BY DEF ApplyOutcome, runVars, taskVars
<1>2. outcome \in {"cancelled", "success", "failed"}
  OBVIOUS
<1>3. i \in 1..Len(sent)
  <2> DEFINE B == Unapplied
  <2>1. B \in SUBSET Nat /\ B # {} /\ \A k \in B : k \in 1..Len(sent)
    BY <1>1 DEF Unapplied
  <2> HIDE DEF B
  <2>2. Least(B) \in B
    BY <2>1, LeastIs
  <2> QED
    BY <2>1, <2>2 DEF B
<1> HIDE DEF i, outcome
<1>4. at \in 1..Len(order) /\ Len(order) \in Nat /\ sent \in Seq(Tasks(def)) /\ t \in Tasks(def)
  BY <1>1, <1>3, OrderIs DEF LoopInv, Shape, Going, Positions
<1>5. PICK q \in Positions : /\ t = order[q] /\ at + i - 1 <= q
                             /\ at + i - 1 < q => \E r \in 1..(q - 1) : SkippedAt(r)
  <2>1. \A k \in 1..Len(sent) :
           \E q \in Positions : /\ sent[k] = order[q] /\ at + k - 1 <= q
                                /\ at + k - 1 < q => \E r \in 1..(q - 1) : SkippedAt(r)
    BY <1>1 DEF PlaceInv, SentAt, Going
  <2> QED
    BY <1>3, <2>1
<1>6. at + i - 1 \in Positions /\ q \in 1..Len(order)
  BY <1>3, <1>4, <1>5 DEF Positions
<1> HIDE DEF t
<1>7. x \in StepsOf /\ x.task = t /\ x.index = at + i - 1
  BY <1>2, <1>4, <1>6 DEF Step, StepsOf, Entries, Position
<1> HIDE DEF x
<1>8. AtItsPosition(x)
  BY <1>5, <1>6, <1>7 DEF AtItsPosition
<1> QED
  BY <1>1, <1>7, <1>8, PlacesJoin DEF Going

THEOREM PlaceInvariance == Spec => []PlaceInv
<1>1. Init => PlaceInv
  BY DEF Init, PlaceInv, SentAt, Going
<1>2. LoopInv /\ LoopInv' /\ PlaceInv /\ [Next]_vars => PlaceInv'
  <2> SUFFICES ASSUME LoopInv, LoopInv', PlaceInv, [Next]_vars PROVE PlaceInv'
    OBVIOUS
  <2>1. CASE BuildGraph \/ Look \/ StopCollecting \/ Cancel \/ WaitClaimed
    <3>1. /\ steps' = steps /\ order' = order /\ sent' = sent /\ at' = at
      BY <2>1 DEF BuildGraph, Look, StopCollecting, Cancel, WaitClaimed, runVars, taskVars
    <3>2. pc' \in {"collect", "apply"} => pc \in {"collect", "apply"}
      <4>1. CASE BuildGraph
        BY <4>1 DEF BuildGraph, Settle
      <4>2. CASE Look
        <5>1. at \in Nat /\ Len(order) \in Nat
          BY OrderIs
        <5>2. CASE at > Len(order)
          BY <4>2, <5>1, <5>2 DEF Look, Settle
        <5>3. CASE at <= Len(order)
          <6>1. pc' \in {"settled", "step"}
            BY <4>2, <5>1, <5>3 DEF Look, Settle
          <6> QED
            BY <6>1
        <5> QED
          BY <5>1, <5>2, <5>3
      <4>3. CASE StopCollecting \/ Cancel \/ WaitClaimed
        BY <4>3 DEF StopCollecting, Cancel, WaitClaimed
      <4> QED
        BY <2>1, <4>1, <4>2, <4>3
    <3> QED
      BY <3>1, <3>2, PlacesStay DEF Going
  <2>2. CASE \E t \in Tasks(def) : TaskReturns(t)
    BY <2>2, PlacesStay DEF TaskReturns, Going, runVars
  <2>3. CASE \E t \in Tasks(def) : Collect(t)
    BY <2>3, PlacesStay DEF Collect, Going, runVars
  <2>4. CASE \/ SkipTask \/ FailGuard \/ SettleCondition \/ StartWait \/ SettleWait
             \/ StartDetached \/ StartWaited \/ ChildSettles \/ ClaimPaused
    BY <2>4, HerePlaces
  <2>5. CASE SendOff
    BY <2>5, SendOffPlaces
  <2>6. CASE ApplyOutcome
    BY <2>6, ApplyPlaces
  <2>7. CASE EndRun
    <3>1. pc' \in {"settled", "look"}
      BY <2>7, EndRunEnds
    <3> QED
      BY <2>7, <3>1, PlacesStay DEF EndRun, Going, runVars
  <2>8. CASE \E d \in {def} \cup Edits(def) : \E start \in Tasks(def) : Resume(d, start)
    <3>1. steps' = << >> /\ pc' = "look"
      BY <2>8 DEF Resume
    <3> QED
      BY <3>1 DEF PlaceInv, SentAt, Going
  <2>9. CASE UNCHANGED vars
    BY <2>9, PlacesStay DEF vars, Going
  <2> QED
    BY <2>1, <2>2, <2>3, <2>4, <2>5, <2>6, <2>7, <2>8, <2>9 DEF Next, Main
<1> QED
  BY <1>1, <1>2, LoopInvariance, PTL DEF Spec

\* What main sends off is recorded when the run settles, once, and every task is
\* when the run completes; the number recorded is the task's position, but behind
\* a task that was skipped, where it may be a smaller one.
THEOREM EachRecorded == Spec => []RecordsAll
<1>1. LoopInv /\ PlaceInv => RecordsAll
  BY LoopInvRecords
<1> QED
  BY <1>1, LoopInvariance, PlaceInvariance, PTL

(***************************************************************************)
(* Branches that are not taken                                             *)
(***************************************************************************)
\* What a sub-workflow that is waited for makes main forget is nothing: there is
\* no condition beside it.
KeepsBranches(d) == (\E t \in Tasks(d) : d.kind[t] = "waited") => Conditions(d) = {}
NothingForgotten == \A d \in Definitions : \A e \in {d} \cup Edits(d) : KeepsBranches(e)

\* What is skipped does not start.
SkippedIdle == \A t \in skipped : ~Started(t)

\* Once main has passed a condition that is skipped, so are its branches.
SkippedClosed ==
    \A p \in 1..(at - 1) : order[p] \in skipped => Branches(def, order[p]) \subseteq skipped

\* What a condition that settled excludes is skipped.
NotTakenSkipped ==
    \A c \in Tasks(def) : SettledCondition(c) => NotTaken(def, c) \subseteq skipped

\* What main is at.
AtHere ==
    /\ Going({"collect", "apply"}) => def.kind[order[at]] = "action"
    /\ pc = "paused" => entry[order[at]] = "waiting"

OutInv == KeepsBranches(def) /\ SkippedIdle /\ SkippedClosed /\ NotTakenSkipped /\ AtHere

LEMMA OutInvHolds ==
    ASSUME LoopInv, OutInv
    PROVE  BranchesStayOut
<1> SUFFICES ASSUME NEW c \in Tasks(def), SettledCondition(c), NEW t \in Excluded(c)
             PROVE  ~Started(t)
  BY DEF BranchesStayOut
<1> DEFINE T == Tasks(def)
           B == [m \in T |-> Branches(def, m)]
           Later(m) == \E p \in at..Len(order) : order[p] = m
           C == {m \in T : m \in skipped \/ \E s \in deps[m] : Later(s)}
<1>1. IsDefinition(def) /\ deps \in Graph(T) /\ skipped \subseteq T /\ at \in Nat \ {0} /\ Len(order) \in Nat
  BY OrderIs DEF LoopInv, Fixed, Shape
<1>2. /\ IsFiniteSet(T) /\ B \in Graph(T)
      /\ \A m \in T : /\ Branches(def, m) \in SUBSET T /\ Under(def, m) = Reach(B, m)
                      /\ \A b \in Branches(def, m) : m \in Conditions(def) /\ m \in Declared(def)[b]
  BY <1>1, DefinitionIs DEF Under
<1>3. ASSUME NEW m \in T, Started(m) PROVE m \notin C
  <2>1. m \notin skipped
    BY <1>3 DEF OutInv, SkippedIdle
  <2>2. ASSUME NEW s \in deps[m], Later(s) PROVE FALSE
    <3>1. PICK q \in 1..(at - 1) : order[q] = s
      BY <1>3, <2>2 DEF LoopInv, InTurn
    <3>2. PICK p \in at..Len(order) : order[p] = s
      BY <2>2
    <3>3. LoopInv /\ Sound(def)
      BY <1>3 DEF LoopInv, InTurn
    <3>4. p \in Positions /\ q \in Positions /\ p # q
      BY <1>1, <3>1, <3>2 DEF Positions
    <3> QED
      BY <3>1, <3>2, <3>4, OrderIs
  <2> QED
    BY <2>1, <2>2
<1> SUFFICES ASSUME Started(t) PROVE FALSE
  OBVIOUS
<1>4. c \in T /\ NotTaken(def, c) \subseteq skipped /\ NotTaken(def, c) \subseteq T
  BY <1>1 DEF OutInv, NotTakenSkipped
<1>5. t \in T
  <2>1. \A m \in NotTaken(def, c) : Under(def, m) \in SUBSET T
    BY <1>1, <1>4, DefinitionIs
  <2> QED
    BY <1>4, <2>1 DEF Excluded
<1>6. Sound(def)
  BY <1>5 DEF LoopInv, InTurn
<1>7. \A m \in T : \A b \in Branches(def, m) : m \in deps[b] /\ b \in T
  BY <1>2, <1>6 DEF LoopInv, Fixed
<1>8. \A m \in T : \E p \in Positions : order[p] = m
  BY <1>6 DEF LoopInv, Fixed, Ordered, Positions
<1>9. ASSUME NEW m \in C PROVE Branches(def, m) \subseteq C
  <2>1. PICK p \in Positions : order[p] = m
    BY <1>8
  <2>2. CASE p \in at..Len(order)
    BY <1>7, <2>1, <2>2
  <2>3. CASE p \notin at..Len(order)
    <3>1. p \in 1..(at - 1)
      BY <1>1, <2>1, <2>3 DEF Positions
    <3>2. m \in skipped
      <4> SUFFICES ASSUME NEW s \in deps[m], Later(s) PROVE FALSE
        OBVIOUS
      <4>1. PICK r \in at..Len(order) : order[r] = s
        OBVIOUS
      <4>2. PICK q \in 1..(p - 1) : order[q] = s
        BY <1>6, <2>1, OrderIs
      <4>3. r \in Positions /\ q \in Positions /\ q # r
        BY <1>1, <3>1, <4>1, <4>2 DEF Positions
      <4> QED
        BY <4>1, <4>2, <4>3, OrderIs
    <3>3. Branches(def, m) \subseteq skipped
      BY <2>1, <3>1, <3>2 DEF OutInv, SkippedClosed
    <3> QED
      BY <1>1, <3>3
  <2> QED
    BY <2>2, <2>3
<1>10. Closed(B, C)
  BY <1>9 DEF Closed
<1>11. ASSUME NEW m \in NotTaken(def, c) PROVE Under(def, m) \subseteq C
  <2>1. m \in T /\ m \in C
    BY <1>4
  <2>2. B[m] \subseteq C
    BY <1>9, <2>1
  <2> HIDE DEF B, C, T
  <2>3. Reach(B, m) \subseteq C
    BY <1>2, <1>10, <2>1, <2>2, ReachIs
  <2> QED
    BY <1>2, <2>1, <2>3
<1>12. t \in C
  BY <1>4, <1>5, <1>11 DEF Excluded
<1> QED
  BY <1>3, <1>5, <1>12

LEMMA OutStarts ==
    ASSUME Init, NothingForgotten
    PROVE  OutInv
<1>1. /\ def \in Definitions /\ pc = "graph" /\ at = 1 /\ skipped = {}
      /\ entry = [t \in Tasks(def) |-> "none"] /\ restored = [t \in {} |-> ""]
  BY DEF Init, NoneOf
<1>2. KeepsBranches(def)
  BY <1>1 DEF NothingForgotten
<1>3. \A c \in Tasks(def) : ~SettledCondition(c)
  <2>1. DOMAIN restored = {}
    BY <1>1
  <2> QED
    BY <1>1, <2>1 DEF SettledCondition, Conditions
<1> QED
  BY <1>1, <1>2, <1>3 DEF OutInv, SkippedIdle, SkippedClosed, NotTakenSkipped, AtHere, Going

\* A step that leaves the tasks as they are.
LEMMA OutPasses ==
    ASSUME OutInv, UNCHANGED <<runVars, at, skipped, entry>>,
           Going({"collect", "apply"})' => Going({"collect", "apply"}),
           pc' = "paused" => pc = "paused"
    PROVE  OutInv'
<1>1. /\ def' = def /\ luck' = luck /\ order' = order /\ restored' = restored /\ results' = results
      /\ at' = at /\ skipped' = skipped /\ entry' = entry
  BY DEF runVars
<1>2. \A c \in Tasks(def) : SettledCondition(c)' => SettledCondition(c)
  BY <1>1 DEF SettledCondition
<1>3. \A c : NotTaken(def, c)' = NotTaken(def, c)
  BY <1>1 DEF NotTaken, ExcludedBy, Result
<1> QED
  BY <1>1, <1>2, <1>3 DEF OutInv, SkippedIdle, SkippedClosed, NotTakenSkipped, AtHere, Started, Going

\* What main decides of a task.
LEMMA DecisionIs ==
    ASSUME LoopInv, NEW t \in Tasks(def)
    PROVE  /\ Decision(def, t, skipped, exports) \in {"excluded", "disabled", "true", "false", "error"}
           /\ Decision(def, t, skipped, exports) = "excluded" <=> t \in skipped
<1>1. Verdict(def, t, exports) \in {"true", "false", "error"}
  BY DEF Verdict, LoopInv, Fixed
<1> QED
  BY <1>1 DEF Decision

\* The task main is at comes to something, and more tasks are skipped: it is
\* skipped itself with its branches, or those it excludes are.
LEMMA OutHere ==
    ASSUME LoopInv, OutInv, pc \in {"step", "paused"}, UNCHANGED runVars,
           NEW outcome, entry' = [entry EXCEPT ![Here] = outcome],
           at' \in {at, at + 1}, pc' \notin {"collect", "apply"},
           pc' = "paused" => outcome = "waiting" /\ at' = at,
           NEW more, more \subseteq Branches(def, Here), skipped' = skipped \cup more,
           Here \in skipped => outcome = "skipped" /\ Branches(def, Here) \subseteq skipped',
           Here \in Conditions(def) /\ outcome = "success" => NotTaken(def, Here) \subseteq skipped'
    PROVE  OutInv'
<1>1. /\ def' = def /\ luck' = luck /\ order' = order /\ restored' = restored /\ results' = results
  BY DEF runVars
<1>2. /\ at \in Positions /\ Here = order[at] /\ Here \in Tasks(def)
      /\ Sound(def) /\ Len(order) \in Nat /\ at \in 1..Len(order) /\ IsDefinition(def)
  BY OrderIs DEF LoopInv, Fixed, Shape, Going, Here, Positions
<1>3. /\ entry'[Here] = outcome
      /\ \A t \in Tasks(def) : t # Here => entry'[t] = entry[t]
  BY <1>2 DEF LoopInv, Shape
<1>4. ASSUME NEW t \in more
      PROVE  t \in Tasks(def) /\ \E p \in (at + 1)..Len(order) : order[p] = t
  <2>1. t \in Tasks(def) /\ Here \in Declared(def)[t]
    BY <1>2, DefinitionIs
  <2>2. Here \in deps[t]
    BY <1>2, <2>1 DEF LoopInv, Fixed
  <2>3. PICK p \in Positions : order[p] = t
    BY <1>2, <2>1 DEF LoopInv, Fixed, Ordered, Positions
  <2>4. PICK q \in 1..(p - 1) : order[q] = Here
    BY <1>2, <2>2, <2>3, OrderIs
  <2>5. q \in Positions
    BY <1>2, <2>3, <2>4 DEF Positions
  <2>6. q = at
    BY <1>2, <2>4, <2>5, OrderIs
  <2> QED
    BY <1>2, <2>1, <2>3, <2>4, <2>6 DEF Positions
<1>5. \A p \in Positions : order[p] \in more => p # at /\ ~(p < at)
  <2> TAKE p \in Positions
  <2> HAVE order[p] \in more
  <2>1. PICK q \in (at + 1)..Len(order) : order[q] = order[p]
    BY <1>4
  <2>2. q \in Positions
    BY <1>2, <2>1 DEF Positions
  <2>3. q = p
    BY <2>1, <2>2, OrderIs
  <2> QED
    BY <1>2, <2>1, <2>3
<1>6. Here \notin more
  BY <1>2, <1>5
<1>7. KeepsBranches(def)'
  BY <1>1 DEF OutInv
<1>8. SkippedIdle'
  <2>1. ASSUME NEW t \in skipped PROVE ~Started(t)'
    <3>1. t \in Tasks(def)
      BY DEF LoopInv, Shape
    <3> QED
      BY <1>3, <3>1 DEF OutInv, SkippedIdle, Started
  <2>2. ASSUME NEW t \in more PROVE ~Started(t)'
    <3>1. PICK p \in (at + 1)..Len(order) : order[p] = t
      BY <1>4
    <3>2. p \in at..Len(order) /\ p # at
      BY <1>2
    <3>3. entry[t] = "none"
      BY <3>1, <3>2 DEF LoopInv, Ahead, Going, Untouched
    <3>4. t \in Tasks(def) /\ t # Here
      BY <1>4, <1>6
    <3> QED
      BY <1>3, <3>3, <3>4 DEF Started
  <2> QED
    BY <2>1, <2>2 DEF SkippedIdle
<1>9. SkippedClosed'
  <2>1. ASSUME NEW p \in 1..(at' - 1), order[p] \in skipped'
        PROVE  Branches(def, order[p]) \subseteq skipped'
    <3>1. p \in Positions /\ (p < at \/ p = at)
      BY <1>2, <2>1 DEF Positions
    <3>2. order[p] \in skipped
      BY <1>5, <2>1, <3>1
    <3>3. CASE p < at
      <4>1. p \in 1..(at - 1)
        BY <1>2, <2>1, <3>3
      <4> QED
        BY <3>2, <4>1 DEF OutInv, SkippedClosed
    <3>4. CASE p = at
      BY <1>2, <3>2, <3>4
    <3> QED
      BY <3>1, <3>3, <3>4
  <2> QED
    BY <1>1, <2>1 DEF SkippedClosed
<1>10. NotTakenSkipped'
  <2>1. \A c : NotTaken(def, c)' = NotTaken(def, c)
    BY <1>1 DEF NotTaken, ExcludedBy, Result
  <2>2. ASSUME NEW c \in Tasks(def), SettledCondition(c)' PROVE NotTaken(def, c) \subseteq skipped'
    <3>1. CASE SettledCondition(c)
      BY <3>1 DEF OutInv, NotTakenSkipped
    <3>2. CASE ~SettledCondition(c)
      <4>1. c \in Conditions(def) /\ entry'[c] = "success" /\ entry[c] # "success"
        BY <1>1, <2>2, <3>2 DEF SettledCondition
      <4>2. c = Here /\ outcome = "success"
        BY <1>3, <4>1
      <4> QED
        BY <4>1, <4>2
    <3> QED
      BY <3>1, <3>2
  <2> QED
    BY <1>1, <2>1, <2>2 DEF NotTakenSkipped
<1>11. AtHere'
  BY <1>1, <1>2, <1>3 DEF AtHere, Going
<1> QED
  BY <1>7, <1>8, <1>9, <1>10, <1>11 DEF OutInv

LEMMA HereStaysOut ==
    ASSUME LoopInv, OutInv,
           \/ SkipTask \/ FailGuard \/ SettleCondition \/ StartWait \/ SettleWait
           \/ StartDetached \/ StartWaited \/ ClaimPaused
    PROVE  OutInv'
<1> DEFINE decision == Decision(def, Here, skipped, exports)
<1>1. pc \in {"step", "paused"} /\ UNCHANGED runVars
  BY DEF SkipTask, FailGuard, SettleCondition, StartWait, SettleWait, StartDetached, StartWaited,
         ClaimPaused, HereIs, SettleHere
<1>2. Here \in Tasks(def) /\ IsDefinition(def) /\ at \in Nat
  BY <1>1, OrderIs DEF LoopInv, Fixed, Shape, Going, Here
<1>3. /\ decision \in {"excluded", "disabled", "true", "false", "error"}
      /\ decision = "excluded" <=> Here \in skipped
  BY <1>2, DecisionIs
<1>4. /\ Here \in Conditions(def) <=> def.kind[Here] = "condition"
      /\ Here \notin Conditions(def) => Branches(def, Here) = {}
      /\ NotTaken(def, Here) \subseteq Branches(def, Here)
  BY <1>2 DEF Conditions, IsDefinition, NotTaken, ExcludedBy, Branches
<1>5. pc = "paused" => Here \notin skipped
  BY DEF OutInv, AtHere, SkippedIdle, Started, Here
<1>6. \A decisions : HereDecides(decisions) <=> decision \in decisions
  BY DEF HereDecides
<1> HIDE DEF decision
<1>7. ASSUME NEW outcome \in {"success", "failed", "skipped"}, SettleHere(outcome, at),
             NEW more, more \subseteq Branches(def, Here), skipped' = skipped \cup more,
             Here \in skipped => outcome = "skipped" /\ Branches(def, Here) \subseteq skipped',
             Here \in Conditions(def) /\ outcome = "success" => NotTaken(def, Here) \subseteq skipped'
      PROVE  OutInv'
  <2>1. /\ entry' = [entry EXCEPT ![Here] = outcome]
        /\ at' \in {at, at + 1} /\ pc' \in {"settled", "look"}
    BY <1>7 DEF SettleHere, Settle
  <2> QED
    BY <1>1, <1>7, <2>1, OutHere
<1>8. ASSUME Abandon(Here, at) \/ Pause, UNCHANGED <<at, skipped>>, Here \notin skipped
      PROVE  OutInv'
  <2>1. PICK outcome \in {"cancelled", "waiting"} :
           /\ entry' = [entry EXCEPT ![Here] = outcome]
           /\ pc' \in {"settled", "paused"} /\ (pc' = "paused" => outcome = "waiting")
    BY <1>8 DEF Abandon, Pause, Settle
  <2> DEFINE more == {}
  <2>2. more \subseteq Branches(def, Here) /\ skipped' = skipped \cup more
    BY <1>8
  <2> HIDE DEF more
  <2> QED
    BY <1>1, <1>8, <2>1, <2>2, OutHere
<1>9. ASSUME NEW outcome \in {"success", "failed", "skipped"}, SettleHere(outcome, at),
             skipped' = skipped, Here \notin skipped,
             Here \in Conditions(def) => outcome # "success"
      PROVE  OutInv'
  <2> DEFINE more == {}
  <2>1. more \subseteq Branches(def, Here) /\ skipped' = skipped \cup more
    BY <1>9
  <2> HIDE DEF more
  <2> QED
    BY <1>7, <1>9, <2>1
<1>10. CASE SkipTask
  <2> DEFINE more == Excludes(def, Here, decision)
  <2>1. SettleHere("skipped", at) /\ skipped' = skipped \cup more
    BY <1>10 DEF SkipTask, decision
  <2>2. more \subseteq Branches(def, Here)
    BY <1>4 DEF Excludes
  <2>3. Here \in skipped => Branches(def, Here) \subseteq skipped'
    <3>1. Here \in skipped /\ Here \in Conditions(def) => more = Branches(def, Here)
      BY <1>3 DEF Excludes
    <3> QED
      BY <1>4, <2>1, <3>1
  <2> HIDE DEF more
  <2> QED
    BY <1>7, <2>1, <2>2, <2>3
<1>11. CASE FailGuard
  <2>1. SettleHere("failed", at) /\ skipped' = skipped /\ decision = "error"
    BY <1>6, <1>11 DEF FailGuard
  <2> QED
    BY <1>3, <1>9, <2>1
<1>12. CASE SettleCondition
  <2> DEFINE more == Excludes(def, Here, decision)
  <2>1. SettleHere("success", at) /\ skipped' = skipped \cup more
    BY <1>12 DEF SettleCondition, decision
  <2>2. def.kind[Here] = "condition" /\ decision \in {"true", "false", "disabled"}
    BY <1>6, <1>12 DEF SettleCondition, HereIs
  <2>3. more = NotTaken(def, Here) /\ Here \notin skipped
    BY <1>3, <1>4, <2>2 DEF Excludes
  <2> HIDE DEF more
  <2> QED
    BY <1>4, <1>7, <2>1, <2>3
<1>13. CASE StartWait
  <2>1. (Abandon(Here, at) \/ Pause) /\ UNCHANGED <<at, skipped>> /\ decision = "true"
    BY <1>6, <1>13 DEF StartWait
  <2> QED
    BY <1>3, <1>8, <2>1
<1>14. CASE SettleWait
  <2>1. /\ SettleHere(IF Here \in luck.fails THEN "failed" ELSE "success", at)
        /\ skipped' = skipped /\ decision = "true" /\ def.kind[Here] = "wait"
    BY <1>6, <1>14 DEF SettleWait, HereIs
  <2> QED
    BY <1>3, <1>4, <1>9, <2>1
<1>15. CASE StartDetached
  <2>1. /\ \/ SettleHere("success", at) \/ SettleHere("failed", at)
        /\ skipped' = skipped /\ decision = "true" /\ def.kind[Here] = "detached"
    BY <1>6, <1>15 DEF StartDetached, HereIs
  <2> QED
    BY <1>3, <1>4, <1>9, <2>1
<1>16. CASE StartWaited
  <2>1. skipped' = skipped /\ decision = "true" /\ def.kind[Here] = "waited"
    BY <1>6, <1>16 DEF StartWaited, HereIs
  <2>2. SettleHere("failed", at) \/ ((Abandon(Here, at) \/ Pause) /\ at' = at)
    BY <1>16 DEF StartWaited
  <2> QED
    BY <1>3, <1>8, <1>9, <2>1, <2>2
<1>17. CASE ClaimPaused
  BY <1>5, <1>8, <1>17 DEF ClaimPaused
<1> QED
  BY <1>10, <1>11, <1>12, <1>13, <1>14, <1>15, <1>16, <1>17

\* A sub-workflow that was waited for makes main forget what it skips: with a
\* condition beside it, this is where a branch not taken comes back.
LEMMA ChildStaysOut ==
    ASSUME LoopInv, OutInv, ChildSettles
    PROVE  OutInv'
<1>1. /\ pc = "paused" /\ def.kind[Here] = "waited" /\ skipped' \in {skipped, {}}
      /\ \/ SettleHere("success", at) \/ SettleHere("failed", at)
  BY DEF ChildSettles
<1>2. /\ def' = def /\ luck' = luck /\ order' = order /\ restored' = restored /\ results' = results
      /\ pc' \in {"settled", "look"}
      /\ at' \in {at, at + 1}
  BY <1>1 DEF SettleHere, Settle, runVars
<1>3. /\ at \in Positions /\ Here = order[at] /\ Here \in Tasks(def)
      /\ Len(order) \in Nat /\ at \in 1..Len(order) /\ IsDefinition(def)
  BY <1>1, OrderIs DEF LoopInv, Fixed, Shape, Going, Here, Positions
<1>4. Conditions(def) = {}
  BY <1>1, <1>3 DEF OutInv, KeepsBranches
<1>5. Here \notin skipped
  BY <1>1 DEF OutInv, AtHere, SkippedIdle, Started, Here
<1>6. \A t \in Tasks(def) : t # Here => entry'[t] = entry[t]
  BY <1>1, <1>3 DEF SettleHere, LoopInv, Shape
<1>7. SkippedIdle'
  <2>1. skipped \subseteq Tasks(def)
    BY DEF LoopInv, Shape
  <2>2. \A t \in skipped : entry'[t] = entry[t]
    BY <1>5, <1>6, <2>1
  <2> QED
    BY <1>1, <2>2 DEF OutInv, SkippedIdle, Started
<1>8. SkippedClosed'
  <2>1. \A p \in Positions : Branches(def, order[p]) = {}
    BY <1>3, <1>4, OrderIs DEF IsDefinition
  <2>2. \A p \in 1..(at' - 1) : p \in Positions
    <3>1. CASE at' = at
      BY <1>3, <3>1 DEF Positions
    <3>2. CASE at' = at + 1
      BY <1>3, <3>2 DEF Positions
    <3> QED
      BY <1>2, <3>1, <3>2
  <2> QED
    BY <1>2, <2>1, <2>2 DEF SkippedClosed
<1>9. NotTakenSkipped'
  BY <1>2, <1>4 DEF NotTakenSkipped, SettledCondition
<1>10. AtHere' /\ KeepsBranches(def)'
  BY <1>2 DEF AtHere, Going, OutInv
<1> QED
  BY <1>7, <1>8, <1>9, <1>10 DEF OutInv

\* What is sent off is neither skipped nor a condition.
LEMMA SendOffStaysOut ==
    ASSUME LoopInv, OutInv, SendOff
    PROVE  OutInv'
<1> DEFINE last == Planned
           e == GuardEnd(Planned)
           Run == {order[p] : p \in at..(last - 1)}
<1>1. /\ def' = def /\ luck' = luck /\ order' = order /\ restored' = restored /\ results' = results /\ skipped' = skipped
      /\ HereIs({"action"}) /\ ~HereDecides({"excluded"}) /\ pc = "step"
  BY DEF SendOff, runVars, HereIs
<1>2. /\ at \in Positions /\ Len(order) \in Nat /\ at \in 1..Len(order) /\ IsDefinition(def)
      /\ Sound(def) /\ Here = order[at] /\ def.kind[Here] = "action"
  BY <1>1, OrderIs DEF LoopInv, Fixed, Shape, Going, Here, HereIs, Positions
<1>3. /\ last \in (at + 1)..(Len(order) + 1) /\ e \in at..last
      /\ \A p \in at..(last - 1) : p \in Positions /\ order[p] \notin skipped
  BY <1>1, PlanIs
<1>4. \A p \in at..(last - 1) : def.kind[order[p]] = "action"
  <2>1. \A p \in (at + 1)..(last - 1) : def.kind[order[p]] = "action"
    BY <1>2, PlannedIs
  <2>2. \A p \in at..(last - 1) : p = at \/ p \in (at + 1)..(last - 1)
    BY <1>2, <1>3
  <2> QED
    BY <1>2, <2>1, <2>2
<1>5. \A t \in Tasks(def) : entry'[t] # entry[t] => t \in Run /\ entry'[t] \in {"skipped", "running", "failed"}
  <2> DEFINE deciding(as) == {i \in at..(e - 1) : Decision(def, order[i], skipped, exports) \in as}
             U == {order[i] : i \in deciding({"false", "disabled"})}
             W == {order[i] : i \in deciding({"true"})}
  <2>1. entry' = [t \in Tasks(def) |-> CASE t \in U -> "skipped"
                                         [] t \in W -> "running"
                                         [] e < last /\ t = order[e] -> "failed"
                                         [] OTHER -> entry[t]]
    BY DEF SendOff
  <2>2. \A p \in at..(e - 1) : p \in at..(last - 1)
    BY <1>2, <1>3
  <2>3. U \subseteq Run /\ W \subseteq Run
    BY <2>2
  <2>4. e < last => order[e] \in Run
    BY <1>2, <1>3
  <2> HIDE DEF U, W, e, last, Run
  <2>5. \A t \in Tasks(def) :
          entry'[t] # entry[t] => /\ t \in U \/ t \in W \/ (e < last /\ t = order[e])
                                  /\ entry'[t] \in {"skipped", "running", "failed"}
    BY <2>1
  <2> QED
    BY <2>3, <2>4, <2>5
<1>6. /\ at' \in {at, last} /\ pc' \in {"settled", "look", "collect"}
      /\ pc' = "collect" => at' = at
  BY DEF SendOff, Settle
<1> HIDE DEF last, e, Run
<1>7. Run \cap skipped = {} /\ Run \cap Conditions(def) = {}
  BY <1>3, <1>4 DEF Run, Conditions
<1>8. KeepsBranches(def)' /\ AtHere'
  BY <1>1, <1>2, <1>6 DEF OutInv, AtHere, Going
<1>9. SkippedIdle'
  <2>1. \A t \in skipped : t \in Tasks(def) /\ entry'[t] = entry[t]
    BY <1>5, <1>7 DEF LoopInv, Shape
  <2> QED
    BY <1>1, <2>1 DEF OutInv, SkippedIdle, Started
<1>10. SkippedClosed'
  <2>1. ASSUME NEW p \in 1..(at' - 1), order[p] \in skipped
        PROVE  Branches(def, order[p]) \subseteq skipped
    <3>1. last \in Nat /\ at \in Nat
      BY <1>2, <1>3 DEF Positions
    <3>2. p \in 1..(at - 1) \/ p \in at..(last - 1)
      <4>1. CASE at' = at
        BY <2>1, <4>1
      <4>2. CASE at' = last
        BY <2>1, <3>1, <4>2
      <4> QED
        BY <1>6, <4>1, <4>2
    <3>3. p \notin at..(last - 1)
      BY <1>3, <2>1
    <3> QED
      BY <2>1, <3>2, <3>3 DEF OutInv, SkippedClosed
  <2> QED
    BY <1>1, <2>1 DEF SkippedClosed
<1>11. NotTakenSkipped'
  <2>1. \A c : NotTaken(def, c)' = NotTaken(def, c)
    BY <1>1 DEF NotTaken, ExcludedBy, Result
  <2>2. \A c \in Tasks(def) : SettledCondition(c)' => SettledCondition(c)
    BY <1>1, <1>5 DEF SettledCondition
  <2> QED
    BY <1>1, <2>1, <2>2 DEF OutInv, NotTakenSkipped
<1> QED
  BY <1>8, <1>9, <1>10, <1>11 DEF OutInv

\* A run of tasks that main sent off is of actions.
LEMMA SentAreActions ==
    ASSUME LoopInv, OutInv, pc = "apply"
    PROVE  /\ at \in Positions /\ Planned \in (at + 1)..(Len(order) + 1)
           /\ \A p \in at..(Planned - 1) : p \in Positions /\ def.kind[order[p]] = "action"
           /\ \A i \in 1..Len(sent) : sent[i] \in Tasks(def) /\ def.kind[sent[i]] = "action"
<1> DEFINE last == Planned
<1>1. /\ at \in Positions /\ Len(order) \in Nat /\ at \in 1..Len(order)
      /\ def.kind[order[at]] = "action"
  BY OrderIs DEF LoopInv, Shape, Going, Positions, OutInv, AtHere
<1>2. /\ last \in (at + 1)..(Len(order) + 1)
      /\ \A p \in (at + 1)..(last - 1) : def.kind[order[p]] = "action"
  <2>1. Len(order) \in Nat /\ at \in 1..Len(order)
    BY <1>1
  <2> QED
    BY <2>1, PlannedIs
<1>3. \A i \in 1..Len(sent) : \E q \in (at + i - 1)..(last - 1) : q \in Positions /\ sent[i] = order[q]
  BY DEF LoopInv, Sending, Going
<1> HIDE DEF last
<1>4. \A p \in at..(last - 1) : p \in Positions /\ (p = at \/ p \in (at + 1)..(last - 1))
  BY <1>1, <1>2 DEF Positions
<1>5. \A p \in at..(last - 1) : def.kind[order[p]] = "action"
  BY <1>1, <1>2, <1>4
<1>6. ASSUME NEW i \in 1..Len(sent) PROVE sent[i] \in Tasks(def) /\ def.kind[sent[i]] = "action"
  <2>1. PICK q \in (at + i - 1)..(last - 1) : q \in Positions /\ sent[i] = order[q]
    BY <1>3
  <2>2. Len(sent) \in Nat
    BY DEF LoopInv, Shape
  <2>3. q \in at..(last - 1)
    BY <1>1, <1>2, <2>1, <2>2
  <2> QED
    BY <1>5, <2>1, <2>3, OrderIs
<1> QED
  BY <1>1, <1>2, <1>4, <1>5, <1>6 DEF last

LEMMA ApplyStaysOut ==
    ASSUME LoopInv, OutInv, ApplyOutcome \/ EndRun
    PROVE  OutInv'
<1>1. /\ def' = def /\ luck' = luck /\ order' = order /\ restored' = restored /\ results' = results /\ skipped' = skipped
      /\ pc = "apply"
  BY DEF ApplyOutcome, EndRun, runVars
<1>2. /\ at \in Positions /\ at \in Nat /\ Planned \in (at + 1)..(Len(order) + 1) /\ Len(order) \in Nat
      /\ \A p \in at..(Planned - 1) : p \in Positions /\ def.kind[order[p]] = "action"
      /\ \A i \in 1..Len(sent) : sent[i] \in Tasks(def) /\ def.kind[sent[i]] = "action"
      /\ IsDefinition(def)
  BY <1>1, SentAreActions, OrderIs DEF LoopInv, Fixed
<1>3. \A c : NotTaken(def, c)' = NotTaken(def, c)
  BY <1>1 DEF NotTaken, ExcludedBy, Result
<1>4. CASE ApplyOutcome
  <2> DEFINE i == Least(Unapplied)
             t == sent[i]
  <2>1. at' = at /\ pc' = pc /\ \A s \in Tasks(def) : s # t => entry'[s] = entry[s]
    BY <1>4 DEF ApplyOutcome, LoopInv, Shape
  <2>2. i \in 1..Len(sent) /\ t \notin Recorded
    <3> DEFINE B == Unapplied
    <3>1. B \in SUBSET Nat /\ B # {} /\ \A k \in B : k \in 1..Len(sent) /\ sent[k] \notin Recorded
      BY <1>4 DEF Unapplied, ApplyOutcome
    <3> HIDE DEF B
    <3>2. Least(B) \in B
      BY <3>1, LeastIs
    <3> QED
      BY <3>1, <3>2 DEF B
  <2> HIDE DEF i
  <2>3. t \in Tasks(def) /\ t \notin Conditions(def) /\ t \in Sent
    BY <1>2, <2>2 DEF Conditions, Sent
  <2>4. entry[t] = "running"
    <3>1. PICK q \in (at + i - 1)..(Planned - 1) : q \in Positions /\ t = order[q]
      BY <1>1, <2>2 DEF LoopInv, Sending, Going
    <3>2. q \in at..Len(order) /\ q < Planned
      <4>1. i \in Nat /\ 1 <= i
        BY <2>2 DEF LoopInv, Shape
      <4>2. Planned \in Nat /\ q \in Nat /\ at + i - 1 <= q /\ q <= Planned - 1
        BY <1>2, <3>1, <4>1 DEF Positions
      <4> QED
        BY <1>2, <3>1, <4>1, <4>2 DEF Positions
    <3>3. InRun(order[q])
      BY <1>1, <3>2 DEF LoopInv, Ahead, Going
    <3> QED
      BY <2>2, <2>3, <3>1, <3>3 DEF InRun
  <2>5. t \notin skipped
    BY <2>4 DEF OutInv, SkippedIdle, Started
  <2> HIDE DEF t
  <2>6. SkippedIdle'
    <3>1. \A s \in skipped : s \in Tasks(def) /\ entry'[s] = entry[s]
      BY <2>1, <2>5 DEF LoopInv, Shape
    <3> QED
      BY <1>1, <3>1 DEF OutInv, SkippedIdle, Started
  <2>7. SkippedClosed'
    BY <1>1, <2>1 DEF OutInv, SkippedClosed
  <2>8. NotTakenSkipped'
    <3>1. \A c \in Tasks(def) : SettledCondition(c)' => SettledCondition(c)
      BY <1>1, <2>1, <2>3 DEF SettledCondition
    <3> QED
      BY <1>1, <1>3, <3>1 DEF OutInv, NotTakenSkipped
  <2>9. AtHere' /\ KeepsBranches(def)'
    BY <1>1, <2>1 DEF OutInv, AtHere, Going
  <2> QED
    BY <2>6, <2>7, <2>8, <2>9 DEF OutInv
<1>5. CASE EndRun
  <2>1. entry' = entry /\ at' \in {at, Planned} /\ pc' \in {"settled", "look"}
    <3>1. \A s \in collected : flight[s] \in {"ok", "failed"}
      BY <1>1 DEF LoopInv, Sending, Going
    <3> QED
      BY <1>5, <3>1 DEF EndRun, Settle
  <2>2. SkippedIdle'
    BY <1>1, <2>1 DEF OutInv, SkippedIdle, Started
  <2>3. SkippedClosed'
    <3>1. ASSUME NEW p \in 1..(at' - 1), order[p] \in skipped
          PROVE  Branches(def, order[p]) \subseteq skipped
      <4>1. p \in 1..(at - 1) \/ p \in at..(Planned - 1)
        <5> DEFINE last == Planned
        <5>1. last \in Nat /\ at \in Nat /\ at' \in {at, last}
          BY <1>2, <2>1
        <5> HIDE DEF last
        <5>2. CASE at' = at
          BY <3>1, <5>2
        <5>3. CASE at' = last
          <6>1. p \in 1..(last - 1)
            BY <3>1, <5>3
          <6>2. p \in 1..(at - 1) \/ p \in at..(last - 1)
            BY <5>1, <6>1
          <6> QED
            BY <6>2 DEF last
        <5> QED
          BY <5>1, <5>2, <5>3
      <4>2. CASE p \in 1..(at - 1)
        BY <3>1, <4>2 DEF OutInv, SkippedClosed
      <4>3. CASE p \in at..(Planned - 1)
        <5>1. order[p] \in Tasks(def) \ Conditions(def)
          BY <1>2, <4>3, OrderIs DEF Conditions
        <5> QED
          BY <1>2, <5>1 DEF IsDefinition
      <4> QED
        BY <4>1, <4>2, <4>3
    <3> QED
      BY <1>1, <3>1 DEF SkippedClosed
  <2>4. NotTakenSkipped'
    <3>1. \A c \in Tasks(def) : SettledCondition(c)' => SettledCondition(c)
      BY <1>1, <2>1 DEF SettledCondition
    <3> QED
      BY <1>1, <1>3, <3>1 DEF OutInv, NotTakenSkipped
  <2>5. AtHere' /\ KeepsBranches(def)'
    BY <1>1, <2>1 DEF OutInv, AtHere, Going
  <2> QED
    BY <2>2, <2>3, <2>4, <2>5 DEF OutInv
<1> QED
  BY <1>4, <1>5

\* What is skipped of the first k tasks that a resume restores, and of what their
\* conditions decided, is closed: a branch comes after its condition.
RestoredClosed(d, ord, out, k) ==
    \A p \in 1..k :
        /\ ord[p] \in out => Branches(d, ord[p]) \subseteq out
        /\ ord[p] \notin out /\ ord[p] \in Conditions(d) =>
              ExcludedBy(d, ord[p], Result(def, ord[p])) \subseteq out

LEMMA RestoredGrows ==
    ASSUME NEW d, IsDefinition(d), Sound(d), NEW ord, Ordered(d, Dependencies(d), ord),
           NEW k \in 1..Len(ord), NEW out \in SUBSET Tasks(d), RestoredClosed(d, ord, out, k - 1)
    PROVE  RestoredClosed(d, ord, RestoredNext(d, ord[k], out), k)
<1> DEFINE t == ord[k]
           more == RestoredNext(d, t, out)
           need == Dependencies(d)
<1>1. /\ Len(ord) \in Nat /\ \A p \in 1..Len(ord) : ord[p] \in Tasks(d)
      /\ \A p, q \in 1..Len(ord) : ord[p] = ord[q] => p = q
      /\ \A p \in 1..Len(ord) : \A s \in need[ord[p]] : \E q \in 1..(p - 1) : ord[q] = s
  <2> HIDE DEF need
  <2>1. Orderly(Tasks(d), need, ord)
    BY DEF Ordered, need
  <2>2. ord \in Seq(Tasks(d))
    BY <2>1 DEF Orderly
  <2>3. Len(ord) \in Nat /\ \A p \in 1..Len(ord) : ord[p] \in Tasks(d)
    BY <2>2
  <2> QED
    BY <2>1, <2>3 DEF Orderly
<1>2. /\ \A c \in Tasks(d) : \A b \in Branches(d, c) : b \in Tasks(d) /\ c \in Declared(d)[b]
      /\ \A b \in Tasks(d) : Declared(d)[b] \subseteq need[b]
  BY DefinitionIs, SoundIsOrdered
<1> HIDE DEF need
<1>3. t \in Tasks(d) /\ t \notin Branches(d, t)
  <2>1. t \in Conditions(d) => t \notin Branches(d, t)
    BY DEF Sound
  <2>2. t \in Tasks(d) \ Conditions(d) => Branches(d, t) = {}
    BY DEF IsDefinition
  <2> QED
    BY <1>1, <2>1, <2>2
<1>4. ExcludedBy(d, t, Result(def, t)) \subseteq Branches(d, t)
  BY DEF ExcludedBy, Branches
<1>5. out \subseteq more /\ more \subseteq out \cup {t} \cup Branches(d, t)
  BY <1>4 DEF RestoredNext
<1>6. ASSUME NEW p \in 1..(k - 1)
      PROVE  p \in 1..Len(ord) /\ ord[p] # t /\ ord[p] \notin Branches(d, t)
  <2>1. p \in 1..Len(ord) /\ p # k /\ p < k
    BY <1>1, <1>6
  <2>2. ord[p] # t
    BY <1>1, <2>1
  <2>3. ASSUME ord[p] \in Branches(d, t) PROVE FALSE
    <3>1. PICK q \in 1..(p - 1) : ord[q] = t
      BY <1>1, <1>2, <1>3, <2>1, <2>3
    <3>2. q \in 1..Len(ord) /\ q # k
      BY <1>1, <2>1
    <3> QED
      BY <1>1, <3>1, <3>2
  <2> QED
    BY <2>1, <2>2, <2>3
<1>7. ASSUME NEW p \in 1..(k - 1)
      PROVE  /\ ord[p] \in more => Branches(d, ord[p]) \subseteq more
             /\ ord[p] \notin more /\ ord[p] \in Conditions(d) =>
                   ExcludedBy(d, ord[p], Result(def, ord[p])) \subseteq more
  <2>1. ord[p] \in more => ord[p] \in out
    BY <1>5, <1>6
  <2> HIDE DEF more
  <2> QED
    BY <1>5, <2>1 DEF RestoredClosed
<1>8. /\ t \in more => Branches(d, t) \subseteq more
      /\ t \notin more /\ t \in Conditions(d) => ExcludedBy(d, t, Result(def, t)) \subseteq more
  <2>1. CASE t \in out \/ (t \in Recorded /\ Outcome(t) = "skipped")
    BY <2>1 DEF RestoredNext
  <2>2. CASE ~(t \in out \/ (t \in Recorded /\ Outcome(t) = "skipped"))
    BY <1>3, <1>4, <2>2 DEF RestoredNext
  <2> QED
    BY <2>1, <2>2
<1> HIDE DEF more
<1>9. \A p \in 1..k : p = k \/ p \in 1..(k - 1)
  BY <1>1
<1>10. RestoredClosed(d, ord, more, k)
  BY <1>7, <1>8, <1>9 DEF RestoredClosed
<1> QED
  BY <1>10 DEF more

LEMMA RestoredStaysOut ==
    ASSUME NEW d, IsDefinition(d), Sound(d), NEW ord \in Seq(Tasks(d)),
           Ordered(d, Dependencies(d), ord)
    PROVE  \A k \in 0..Len(ord) : RestoredClosed(d, ord, RestoredSkips(d, ord)[k], k)
<1> DEFINE out == RestoredSkips(d, ord)
           Not == {k \in 0..Len(ord) : ~RestoredClosed(d, ord, out[k], k)}
<1>1. /\ out[0] = {} /\ \A k \in 1..Len(ord) : out[k] = RestoredNext(d, ord[k], out[k - 1])
      /\ \A k \in 0..Len(ord) : out[k] \in SUBSET Tasks(d)
  BY RestoredSkipsIs
<1> HIDE DEF out
<1>2. Not = {}
  <2> SUFFICES ASSUME Not # {} PROVE FALSE
    OBVIOUS
  <2>1. PICK k \in Not : \A m \in Not : k <= m
    <3>1. Not \in SUBSET Nat
      OBVIOUS
    <3> HIDE DEF Not
    <3> QED
      BY <3>1, LeastExists
  <2>2. k # 0
    <3>1. RestoredClosed(d, ord, out[0], 0)
      BY DEF RestoredClosed
    <3> QED
      BY <2>1, <3>1
  <2>3. k \in 1..Len(ord) /\ k - 1 \in 0..Len(ord) /\ k - 1 \notin Not
    BY <2>1, <2>2
  <2>4. RestoredClosed(d, ord, out[k - 1], k - 1)
    BY <2>3
  <2>5. RestoredClosed(d, ord, RestoredNext(d, ord[k], out[k - 1]), k)
    BY <1>1, <2>3, <2>4, RestoredGrows
  <2> QED
    BY <1>1, <2>1, <2>3, <2>5
<1> QED
  BY <1>2 DEF out

LEMMA ResumeStaysOut ==
    ASSUME NothingForgotten, LoopInv,
           NEW d \in {def} \cup Edits(def), NEW start \in Tasks(def), Resume(d, start)
    PROVE  OutInv'
<1> DEFINE ord == ExecutionOrder(d, Dependencies(d))
           out == RestoredSkips(d, ord)[start - 1]
           before == {ord[i] : i \in 1..(start - 1)}
<1>1. /\ resumed = "no" /\ Sound(d) /\ order' = ord /\ skipped' = out
      /\ restored' = [t \in before |-> IF t \in out THEN "skipped" ELSE "success"]
      /\ def' = d /\ at' = start /\ pc' = "look"
      /\ entry' = [t \in Tasks(d) |-> "none"] /\ luck' = luck
      /\ results' = {c \in before \cap Conditions(d) : Result(def, c)}
  BY DEF Resume, NoneOf
<1>2. IsDefinition(d) /\ Tasks(d) = Tasks(def) /\ KeepsBranches(d)
  <2>1. def \in Definitions /\ IsDefinition(def)
    BY <1>1 DEF LoopInv, Fixed
  <2> QED
    BY <2>1, EditsAssumption DEF NothingForgotten
<1>3. Ordered(d, Dependencies(d), ord) /\ ord \in Seq(Tasks(d))
  BY <1>1, <1>2, SoundIsOrdered
<1> HIDE DEF ord
<1>4. start - 1 \in 0..Len(ord)
  <2>1. Len(ord) = Len(d.kind) /\ Tasks(d) = 1..Len(d.kind)
    BY <1>2, <1>3, DefinitionIs DEF Ordered
  <2> QED
    BY <1>2, <1>3, <2>1
<1>5. RestoredClosed(d, ord, out, start - 1) /\ out \subseteq Tasks(d)
  BY <1>1, <1>2, <1>3, <1>4, RestoredStaysOut, RestoredSkipsIs
<1> HIDE DEF out
<1>6. SkippedIdle'
  BY <1>1, <1>5 DEF SkippedIdle, Started
<1>7. SkippedClosed'
  BY <1>1, <1>5 DEF SkippedClosed, RestoredClosed
<1>8. NotTakenSkipped'
  <2>1. \A c \in before \cap Conditions(d) :
           NotTaken(def, c)' = ExcludedBy(d, c, Result(def, c))
    BY <1>1 DEF NotTaken, ExcludedBy
  <2>2. ASSUME NEW c \in Tasks(d), SettledCondition(c)' PROVE NotTaken(def, c)' \subseteq out
    <3>1. c \in Conditions(d) /\ c \in before /\ c \notin out
      BY <1>1, <2>2 DEF SettledCondition, Conditions
    <3>2. PICK p \in 1..(start - 1) : ord[p] = c
      BY <3>1
    <3> QED
      BY <1>5, <2>1, <3>1, <3>2 DEF RestoredClosed
  <2>3. Tasks(def)' = Tasks(d)
    BY <1>1 DEF Tasks
  <2> QED
    BY <1>1, <2>1, <2>2, <2>3 DEF NotTakenSkipped
<1>9. KeepsBranches(def)' /\ AtHere'
  BY <1>1, <1>2 DEF AtHere, Going
<1> QED
  BY <1>6, <1>7, <1>8, <1>9 DEF OutInv

LEMMA OutInvariance ==
    ASSUME NothingForgotten
    PROVE  Spec => []OutInv
<1>1. Init => OutInv
  BY OutStarts
<1>2. LoopInv /\ OutInv /\ [Next]_vars => OutInv'
  <2> SUFFICES ASSUME LoopInv, OutInv, [Next]_vars PROVE OutInv'
    OBVIOUS
  <2>1. CASE BuildGraph \/ Look \/ StopCollecting \/ Cancel \/ WaitClaimed
    <3>1. CASE BuildGraph
      BY <3>1, OutPasses DEF BuildGraph, Settle, Going
    <3>2. CASE Look
      <4>1. Len(order) \in Nat /\ at \in Nat
        BY OrderIs DEF LoopInv, Shape
      <4>2. pc' \in {"settled", "step"}
        <5>1. CASE at > Len(order)
          BY <3>2, <5>1 DEF Look, Settle
        <5>2. CASE at <= Len(order) /\ cancel
          BY <3>2, <4>1, <5>2 DEF Look, Settle
        <5>3. CASE at <= Len(order) /\ ~cancel
          BY <3>2, <4>1, <5>3 DEF Look, Settle
        <5> QED
          BY <4>1, <5>1, <5>2, <5>3
      <4> QED
        BY <3>2, <4>2, OutPasses DEF Look, Going
    <3>3. CASE StopCollecting
      BY <3>3, OutPasses DEF StopCollecting, Going
    <3>4. CASE Cancel
      BY <3>4, OutPasses DEF Cancel, Settle, Going
    <3>5. CASE WaitClaimed
      BY <3>5, OutPasses DEF WaitClaimed, Going
    <3> QED
      BY <2>1, <3>1, <3>2, <3>3, <3>4, <3>5
  <2>2. CASE \E t \in Tasks(def) : TaskReturns(t) \/ Collect(t)
    BY <2>2, OutPasses DEF TaskReturns, Collect, Going, runVars
  <2>3. CASE \/ SkipTask \/ FailGuard \/ SettleCondition \/ StartWait \/ SettleWait
             \/ StartDetached \/ StartWaited \/ ClaimPaused
    BY <2>3, HereStaysOut
  <2>4. CASE ChildSettles
    BY <2>4, ChildStaysOut
  <2>5. CASE SendOff
    BY <2>5, SendOffStaysOut
  <2>6. CASE ApplyOutcome \/ EndRun
    BY <2>6, ApplyStaysOut
  <2>7. CASE \E d \in {def} \cup Edits(def) : \E start \in Tasks(def) : Resume(d, start)
    BY <2>7, ResumeStaysOut
  <2>8. CASE UNCHANGED vars
    BY <2>8, OutPasses DEF vars, runVars, Going
  <2> QED
    BY <2>1, <2>2, <2>3, <2>4, <2>5, <2>6, <2>7, <2>8 DEF Next, Main
<1> QED
  BY <1>1, <1>2, LoopInvariance, PTL DEF Spec

\* A task under a branch that was not taken never starts, at any depth and in a
\* run resumed from a later step, of any workflow that has no condition beside a
\* sub-workflow it waits for: the resume of a paused run forgets what was skipped.
THEOREM BranchesHold ==
    ASSUME NothingForgotten
    PROVE  Spec => []BranchesStayOut
<1>1. LoopInv /\ OutInv => BranchesStayOut
  BY OutInvHolds
<1> QED
  BY <1>1, LoopInvariance, OutInvariance, PTL

(***************************************************************************)
(* The run with one task at a time                                         *)
(***************************************************************************)
\* What holds of the first number, and of each one if it holds of the one before,
\* holds of all.
LEMMA Stepwise ==
    ASSUME NEW from \in Nat, NEW to \in Nat, NEW S, from \in S,
           \A k \in (from + 1)..to : k - 1 \in S => k \in S
    PROVE  \A k \in from..to : k \in S
<1> DEFINE Not == {k \in from..to : k \notin S}
<1>1. Not = {}
  <2> SUFFICES ASSUME Not # {} PROVE FALSE
    OBVIOUS
  <2>1. PICK k \in Not : \A m \in Not : k <= m
    <3>1. Not \in SUBSET Nat
      OBVIOUS
    <3> HIDE DEF Not
    <3> QED
      BY <3>1, LeastExists
  <2>2. k # from
    BY <2>1
  <2>3. k \in (from + 1)..to /\ k - 1 \in from..to /\ k - 1 \notin Not
    BY <2>1, <2>2
  <2> QED
    BY <2>1, <2>3
<1> QED
  BY <1>1

Decisions == {"excluded", "disabled", "true", "false", "error"}
Comings   == {"success", "skipped", "failed"}
AloneStates ==
    [out : SUBSET Tasks(def), known : SUBSET Tasks(def),
     came : [Tasks(def) -> {"none"} \cup Comings], ends : {"completed", "failed"}]
AloneFirst == [out |-> {}, known |-> {}, came |-> NoneOf(def, "none"), ends |-> "completed"]

LEMMA DecisionTyped ==
    ASSUME Fixed, NEW t \in Tasks(def), NEW out, NEW known
    PROVE  /\ Decision(def, t, out, known) \in Decisions
           /\ Decision(def, t, out, known) = "excluded" <=> t \in out
<1>1. Verdict(def, t, known) \in {"true", "false", "error"}
  BY DEF Verdict, Fixed
<1> QED
  BY <1>1 DEF Decision, Decisions

LEMMA ComesIs ==
    ASSUME NEW t, NEW decision \in Decisions, NEW known
    PROVE  /\ Comes(t, decision, known) \in Comings
           /\ Comes(t, decision, known) = "failed" <=>
                 \/ decision = "error"
                 \/ t \notin Conditions(def) /\ decision = "true" /\ ~Works(t, known)
           /\ Comes(t, decision, known) = "skipped" <=>
                 \/ decision = "excluded"
                 \/ t \notin Conditions(def) /\ decision \in {"false", "disabled"}
<1>1. CASE decision = "error"
  BY <1>1 DEF Comes, Comings
<1>2. CASE decision = "excluded"
  BY <1>2 DEF Comes, Comings
<1>3. CASE t \in Conditions(def) /\ decision \in {"true", "false", "disabled"}
  BY <1>3 DEF Comes, Comings
<1>4. CASE t \notin Conditions(def) /\ decision \in {"false", "disabled"}
  BY <1>4 DEF Comes, Comings
<1>5. CASE t \notin Conditions(def) /\ decision = "true"
  BY <1>5 DEF Comes, Comings
<1> QED
  BY <1>1, <1>2, <1>3, <1>4, <1>5 DEF Decisions

LEMMA AloneNextIs ==
    ASSUME Fixed, NEW s \in AloneStates, NEW t \in Tasks(def)
    PROVE  AloneNext(s, t) \in AloneStates
<1> DEFINE decision == Decision(def, t, s.out, s.known)
           came == Comes(t, decision, s.known)
<1>1. decision \in Decisions
  BY DecisionTyped
<1>2. Excludes(def, t, decision) \subseteq Tasks(def)
  <2>1. Branches(def, t) \subseteq Tasks(def) /\ NotTaken(def, t) \subseteq Branches(def, t)
    BY DefinitionIs DEF Fixed, NotTaken, ExcludedBy, Branches
  <2> QED
    BY <2>1 DEF Excludes
<1> HIDE DEF decision
<1>3. came \in Comings
  BY <1>1, ComesIs
<1> HIDE DEF came
<1>4. CASE s.ends = "failed"
  BY <1>4 DEF AloneNext
<1>5. CASE s.ends # "failed"
  <2>1. AloneNext(s, t) = [out |-> s.out \cup Excludes(def, t, decision),
                           known |-> IF came = "success" THEN s.known \cup {t} ELSE s.known,
                           came |-> [s.came EXCEPT ![t] = came],
                           ends |-> IF came = "failed" THEN "failed" ELSE "completed"]
    BY <1>5 DEF AloneNext, decision, came
  <2>2. /\ s.out \cup Excludes(def, t, decision) \in SUBSET Tasks(def)
        /\ (IF came = "success" THEN s.known \cup {t} ELSE s.known) \in SUBSET Tasks(def)
        /\ [s.came EXCEPT ![t] = came] \in [Tasks(def) -> {"none"} \cup Comings]
    BY <1>2, <1>3 DEF AloneStates
  <2> QED
    BY <2>1, <2>2 DEF AloneStates
<1> QED
  BY <1>4, <1>5

LEMMA AloneIs ==
    ASSUME Fixed
    PROVE  /\ Alone[0] = AloneFirst
           /\ \A k \in 1..Len(order) : Alone[k] = AloneNext(Alone[k - 1], order[k])
           /\ \A k \in 0..Len(order) : Alone[k] \in AloneStates
<1> DEFINE N == Len(order)
           X == AloneStates
           next(s, k) == AloneNext(s, order[k])
           Is(f) == f = [k \in 0..N |-> IF k = 0 THEN AloneFirst ELSE next(f[k - 1], k)]
           g == [p \in X \X (1..N) |-> next(p[1], p[2])]
<1>1. N \in Nat /\ AloneFirst \in X
  BY DEF Fixed, AloneFirst, AloneStates, NoneOf
<1>2. \A s \in X, k \in 1..N : next(s, k) \in X
  <2> TAKE s \in X, k \in 1..N
  <2>1. order[k] \in Tasks(def)
    BY DEF Fixed
  <2> QED
    BY <2>1, AloneNextIs
<1>3. g \in [X \X (1..N) -> X]
  BY <1>2
<1>4. \A s \in X, k \in 1..N : g[<<s, k>>] = next(s, k)
  OBVIOUS
<1> HIDE DEF X, g, N, next
<1>5. PICK h \in [0..N -> X] : Runs(h, N, AloneFirst, g)
  BY <1>1, <1>3, RunsExists
<1>6. Is(h)
  <2>1. \A k \in 0..N : h[k] = IF k = 0 THEN AloneFirst ELSE next(h[k - 1], k)
    <3> TAKE k \in 0..N
    <3>1. CASE k = 0
      BY <1>5, <3>1 DEF Runs
    <3>2. CASE k # 0
      <4>1. k \in 1..N /\ k - 1 \in 0..N
        BY <1>1, <3>2
      <4>2. h[k] = g[<<h[k - 1], k>>] /\ h[k - 1] \in X
        BY <1>5, <4>1 DEF Runs
      <4>3. h[k] = next(h[k - 1], k)
        BY <1>4, <4>1, <4>2
      <4> QED
        BY <3>2, <4>3
    <3> QED
      BY <3>1, <3>2
  <2> QED
    BY <2>1
<1> DEFINE F == CHOOSE f : Is(f)
<1>7. Is(F)
  BY <1>6
<1>8. Alone = F
  BY DEF Alone, N, next, AloneFirst
<1> HIDE DEF F
<1>9. \A k \in 0..N : F[k] = IF k = 0 THEN AloneFirst ELSE next(F[k - 1], k)
  BY <1>7
<1> HIDE DEF Is
<1>10. F[0] = AloneFirst /\ \A k \in 1..N : F[k] = next(F[k - 1], k) /\ k - 1 \in 0..N
  <2>1. 0 \in 0..N /\ \A k \in 1..N : k \in 0..N /\ k # 0 /\ k - 1 \in 0..N
    BY <1>1
  <2> QED
    BY <1>9, <2>1
<1>11. \A k \in 0..N : F[k] \in X
  <2> DEFINE S == {k \in 0..N : F[k] \in X}
  <2>1. 0 \in S
    BY <1>1, <1>10
  <2>2. \A k \in 1..N : k - 1 \in S => k \in S
    BY <1>1, <1>2, <1>10
  <2> HIDE DEF S
  <2>3. \A k \in (0 + 1)..N : k - 1 \in S => k \in S
    BY <2>2
  <2>4. 0 \in Nat
    OBVIOUS
  <2>5. \A k \in 0..N : k \in S
    BY <1>1, <2>1, <2>3, <2>4, Stepwise
  <2> QED
    BY <2>5 DEF S
<1> QED
  BY <1>8, <1>10, <1>11 DEF N, X, next

\* What is decided of the k-th task when those before it ran one at a time, and
\* what it comes to then.
Turn(k) == Decision(def, order[k], Alone[k - 1].out, Alone[k - 1].known)
Due(k)  == Comes(order[k], Turn(k), Alone[k - 1].known)

\* One more task has run alone.
LEMMA AloneStep ==
    ASSUME LoopInv, NEW k \in Positions
    PROVE  /\ k - 1 \in 0..Len(order) /\ k \in 0..Len(order) /\ order[k] \in Tasks(def)
           /\ Alone[k] \in AloneStates /\ Alone[k - 1] \in AloneStates
           /\ Turn(k) \in Decisions /\ (Turn(k) = "excluded" <=> order[k] \in Alone[k - 1].out)
           /\ Due(k) \in Comings
           /\ Alone[k - 1].ends = "failed" => Alone[k] = Alone[k - 1]
           /\ Alone[k - 1].ends = "completed" =>
                 /\ Alone[k].out = Alone[k - 1].out \cup Excludes(def, order[k], Turn(k))
                 /\ Alone[k].known = IF Due(k) = "success" THEN Alone[k - 1].known \cup {order[k]}
                                                          ELSE Alone[k - 1].known
                 /\ Alone[k].came = [Alone[k - 1].came EXCEPT ![order[k]] = Due(k)]
                 /\ Alone[k].ends = IF Due(k) = "failed" THEN "failed" ELSE "completed"
<1> DEFINE s == Alone[k - 1]
           t == order[k]
<1>1. Fixed /\ Len(order) \in Nat /\ t \in Tasks(def) /\ k - 1 \in 0..Len(order) /\ k \in 0..Len(order)
      /\ k \in 1..Len(order)
  BY OrderIs DEF LoopInv, Positions
<1>2. s \in AloneStates /\ Alone[k] \in AloneStates /\ Alone[k] = AloneNext(s, t)
  BY <1>1, AloneIs
<1>3. Turn(k) \in Decisions /\ (Turn(k) = "excluded" <=> t \in s.out)
  BY <1>1, DecisionTyped DEF Turn
<1>4. Due(k) \in Comings
  BY <1>3, ComesIs DEF Due
<1>5. /\ s.ends = "failed" => AloneNext(s, t) = s
      /\ s.ends # "failed" =>
            AloneNext(s, t) =
              [out |-> s.out \cup Excludes(def, t, Turn(k)),
               known |-> IF Due(k) = "success" THEN s.known \cup {t} ELSE s.known,
               came |-> [s.came EXCEPT ![t] = Due(k)],
               ends |-> IF Due(k) = "failed" THEN "failed" ELSE "completed"]
  BY DEF AloneNext, Turn, Due
<1> HIDE DEF s, t
<1>6. s.ends = "failed" => Alone[k] = s
  BY <1>2, <1>5
<1>7. s.ends = "completed" =>
        /\ Alone[k].out = s.out \cup Excludes(def, t, Turn(k))
        /\ Alone[k].known = IF Due(k) = "success" THEN s.known \cup {t} ELSE s.known
        /\ Alone[k].came = [s.came EXCEPT ![t] = Due(k)]
        /\ Alone[k].ends = IF Due(k) = "failed" THEN "failed" ELSE "completed"
  BY <1>2, <1>5
<1> QED
  BY <1>1, <1>2, <1>3, <1>4, <1>6, <1>7 DEF s, t

\* Once it has failed it goes no further.
LEMMA AloneFails ==
    ASSUME LoopInv, NEW k \in 0..Len(order), Alone[k].ends = "failed"
    PROVE  \A j \in k..Len(order) : Alone[j] = Alone[k]
<1> DEFINE S == {j \in k..Len(order) : Alone[j] = Alone[k]}
<1>1. Len(order) \in Nat /\ k \in Nat /\ k \in S
  BY OrderIs
<1>2. ASSUME NEW j \in (k + 1)..Len(order), j - 1 \in S PROVE j \in S
  <2>1. j \in Positions /\ j \in k..Len(order)
    BY <1>1 DEF Positions
  <2>2. Alone[j - 1].ends = "failed"
    BY <1>2
  <2>3. Alone[j] = Alone[j - 1]
    BY <2>1, <2>2, AloneStep
  <2> QED
    BY <1>2, <2>1, <2>3
<1> HIDE DEF S
<1>3. \A j \in k..Len(order) : j \in S
  BY <1>1, <1>2, Stepwise
<1> QED
  BY <1>3 DEF S

\* What has run alone, and how.
AloneTo(k) ==
    /\ \A p \in Positions : p > k => Alone[k].came[order[p]] = "none"
    /\ \A t \in Alone[k].known : \E p \in 1..k : order[p] = t
    /\ Conditions(def) = {} => Alone[k].out = {}

LEMMA AloneGrows ==
    ASSUME LoopInv
    PROVE  \A k \in 0..Len(order) : AloneTo(k)
<1> DEFINE S == {k \in 0..Len(order) : AloneTo(k)}
<1>1. Len(order) \in Nat /\ 0 \in Nat
  BY OrderIs
<1>2. 0 \in S
  <2>1. Alone[0] = AloneFirst /\ \A p \in Positions : order[p] \in Tasks(def)
    BY AloneIs, OrderIs DEF LoopInv
  <2>2. AloneTo(0)
    BY <2>1 DEF AloneTo, AloneFirst, NoneOf
  <2> QED
    BY <1>1, <2>2
<1>3. ASSUME NEW k \in (0 + 1)..Len(order), k - 1 \in S PROVE k \in S
  <2>1. k \in Positions /\ k \in Nat /\ AloneTo(k - 1)
    BY <1>1, <1>3 DEF Positions
  <2>2. CASE Alone[k - 1].ends = "failed"
    <3>1. Alone[k] = Alone[k - 1]
      BY <2>1, <2>2, AloneStep
    <3>2. \A p \in Positions : p > k => p > k - 1
      BY <2>1 DEF Positions
    <3>3. \A p \in 1..(k - 1) : p \in 1..k
      BY <2>1
    <3>4. AloneTo(k)
      BY <2>1, <3>1, <3>2, <3>3 DEF AloneTo
    <3> QED
      BY <1>1, <3>4
  <2>3. CASE Alone[k - 1].ends = "completed"
    <3>1. /\ Alone[k - 1] \in AloneStates /\ order[k] \in Tasks(def)
          /\ Alone[k].out = Alone[k - 1].out \cup Excludes(def, order[k], Turn(k))
          /\ Alone[k].known \subseteq Alone[k - 1].known \cup {order[k]}
          /\ Alone[k].came = [Alone[k - 1].came EXCEPT ![order[k]] = Due(k)]
      BY <2>1, <2>3, AloneStep
    <3>2. ASSUME NEW p \in Positions, p > k PROVE Alone[k].came[order[p]] = "none"
      <4>1. p > k - 1 /\ p # k
        BY <2>1, <3>2 DEF Positions
      <4>2. order[p] # order[k] /\ order[p] \in Tasks(def)
        BY <2>1, <4>1, OrderIs
      <4>3. Alone[k - 1].came[order[p]] = "none"
        BY <2>1, <4>1 DEF AloneTo
      <4> QED
        BY <3>1, <4>2, <4>3 DEF AloneStates
    <3>3. \A t \in Alone[k].known : \E p \in 1..k : order[p] = t
      <4>1. k \in 1..k /\ \A p \in 1..(k - 1) : p \in 1..k
        BY <2>1
      <4> QED
        BY <2>1, <3>1, <4>1 DEF AloneTo
    <3>4. Conditions(def) = {} => Alone[k].out = {}
      BY <2>1, <3>1 DEF AloneTo, Excludes
    <3>5. AloneTo(k)
      BY <3>2, <3>3, <3>4 DEF AloneTo
    <3> QED
      BY <1>1, <3>5
  <2> QED
    BY <2>1, <2>2, <2>3, AloneStep DEF AloneStates
<1> HIDE DEF S
<1>4. \A k \in 0..Len(order) : k \in S
  BY <1>1, <1>2, <1>3, Stepwise
<1> QED
  BY <1>4 DEF S

\* What the run with one task at a time has of a task in the end.
LEMMA AloneCame ==
    ASSUME LoopInv, NEW k \in Positions
    PROVE  Alone[Len(order)].came[order[k]] =
              IF Alone[k - 1].ends = "failed" THEN "none" ELSE Due(k)
<1> DEFINE N == Len(order)
<1>1. N \in Nat /\ k \in 1..N /\ k \in 0..N /\ k - 1 \in 0..N /\ order[k] \in Tasks(def)
      /\ Alone[k - 1] \in AloneStates
  BY OrderIs, AloneStep DEF Positions
<1>2. CASE Alone[k - 1].ends = "failed"
  <2>1. N \in (k - 1)..N
    BY <1>1
  <2>2. Alone[N] = Alone[k - 1]
    <3> HIDE DEF N
    <3> DEFINE j == k - 1
    <3>1. j \in 0..N /\ Alone[j].ends = "failed" /\ N \in j..N
      BY <1>1, <1>2, <2>1
    <3> HIDE DEF j
    <3>2. Alone[N] = Alone[j]
      BY <3>1, AloneFails DEF N
    <3> QED
      BY <3>2 DEF j
  <2>3. AloneTo(k - 1) /\ k > k - 1
    BY <1>1, AloneGrows
  <2> QED
    BY <1>2, <2>2, <2>3 DEF AloneTo
<1>3. CASE Alone[k - 1].ends = "completed"
  <2> DEFINE S == {j \in k..N : Alone[j].came[order[k]] = Due(k)}
  <2>1. k \in S
    <3>1. Alone[k].came = [Alone[k - 1].came EXCEPT ![order[k]] = Due(k)]
      BY <1>3, AloneStep
    <3>2. Alone[k].came[order[k]] = Due(k)
      BY <1>1, <3>1 DEF AloneStates
    <3> QED
      BY <1>1, <3>2
  <2>2. ASSUME NEW j \in (k + 1)..N, j - 1 \in S PROVE j \in S
    <3>1. j \in Positions /\ j # k /\ j \in k..N
      BY <1>1 DEF Positions
    <3>2. Alone[j - 1].came[order[k]] = Due(k)
      BY <2>2
    <3>3. order[j] # order[k] /\ Alone[j - 1] \in AloneStates
      BY <3>1, OrderIs, AloneStep
    <3>4. CASE Alone[j - 1].ends = "failed"
      BY <3>1, <3>2, <3>4, AloneStep
    <3>5. CASE Alone[j - 1].ends = "completed"
      <4>1. Alone[j].came = [Alone[j - 1].came EXCEPT ![order[j]] = Due(j)]
        BY <3>1, <3>5, AloneStep
      <4>2. Alone[j].came[order[k]] = Due(k)
        BY <1>1, <3>2, <3>3, <4>1 DEF AloneStates
      <4> QED
        BY <3>1, <4>2
    <3> QED
      BY <3>3, <3>4, <3>5 DEF AloneStates
  <2> HIDE DEF S
  <2>3. N \in k..N /\ k \in Nat
    BY <1>1
  <2>4. \A j \in k..N : j \in S
    <3> HIDE DEF N
    <3> QED
      BY <1>1, <2>1, <2>2, <2>3, Stepwise
  <2>5. N \in S
    BY <2>3, <2>4
  <2> QED
    BY <1>3, <2>5 DEF S
<1> QED
  BY <1>1, <1>2, <1>3 DEF AloneStates

(***************************************************************************)
(* The tasks that run together, one at a time                              *)
(***************************************************************************)
\* Where the run with one task at a time is before the task that main is at.
Base == Alone[at - 1]

\* What a task of the concurrent run comes to, from what was known when it began.
Wanted(p)   == Decision(def, order[p], Base.out, Base.known)
Foreseen(p) == Comes(order[p], Wanted(p), Base.known)

\* The tasks at from at to q have run one at a time, after what is behind main.
TogetherTo(q) ==
    IF Alone[q].ends = "failed"
    THEN \E p \in at..q : Foreseen(p) = "failed"
    ELSE /\ Alone[q].out = Base.out
         /\ \A t : t \in Alone[q].known <=>
                      t \in Base.known \/ \E p \in at..q : order[p] = t /\ Foreseen(p) = "success"
         /\ \A p \in at..q : Foreseen(p) # "failed"

\* What main may send off together.
MayJoin ==
    /\ LoopInv /\ at \in Positions /\ def.kind[Here] = "action"
    /\ Base.ends = "completed" /\ Here \notin Base.out /\ Base.out \subseteq skipped

LEMMA JoinIs ==
    ASSUME MayJoin
    PROVE  /\ Planned \in (at + 1)..(Len(order) + 1)
           /\ \A p \in at..(Planned - 1) :
                 /\ p \in Positions /\ order[p] \in Tasks(def) /\ order[p] \notin Base.out
                 /\ order[p] \notin Conditions(def) /\ def.kind[order[p]] = "action"
                 /\ \A i \in at..(p - 1) : order[i] \notin def.reads[order[p]]
<1> DEFINE last == Planned
<1>1. at \in 1..Len(order) /\ Len(order) \in Nat /\ \A p \in Positions : order[p] \in Tasks(def)
  BY OrderIs DEF MayJoin, Positions
<1>2. /\ last \in (at + 1)..(Len(order) + 1)
      /\ \A p \in (at + 1)..(last - 1) :
            /\ def.kind[order[p]] = "action" /\ order[p] \notin skipped
            /\ \A i \in at..(p - 1) : order[i] \notin def.reads[order[p]]
  BY <1>1, PlannedIs
<1> HIDE DEF last
<1>3. ASSUME NEW p \in at..(last - 1)
      PROVE  /\ p \in Positions /\ order[p] \in Tasks(def) /\ order[p] \notin Base.out
             /\ order[p] \notin Conditions(def) /\ def.kind[order[p]] = "action"
             /\ \A i \in at..(p - 1) : order[i] \notin def.reads[order[p]]
  <2>1. p \in Positions /\ order[p] \in Tasks(def)
    BY <1>1, <1>2 DEF Positions
  <2>2. CASE p = at
    <3>1. at..(p - 1) = {}
      BY <1>1, <2>2
    <3> QED
      BY <2>1, <2>2, <3>1 DEF MayJoin, Here, Conditions
  <2>3. CASE p # at
    <3>1. p \in (at + 1)..(last - 1)
      BY <1>1, <1>2, <2>3
    <3> QED
      BY <1>2, <2>1, <3>1 DEF MayJoin, Conditions
  <2> QED
    BY <2>2, <2>3
<1> QED
  BY <1>2, <1>3 DEF last

\* A task that reads none of the tasks beside it comes to the same after them.
LEMMA JoinedAlike ==
    ASSUME MayJoin, NEW p \in at..(Planned - 1), TogetherTo(p - 1), Alone[p - 1].ends = "completed"
    PROVE  Turn(p) = Wanted(p) /\ Due(p) = Foreseen(p)
<1> DEFINE t == order[p]
           s == Alone[p - 1]
<1>1. /\ t \in Tasks(def) /\ t \notin Base.out /\ t \notin Conditions(def)
      /\ \A i \in at..(p - 1) : order[i] \notin def.reads[t]
  BY JoinIs
<1>2. /\ s.out = Base.out
      /\ \A m : m \in s.known <=>
                   m \in Base.known \/ \E i \in at..(p - 1) : order[i] = m /\ Foreseen(i) = "success"
  BY DEF TogetherTo
<1> HIDE DEF s, t
<1>3. def.reads[t] \subseteq s.known <=> def.reads[t] \subseteq Base.known
  BY <1>1, <1>2
<1>4. Verdict(def, t, s.known) = Verdict(def, t, Base.known)
  BY <1>3 DEF Verdict
<1>5. Decision(def, t, s.out, s.known) = Decision(def, t, Base.out, Base.known)
  BY <1>1, <1>2, <1>4 DEF Decision
<1>6. Works(t, s.known) <=> Works(t, Base.known)
  BY <1>3 DEF Works
<1>7. \A decision : Comes(t, decision, s.known) = Comes(t, decision, Base.known)
  BY <1>6 DEF Comes
<1> QED
  BY <1>5, <1>7 DEF Turn, Wanted, Due, Foreseen, s, t

\* Tasks that run together come to what they come to one after another.
LEMMA Together ==
    ASSUME MayJoin
    PROVE  \A q \in (at - 1)..(Planned - 1) : TogetherTo(q)
<1> DEFINE from == at - 1
           to == Planned - 1
           S == {q \in from..to : TogetherTo(q)}
<1>1. /\ from \in Nat /\ to \in Nat /\ from \in from..to /\ from + 1 = at /\ at \in Nat
      /\ \A q \in at..to : q \in from..to /\ q - 1 \in from..to /\ q \in Positions
  <2>1. at \in Nat \ {0} /\ Len(order) \in Nat
    BY OrderIs DEF MayJoin
  <2> DEFINE last == Planned
  <2>2. last \in (at + 1)..(Len(order) + 1) /\ \A p \in at..(last - 1) : p \in Positions
    BY JoinIs
  <2> HIDE DEF last
  <2> QED
    BY <2>1, <2>2 DEF last
<1>2. from \in S
  <2>1. at..from = {}
    BY <1>1
  <2>2. Alone[from] = Base
    BY DEF Base
  <2> HIDE DEF from
  <2>3. TogetherTo(from)
    BY <2>1, <2>2 DEF TogetherTo, MayJoin
  <2> QED
    BY <1>1, <2>3
<1>3. ASSUME NEW q \in (from + 1)..to, q - 1 \in S PROVE q \in S
  <2>1. q \in at..to /\ q \in from..to /\ q \in Positions /\ q \in Nat
    BY <1>1
  <2>2. TogetherTo(q - 1)
    BY <1>3
  <2>3. /\ q \in at..q /\ \A p \in at..(q - 1) : p \in at..q
        /\ \A p \in at..q : p = q \/ p \in at..(q - 1)
    BY <1>1, <2>1
  <2>4. Alone[q - 1].ends \in {"completed", "failed"}
    BY <2>1, AloneStep DEF AloneStates, MayJoin
  <2>5. CASE Alone[q - 1].ends = "failed"
    <3>1. Alone[q] = Alone[q - 1]
      BY <2>1, <2>5, AloneStep DEF MayJoin
    <3>2. TogetherTo(q)
      BY <2>2, <2>3, <2>5, <3>1 DEF TogetherTo
    <3> QED
      BY <2>1, <3>2
  <2>6. CASE Alone[q - 1].ends = "completed"
    <3>1. Due(q) = Foreseen(q)
      BY <2>1, <2>2, <2>6, JoinedAlike
    <3>2. order[q] \notin Conditions(def)
      BY <2>1, JoinIs
    <3>3. /\ Alone[q].out = Alone[q - 1].out \cup Excludes(def, order[q], Turn(q))
          /\ Alone[q].known = IF Foreseen(q) = "success" THEN Alone[q - 1].known \cup {order[q]}
                                                         ELSE Alone[q - 1].known
          /\ Alone[q].ends = IF Foreseen(q) = "failed" THEN "failed" ELSE "completed"
      BY <2>1, <2>6, <3>1, AloneStep DEF MayJoin
    <3>4. Alone[q].out = Alone[q - 1].out
      BY <3>2, <3>3 DEF Excludes
    <3>5. TogetherTo(q)
      <4>1. CASE Foreseen(q) = "failed"
        BY <2>3, <3>3, <4>1 DEF TogetherTo
      <4>2. CASE Foreseen(q) # "failed"
        <5>1. /\ Alone[q - 1].out = Base.out
              /\ \A t : t \in Alone[q - 1].known <=>
                           t \in Base.known \/ \E p \in at..(q - 1) : order[p] = t /\ Foreseen(p) = "success"
              /\ \A p \in at..(q - 1) : Foreseen(p) # "failed"
          BY <2>2, <2>6 DEF TogetherTo
        <5>2. \A p \in at..q : Foreseen(p) # "failed"
          BY <2>3, <4>2, <5>1
        <5>3. \A t : t \in Alone[q].known <=>
                        t \in Base.known \/ \E p \in at..q : order[p] = t /\ Foreseen(p) = "success"
          BY <2>3, <3>3, <5>1
        <5> QED
          BY <3>3, <3>4, <4>2, <5>1, <5>2, <5>3 DEF TogetherTo
      <4> QED
        BY <4>1, <4>2
    <3> QED
      BY <2>1, <3>5
  <2> QED
    BY <2>4, <2>5, <2>6
<1> HIDE DEF S
<1>4. \A q \in from..to : q \in S
  <2> HIDE DEF from, to
  <2> QED
    BY <1>1, <1>2, <1>3, Stepwise
<1> QED
  BY <1>4 DEF S

\* What they come to, of each and of the run.
LEMMA TogetherIs ==
    ASSUME MayJoin
    PROVE  /\ \A p \in at..(Planned - 1) :
                 /\ Alone[Len(order)].came[order[p]] \in {"none", Foreseen(p)}
                 /\ Foreseen(p) = "failed" => Alone[Len(order)].ends = "failed"
           /\ (\A p \in at..(Planned - 1) : Foreseen(p) # "failed") =>
                 /\ Alone[Planned - 1].ends = "completed" /\ Alone[Planned - 1].out = Base.out
                 /\ \A t : t \in Alone[Planned - 1].known <=>
                              \/ t \in Base.known
                              \/ \E p \in at..(Planned - 1) : order[p] = t /\ Foreseen(p) = "success"
<1> DEFINE to == Planned - 1
<1>1. /\ at \in Nat \ {0} /\ Len(order) \in Nat /\ to \in at..Len(order)
      /\ \A p \in at..to : p \in Positions /\ p - 1 \in (at - 1)..to /\ p \in (at - 1)..to
  <2>1. at \in Nat \ {0} /\ Len(order) \in Nat
    BY OrderIs DEF MayJoin
  <2> DEFINE last == Planned
  <2>2. last \in (at + 1)..(Len(order) + 1)
    BY JoinIs
  <2> HIDE DEF last
  <2>3. last - 1 \in at..Len(order) /\ \A p \in at..(last - 1) :
           p \in 1..Len(order) /\ p - 1 \in (at - 1)..(last - 1) /\ p \in (at - 1)..(last - 1)
    BY <2>1, <2>2
  <2> QED
    BY <2>1, <2>3 DEF last, Positions
<1>2. \A q \in (at - 1)..to : TogetherTo(q)
  BY Together
<1>3. \A p \in at..to : Alone[p - 1].ends = "completed" => Due(p) = Foreseen(p)
  BY <1>1, <1>2, JoinedAlike
<1> HIDE DEF to
<1>4. ASSUME NEW p \in at..to
      PROVE  /\ Alone[Len(order)].came[order[p]] \in {"none", Foreseen(p)}
             /\ Foreseen(p) = "failed" => Alone[Len(order)].ends = "failed"
  <2>1. p \in Positions /\ p \in 0..Len(order) /\ p \in Nat /\ Alone[p - 1].ends \in {"completed", "failed"}
        /\ Len(order) \in p..Len(order)
    <3>1. p \in Positions /\ p \in 0..Len(order) /\ p \in Nat /\ Len(order) \in p..Len(order)
      BY <1>1
    <3> QED
      BY <3>1, AloneStep DEF AloneStates, MayJoin
  <2>2. Alone[Len(order)].came[order[p]] \in {"none", Foreseen(p)}
    BY <1>3, <2>1, AloneCame DEF MayJoin
  <2>3. ASSUME Foreseen(p) = "failed" PROVE Alone[p].ends = "failed"
    <3>1. CASE Alone[p - 1].ends = "completed"
      BY <1>3, <2>1, <2>3, <3>1, AloneStep DEF MayJoin
    <3>2. CASE Alone[p - 1].ends = "failed"
      BY <2>1, <3>2, AloneStep DEF MayJoin
    <3> QED
      BY <2>1, <3>1, <3>2
  <2>4. ASSUME Alone[p].ends = "failed" PROVE Alone[Len(order)].ends = "failed"
    BY <2>1, <2>4, AloneFails DEF MayJoin
  <2> QED
    BY <2>2, <2>3, <2>4
<1>5. ASSUME \A p \in at..to : Foreseen(p) # "failed"
      PROVE  /\ Alone[to].ends = "completed" /\ Alone[to].out = Base.out
             /\ \A t : t \in Alone[to].known <=>
                          t \in Base.known \/ \E p \in at..to : order[p] = t /\ Foreseen(p) = "success"
  <2>1. to \in (at - 1)..to /\ to \in Positions
    BY <1>1 DEF Positions
  <2>2. TogetherTo(to)
    BY <1>2, <2>1
  <2>3. Alone[to].ends \in {"completed", "failed"}
    BY <2>1, AloneStep DEF AloneStates, MayJoin
  <2> QED
    BY <1>5, <2>2, <2>3 DEF TogetherTo
<1> QED
  BY <1>4, <1>5 DEF to

(***************************************************************************)
(* A run that has not failed is where the run with one task at a time is   *)
(***************************************************************************)
\* The outputs of a sub-workflow that is waited for are not recorded: nothing
\* reads them.
ChildUnread == \A d \in Definitions : \A t \in Tasks(d) : \A s \in d.reads[t] : d.kind[s] # "waited"

\* What main knows of what is known.
Seen(known) == {t \in known : def.kind[t] # "waited"}

\* The order of a run and of its resume is the definition's.
Computed ==
    /\ resumed # "edited" => def \in Definitions
    /\ Sound(def) => deps = Dependencies(def) /\ order = ExecutionOrder(def, Dependencies(def))

Comparable == Sound(def) /\ resumed # "edited"

\* Main is where that run is: it skips what that run leaves out, and maybe some
\* tasks behind it, and has the exports that run has.
Level ==
    pc # "settled" =>
        /\ Base.ends = "completed"
        /\ Base.out \subseteq skipped
        /\ \A t \in skipped \ Base.out : \E p \in 1..(at - 1) : order[p] = t
        /\ exports = Seen(Base.known) \cup {t \in Sent : entry[t] = "success"}

\* What main decided of the tasks of a concurrent run.
Decided ==
    Going({"collect", "apply"}) =>
        \A p \in at..(Planned - 1) :
            /\ order[p] \in Sent => Wanted(p) = "true"
            /\ order[p] \notin Sent => Wanted(p) \in {"false", "disabled"}

\* What came back of a task that main waits for, or has taken.
Returned ==
    \A t \in Sent : flight[t] \in {"ok", "failed"} /\ (pc = "collect" \/ t \in collected) =>
        (flight[t] = "ok" <=> Succeeds(def, t, Base.known))

\* A sub-workflow that main waits for was to start, and could.
Halted ==
    pc = "paused" /\ def.kind[Here] = "waited" =>
        Turn(at) = "true" /\ def.reads[Here] \subseteq Base.known

\* A step records what that run has of the task, if it comes to it.
Agrees(x) == x.status = "cancelled" \/ Alone[Len(order)].came[x.task] \in {"none", x.status}
Agreed == \A i \in 1..Len(steps) : Agrees(steps[i])

\* A task is cancelled in a run that is, or is about to be.
Cut ==
    \A i \in 1..Len(steps) : steps[i].status = "cancelled" =>
        status = "cancelled" \/ (pc = "apply" /\ ~(Sent \subseteq collected))

Ended == pc = "settled" /\ status # "cancelled" => status = Alone[Len(order)].ends

AlikeInv ==
    /\ Computed
    /\ Comparable => Level /\ Decided /\ Returned /\ Halted /\ Agreed /\ Cut /\ Ended

LEMMA AlikeInvEnds ==
    ASSUME LoopInv, AlikeInv
    PROVE  EndsAlike
<1> SUFFICES ASSUME pc = "settled", status # "cancelled", Sound(def), resumed # "edited"
             PROVE  /\ status = Alone[Len(order)].ends
                    /\ \A i \in 1..Len(steps) :
                          Alone[Len(order)].came[steps[i].task] \in {"none", steps[i].status}
  BY DEF EndsAlike
<1> QED
  BY DEF AlikeInv, Comparable, Ended, Agreed, Agrees, Cut

LEMMA AlikeStarts ==
    ASSUME Init
    PROVE  AlikeInv
<1>1. /\ def \in Definitions /\ pc = "graph" /\ at = 1 /\ skipped = {} /\ exports = {}
      /\ steps = << >> /\ sent = << >> /\ entry = [t \in Tasks(def) |-> "none"]
  BY DEF Init, NoneOf
<1>2. Computed
  BY DEF Init, Computed
<1>3. Base = AloneFirst
  <2>1. Alone[0] = AloneFirst
    BY LoopStarts, AloneIs DEF LoopInv
  <2>2. at - 1 = 0
    BY <1>1
  <2> QED
    BY <2>1, <2>2 DEF Base
<1>4. Level
  BY <1>1, <1>3 DEF Level, AloneFirst, Seen, Sent
<1>5. Decided /\ Returned /\ Halted /\ Agreed /\ Cut /\ Ended
  BY <1>1 DEF Decided, Returned, Halted, Agreed, Cut, Ended, Going, Sent
<1> QED
  BY <1>2, <1>4, <1>5 DEF AlikeInv

\* The run with one task at a time is of what a run keeps.
LEMMA AloneSame ==
    ASSUME def' = def, luck' = luck, order' = order,
           \A c \in Conditions(def) : NotTaken(def, c)' = NotTaken(def, c)
    PROVE  Alone' = Alone
<1>1. \A s, t : AloneNext(s, t)' = AloneNext(s, t)
  <2>1. \A t, out, known : Decision(def, t, out, known)' = Decision(def, t, out, known)
    BY DEF Decision, Verdict
  <2>2. \A t, decision, known : Comes(t, decision, known)' = Comes(t, decision, known)
    BY DEF Comes, Works
  <2>3. \A t, decision : Excludes(def, t, decision)' = Excludes(def, t, decision)
    BY DEF Excludes
  <2> QED
    BY <2>1, <2>2, <2>3 DEF AloneNext
<1> QED
  BY <1>1 DEF Alone

LEMMA AloneStays ==
    ASSUME UNCHANGED runVars
    PROVE  /\ Alone' = Alone /\ Comparable' = Comparable /\ Computed' = Computed
           /\ \A known : Seen(known)' = Seen(known)
           /\ \A p : Turn(p)' = Turn(p)
           /\ at' = at => Base' = Base /\ \A p : Wanted(p)' = Wanted(p)
           /\ at' = at => \A t : Succeeds(def, t, Base.known)' = Succeeds(def, t, Base.known)
           /\ \A x : Agrees(x)' = Agrees(x)
<1>1. def' = def /\ luck' = luck /\ order' = order /\ deps' = deps /\ resumed' = resumed
  BY DEF runVars
<1>2. \A t, out, known : Decision(def, t, out, known)' = Decision(def, t, out, known)
  BY <1>1 DEF Decision, Verdict
<1>3. Alone' = Alone
  <2>1. \A c : NotTaken(def, c)' = NotTaken(def, c)
    BY DEF runVars, NotTaken, ExcludedBy, Result
  <2> QED
    BY <1>1, <2>1, AloneSame
<1>4. Comparable' = Comparable /\ Computed' = Computed /\ \A known : Seen(known)' = Seen(known)
  BY <1>1 DEF Comparable, Computed, Seen
<1>5. \A p : Turn(p)' = Turn(p)
  BY <1>1, <1>3 DEF Turn, Decision, Verdict
<1>6. at' = at => Base' = Base
  BY <1>3 DEF Base
<1>7. at' = at => \A p : Wanted(p)' = Wanted(p)
  BY <1>1, <1>6 DEF Wanted, Decision, Verdict
<1>8. at' = at => \A t : Succeeds(def, t, Base.known)' = Succeeds(def, t, Base.known)
  BY <1>1, <1>6 DEF Succeeds
<1>9. \A x : Agrees(x)' = Agrees(x)
  BY <1>1, <1>3 DEF Agrees
<1> QED
  BY <1>3, <1>4, <1>5, <1>6, <1>7, <1>8, <1>9

\* A step that leaves the tasks as they are.
LEMMA AlikePasses ==
    ASSUME LoopInv, AlikeInv,
           UNCHANGED <<runVars, at, skipped, exports, entry, steps, taskVars>>, pc # "settled",
           pc' \in {"collect", "apply"} => pc \in {"collect", "apply"},
           pc' = "collect" => pc = "collect", pc = "apply" => pc' = "apply",
           pc' = "paused" => pc = "paused",
           Comparable /\ pc' = "settled" /\ status' # "cancelled" => status' = Alone[Len(order)].ends
    PROVE  AlikeInv'
<1>1. /\ def' = def /\ order' = order /\ deps' = deps
      /\ at' = at /\ skipped' = skipped /\ exports' = exports /\ entry' = entry /\ steps' = steps
      /\ sent' = sent /\ flight' = flight /\ collected' = collected
  BY DEF runVars, taskVars
<1>2. Sent' = Sent /\ Planned' = Planned
  BY <1>1 DEF Sent, Planned
<1>3. /\ Alone' = Alone /\ Comparable' = Comparable /\ Computed' = Computed
      /\ \A known : Seen(known)' = Seen(known)
      /\ \A p : Turn(p)' = Turn(p) /\ Wanted(p)' = Wanted(p)
      /\ Base' = Base /\ \A t : Succeeds(def, t, Base.known)' = Succeeds(def, t, Base.known)
      /\ \A x : Agrees(x)' = Agrees(x)
  BY <1>1, AloneStays
<1> SUFFICES ASSUME Comparable PROVE (Level /\ Decided /\ Returned /\ Halted /\ Agreed /\ Cut /\ Ended)'
  BY <1>3 DEF AlikeInv
<1>4. Level /\ Decided /\ Returned /\ Halted /\ Agreed /\ Cut /\ status # "cancelled"
  BY DEF AlikeInv, LoopInv, Shape
<1>5. Level'
  <2>1. \A known : Seen(known)' = Seen(known)
    BY <1>3
  <2> QED
    BY <1>1, <1>2, <1>3, <1>4, <2>1 DEF Level, Seen
<1>6. Decided'
  BY <1>1, <1>2, <1>3, <1>4 DEF Decided, Going
<1>7. Returned'
  <2>1. ASSUME NEW t \in Sent, flight[t] \in {"ok", "failed"}, pc' = "collect" \/ t \in collected
        PROVE  flight[t] = "ok" <=> Succeeds(def, t, Base.known)'
    <3>1. pc = "collect" \/ t \in collected
      BY <2>1
    <3>2. flight[t] = "ok" <=> Succeeds(def, t, Base.known)
      BY <1>4, <2>1, <3>1 DEF Returned
    <3> QED
      BY <1>3, <3>2
  <2> QED
    BY <1>1, <1>2, <2>1 DEF Returned
<1>8. Halted'
  BY <1>1, <1>3, <1>4 DEF Halted, Here
<1>9. Agreed'
  BY <1>1, <1>3, <1>4 DEF Agreed
<1>10. Cut'
  BY <1>1, <1>2, <1>4 DEF Cut
<1>11. Ended'
  BY <1>1, <1>3 DEF Ended
<1> QED
  BY <1>5, <1>6, <1>7, <1>8, <1>9, <1>10, <1>11

LEMMA AlikePhases ==
    ASSUME LoopInv, AlikeInv, BuildGraph \/ Look \/ StopCollecting \/ Cancel \/ WaitClaimed
    PROVE  AlikeInv'
<1>1. CASE BuildGraph
  <2>1. Sound(def) => pc' = "look"
    BY <1>1 DEF BuildGraph
  <2>2. pc' \in {"look", "settled"}
    BY <1>1 DEF BuildGraph, Settle
  <2>3. pc = "graph" /\ UNCHANGED <<runVars, at, skipped, exports, entry, steps, taskVars>>
    BY <1>1 DEF BuildGraph
  <2> QED
    BY <2>1, <2>2, <2>3, AlikePasses DEF Comparable
<1>2. CASE Look
  <2>1. Len(order) \in Nat /\ at \in 1..(Len(order) + 1)
    BY OrderIs DEF LoopInv, Shape
  <2>2. pc = "look" /\ UNCHANGED <<runVars, at, skipped, exports, entry, steps, taskVars>>
    BY <1>2 DEF Look
  <2>3. CASE at > Len(order)
    <3>1. pc' = "settled" /\ status' \in {"cancelled", "completed"}
      <4>1. ~(at <= Len(order))
        BY <2>1, <2>3
      <4>2. Settle("completed")
        BY <1>2, <2>3, <4>1 DEF Look
      <4> QED
        BY <4>2 DEF Settle
    <3>2. at - 1 = Len(order)
      BY <2>1, <2>3
    <3>3. Comparable => Alone[Len(order)].ends = "completed"
      BY <2>2, <3>2 DEF AlikeInv, Level, Base
    <3> QED
      BY <2>2, <3>1, <3>3, AlikePasses
  <2>4. CASE at <= Len(order) /\ cancel
    <3>1. Settle("cancelled")
      BY <1>2, <2>1, <2>4 DEF Look
    <3>2. pc' = "settled" /\ status' = "cancelled"
      BY <3>1 DEF Settle
    <3> QED
      BY <2>2, <3>2, AlikePasses
  <2>5. CASE at <= Len(order) /\ ~cancel
    <3>1. pc' = "step"
      BY <1>2, <2>1, <2>5 DEF Look
    <3> QED
      BY <2>2, <3>1, AlikePasses
  <2> QED
    BY <2>1, <2>3, <2>4, <2>5
<1>3. CASE StopCollecting
  BY <1>3, AlikePasses DEF StopCollecting
<1>4. CASE Cancel
  BY <1>4, AlikePasses DEF Cancel
<1>5. CASE WaitClaimed
  BY <1>5, AlikePasses DEF WaitClaimed
<1> QED
  BY <1>1, <1>2, <1>3, <1>4, <1>5

\* Main knows what its tasks read if it was known.
LEMMA SeenAlike ==
    ASSUME ChildUnread, LoopInv, Computed, Comparable, NEW known, exports = Seen(known),
           NEW t \in Tasks(def)
    PROVE  /\ def.reads[t] \subseteq exports <=> def.reads[t] \subseteq known
           /\ Succeeds(def, t, exports) <=> Succeeds(def, t, known)
           /\ Verdict(def, t, exports) = Verdict(def, t, known)
<1>1. def.reads[t] \subseteq exports <=> def.reads[t] \subseteq known
  BY DEF ChildUnread, Computed, Comparable, Seen
<1> QED
  BY <1>1 DEF Succeeds, Verdict

\* What main knows between two concurrent runs, and decides then.
LEMMA AlikeDecides ==
    ASSUME ChildUnread, LoopInv, AlikeInv, Comparable, pc \in {"look", "step", "paused"}
    PROVE  /\ Sent = {} /\ exports = Seen(Base.known)
           /\ \A p \in at..Len(order) :
                 /\ Decision(def, order[p], skipped, exports) = Wanted(p)
                 /\ order[p] \in skipped <=> order[p] \in Base.out
<1>1. Level /\ Computed /\ Len(order) \in Nat /\ at \in Nat \ {0}
  BY OrderIs DEF AlikeInv
<1>2. Sent = {}
  BY DEF LoopInv, Sending, Going, Sent
<1>3. exports = Seen(Base.known) /\ Base.out \subseteq skipped
      /\ \A t \in skipped \ Base.out : \E p \in 1..(at - 1) : order[p] = t
  BY <1>1, <1>2 DEF Level
<1>4. ASSUME NEW p \in at..Len(order)
      PROVE  /\ Decision(def, order[p], skipped, exports) = Wanted(p)
             /\ order[p] \in skipped <=> order[p] \in Base.out
  <2>1. p \in Positions /\ \A q \in 1..(at - 1) : q \in Positions /\ q # p
    BY <1>1 DEF Positions
  <2>2. order[p] \in Tasks(def) /\ \A q \in 1..(at - 1) : order[q] # order[p]
    BY <2>1, OrderIs
  <2>3. order[p] \in skipped <=> order[p] \in Base.out
    BY <1>3, <2>2
  <2>4. Verdict(def, order[p], exports) = Verdict(def, order[p], Base.known)
    BY <1>1, <1>3, <2>2, SeenAlike
  <2> QED
    BY <2>3, <2>4 DEF Wanted, Decision
<1> QED
  BY <1>2, <1>3, <1>4

LEMMA AlikeReturns ==
    ASSUME ChildUnread, LoopInv, AlikeInv, NEW t \in Tasks(def), TaskReturns(t)
    PROVE  AlikeInv'
<1>1. /\ def' = def /\ order' = order /\ deps' = deps /\ pc' = pc /\ status' = status
      /\ at' = at /\ skipped' = skipped /\ exports' = exports /\ entry' = entry /\ steps' = steps
      /\ sent' = sent /\ collected' = collected /\ UNCHANGED runVars
      /\ flight' = [flight EXCEPT ![t] = IF Succeeds(def, t, exports) THEN "ok" ELSE "failed"]
      /\ flight[t] = "spawned" /\ flight \in [Tasks(def) -> Flights]
  BY DEF TaskReturns, runVars, LoopInv, Shape
<1>2. Sent' = Sent /\ Planned' = Planned
  BY <1>1 DEF Sent, Planned
<1>3. /\ Alone' = Alone /\ Comparable' = Comparable /\ Computed' = Computed
      /\ \A known : Seen(known)' = Seen(known)
      /\ \A p : Turn(p)' = Turn(p) /\ Wanted(p)' = Wanted(p)
      /\ Base' = Base /\ \A s : Succeeds(def, s, Base.known)' = Succeeds(def, s, Base.known)
      /\ \A x : Agrees(x)' = Agrees(x)
  BY <1>1, AloneStays
<1> SUFFICES ASSUME Comparable PROVE (Level /\ Decided /\ Returned /\ Halted /\ Agreed /\ Cut /\ Ended)'
  BY <1>3 DEF AlikeInv
<1>4. Level /\ Decided /\ Returned /\ Halted /\ Agreed /\ Cut /\ Ended /\ Computed
  BY DEF AlikeInv
<1>5. Level'
  BY <1>1, <1>2, <1>3, <1>4 DEF Level, Seen
<1>6. Decided' /\ Halted' /\ Agreed' /\ Cut' /\ Ended'
  <2>1. Decided'
    BY <1>1, <1>2, <1>3, <1>4 DEF Decided, Going
  <2>2. Halted' /\ Agreed'
    BY <1>1, <1>3, <1>4 DEF Halted, Here, Agreed
  <2>3. Cut' /\ Ended'
    BY <1>1, <1>2, <1>3, <1>4 DEF Cut, Ended
  <2> QED
    BY <2>1, <2>2, <2>3
<1>7. Returned'
  <2>1. ASSUME NEW s \in Sent, flight'[s] \in {"ok", "failed"}, pc = "collect" \/ s \in collected
        PROVE  flight'[s] = "ok" <=> Succeeds(def, s, Base.known)
    <3>1. CASE s # t
      <4>1. flight'[s] = flight[s]
        BY <1>1, <3>1
      <4> QED
        BY <1>4, <2>1, <4>1 DEF Returned
    <3>2. CASE s = t
      <4>1. t \notin collected
        BY <1>1 DEF LoopInv, Sending, Going
      <4>2. pc = "collect"
        BY <2>1, <3>2, <4>1
      <4>3. at \in Positions /\ \A i \in 1..Len(sent) : \E q \in (at + i - 1)..(Planned - 1) : q \in Positions /\ sent[i] = order[q]
        BY <4>2 DEF LoopInv, Sending, Shape, Going
      <4>4. \A r \in Sent : entry[r] # "success"
        <5> TAKE r \in Sent
        <5>1. PICK i \in 1..Len(sent) : r = sent[i]
          BY DEF Sent
        <5>2. PICK q \in (at + i - 1)..(Planned - 1) : q \in Positions /\ r = order[q]
          BY <4>3, <5>1
        <5> DEFINE last == Planned
        <5>3. last \in (at + 1)..(Len(order) + 1) /\ Len(order) \in Nat /\ at \in Nat \ {0} /\ Len(sent) \in Nat
          BY <4>3, OrderIs, PlannedIs DEF Positions, LoopInv, Shape
        <5>4. q \in (at + i - 1)..(last - 1)
          BY <5>2
        <5> HIDE DEF last
        <5>5. q \in at..Len(order) /\ q < last
          BY <5>3, <5>4
        <5>6. InRun(order[q])
          BY <4>2, <5>5 DEF LoopInv, Ahead, Going, last
        <5> QED
          BY <4>2, <5>2, <5>6 DEF InRun
      <4>5. exports = Seen(Base.known)
        BY <1>4, <4>2, <4>4 DEF Level
      <4>6. Succeeds(def, t, exports) <=> Succeeds(def, t, Base.known)
        BY <1>4, <4>5, SeenAlike
      <4>7. flight'[t] = "ok" <=> Succeeds(def, t, exports)
        BY <1>1
      <4> QED
        BY <3>2, <4>6, <4>7
    <3> QED
      BY <3>1, <3>2
  <2> QED
    BY <1>1, <1>2, <1>3, <2>1 DEF Returned
<1> QED
  BY <1>5, <1>6, <1>7

LEMMA AlikeCollects ==
    ASSUME LoopInv, AlikeInv, NEW t \in Tasks(def), Collect(t)
    PROVE  AlikeInv'
<1>1. /\ def' = def /\ order' = order /\ deps' = deps /\ status' = status
      /\ at' = at /\ skipped' = skipped /\ exports' = exports /\ entry' = entry /\ steps' = steps
      /\ sent' = sent /\ flight' = flight /\ UNCHANGED runVars
      /\ pc = "collect" /\ pc' \in {"collect", "apply"} /\ status # "cancelled"
  BY DEF Collect, runVars, LoopInv, Shape
<1>2. Sent' = Sent /\ Planned' = Planned
  BY <1>1 DEF Sent, Planned
<1>3. /\ Alone' = Alone /\ Comparable' = Comparable /\ Computed' = Computed
      /\ \A known : Seen(known)' = Seen(known)
      /\ \A p : Wanted(p)' = Wanted(p)
      /\ Base' = Base /\ \A s : Succeeds(def, s, Base.known)' = Succeeds(def, s, Base.known)
      /\ \A x : Agrees(x)' = Agrees(x)
  BY <1>1, AloneStays
<1> SUFFICES ASSUME Comparable PROVE (Level /\ Decided /\ Returned /\ Halted /\ Agreed /\ Cut /\ Ended)'
  BY <1>3 DEF AlikeInv
<1>4. Level /\ Decided /\ Returned /\ Agreed /\ Cut
  BY DEF AlikeInv
<1>5. Level'
  BY <1>1, <1>2, <1>3, <1>4 DEF Level, Seen
<1>6. Decided'
  BY <1>1, <1>2, <1>3, <1>4 DEF Decided, Going
<1>7. Returned'
  BY <1>1, <1>2, <1>3, <1>4 DEF Returned
<1>8. Halted' /\ Ended'
  BY <1>1 DEF Halted, Ended
<1>9. Agreed' /\ Cut'
  BY <1>1, <1>3, <1>4 DEF Agreed, Cut
<1> QED
  BY <1>5, <1>6, <1>7, <1>8, <1>9

\* The steps once one more is recorded.
LEMMA OneMore ==
    ASSUME LoopInv, NEW x, steps' = Append(steps, x)
    PROVE  \A i \in 1..Len(steps') : steps'[i] = x \/ \E j \in 1..Len(steps) : steps'[i] = steps[j]
<1>1. steps \in Seq(StepsOf)
  BY DEF LoopInv, Shape
<1>2. /\ Len(steps) \in Nat /\ Len(steps') = Len(steps) + 1
      /\ steps'[Len(steps) + 1] = x /\ \A i \in 1..Len(steps) : steps'[i] = steps[i]
  BY <1>1
<1>3. \A i \in 1..Len(steps') : i \in 1..Len(steps) \/ i = Len(steps) + 1
  BY <1>2
<1> QED
  BY <1>2, <1>3

\* The task that main is at comes to what it comes to when no other runs, and
\* main goes on; or it fails as it does then; or it is cancelled.
LEMMA HereAlike ==
    ASSUME LoopInv, AlikeInv, pc \in {"step", "paused"}, UNCHANGED <<runVars, taskVars>>,
           NEW outcome, steps' = Append(steps, Step(Here, outcome, at)),
           \/ /\ pc' = "look" /\ at' = at + 1 /\ status' = status
              /\ Comparable =>
                    /\ outcome = Due(at) /\ outcome # "failed"
                    /\ Alone[at].out \subseteq skipped' /\ skipped' \subseteq skipped \cup Alone[at].out
                    /\ exports' = IF outcome = "success" THEN exports \cup Seen({Here}) ELSE exports
           \/ /\ pc' = "settled" /\ at' = at /\ status' \in {"failed", "cancelled"}
              /\ outcome = "failed" /\ (Comparable => Due(at) = "failed")
           \/ /\ pc' = "settled" /\ at' = at /\ status' = "cancelled" /\ outcome = "cancelled"
    PROVE  AlikeInv'
<1>1. /\ def' = def /\ order' = order /\ deps' = deps /\ sent' = sent /\ collected' = collected
  BY DEF runVars, taskVars
<1>2. Sent' = Sent /\ Sent = {} /\ status # "cancelled" /\ at \in Positions /\ pc # "apply"
  BY <1>1 DEF Sent, LoopInv, Shape, Sending, Going
<1>3. /\ Alone' = Alone /\ Comparable' = Comparable /\ Computed' = Computed
      /\ \A known : Seen(known)' = Seen(known)
      /\ \A x : Agrees(x)' = Agrees(x)
  BY AloneStays
<1> SUFFICES ASSUME Comparable PROVE (Level /\ Decided /\ Returned /\ Halted /\ Agreed /\ Cut /\ Ended)'
  BY <1>3 DEF AlikeInv
<1>4. Level /\ Agreed /\ Cut
  BY DEF AlikeInv
<1>5. /\ Base.ends = "completed" /\ Base.out \subseteq skipped
      /\ \A t \in skipped \ Base.out : \E p \in 1..(at - 1) : order[p] = t
      /\ exports = Seen(Base.known)
  BY <1>2, <1>4 DEF Level, LoopInv, Shape
<1>6. /\ Alone[at].out = Base.out \cup Excludes(def, order[at], Turn(at))
      /\ Alone[at].known = IF Due(at) = "success" THEN Base.known \cup {Here} ELSE Base.known
      /\ Alone[at].ends = IF Due(at) = "failed" THEN "failed" ELSE "completed"
      /\ Due(at) \in Comings
  BY <1>2, <1>5, AloneStep DEF Base, Here
<1>7. Alone[Len(order)].came[Here] = Due(at)
  BY <1>2, <1>5, AloneCame DEF Base, Here
<1>8. Level'
  <2> SUFFICES ASSUME pc' # "settled"
               PROVE  /\ Base'.ends = "completed" /\ Base'.out \subseteq skipped'
                      /\ \A t \in skipped' \ Base'.out : \E p \in 1..(at' - 1) : order'[p] = t
                      /\ exports' = Seen(Base.known)' \cup {t \in Sent : entry[t] = "success"}'
    BY DEF Level
  <2>1. /\ at' = at + 1 /\ outcome = Due(at) /\ outcome # "failed"
        /\ Alone[at].out \subseteq skipped' /\ skipped' \subseteq skipped \cup Alone[at].out
        /\ exports' = IF outcome = "success" THEN exports \cup Seen({Here}) ELSE exports
    OBVIOUS
  <2>2. at \in Nat /\ at' - 1 = at
    BY <1>2, <2>1 DEF Positions
  <2>3. Base' = Alone[at]
    BY <1>3, <2>2 DEF Base
  <2>4. \A t \in skipped' \ Alone[at].out : \E p \in 1..(at' - 1) : order[p] = t
    <3>1. \A p \in 1..(at - 1) : p \in 1..(at' - 1)
      BY <2>2
    <3> QED
      BY <1>5, <1>6, <2>1, <3>1
  <2>5. exports' = Seen(Alone[at].known)
    BY <1>5, <1>6, <2>1 DEF Seen
  <2>6. Seen(Base.known)' = Seen(Alone[at].known)
    BY <1>1, <2>3 DEF Seen
  <2> QED
    BY <1>1, <1>2, <1>6, <2>1, <2>3, <2>4, <2>5, <2>6
<1>9. Decided' /\ Returned' /\ Halted'
  BY <1>2 DEF Decided, Returned, Halted, Going
<1>10. \A i \in 1..Len(steps') : \/ steps'[i] = Step(Here, outcome, at)
                                 \/ \E j \in 1..Len(steps) : steps'[i] = steps[j]
  BY OneMore
<1>11. Agreed'
  <2>1. Agrees(Step(Here, outcome, at))
    BY <1>7 DEF Agrees, Step
  <2>2. \A i \in 1..Len(steps') : Agrees(steps'[i])
    BY <1>4, <1>10, <2>1 DEF Agreed
  <2>3. \A x : Agrees(x)' = Agrees(x)
    BY <1>3
  <2> QED
    BY <2>2, <2>3 DEF Agreed
<1>12. Cut'
  <2>1. \A j \in 1..Len(steps) : steps[j].status # "cancelled"
    BY <1>2, <1>4 DEF Cut
  <2>2. Step(Here, outcome, at).status = outcome
    BY DEF Step
  <2>3. outcome = "cancelled" => status' = "cancelled"
    BY <1>6 DEF Comings
  <2> QED
    BY <1>10, <2>1, <2>2, <2>3 DEF Cut
<1>13. Ended'
  <2>1. ASSUME Due(at) = "failed" PROVE Alone[Len(order)].ends = "failed"
    <3>1. at \in 0..Len(order) /\ Len(order) \in at..Len(order)
      BY <1>2, OrderIs DEF Positions
    <3> QED
      BY <1>6, <2>1, <3>1, AloneFails
  <2> QED
    BY <1>1, <1>3, <2>1 DEF Ended
<1> QED
  BY <1>8, <1>9, <1>11, <1>12, <1>13

LEMMA PauseAlike ==
    ASSUME LoopInv, AlikeInv, pc = "step", Pause, UNCHANGED <<runVars, at, skipped, exports, taskVars>>,
           Comparable /\ def.kind[Here] = "waited" => Turn(at) = "true" /\ def.reads[Here] \subseteq Base.known
    PROVE  AlikeInv'
<1>1. /\ def' = def /\ order' = order /\ deps' = deps /\ sent' = sent /\ collected' = collected
      /\ at' = at /\ skipped' = skipped /\ exports' = exports /\ steps' = steps /\ status' = status
      /\ pc' = "paused"
  BY DEF runVars, taskVars, Pause
<1>2. Sent' = Sent /\ Sent = {} /\ status # "cancelled" /\ pc # "apply"
  BY <1>1 DEF Sent, LoopInv, Shape, Sending, Going
<1>3. /\ Alone' = Alone /\ Comparable' = Comparable /\ Computed' = Computed /\ Base' = Base
      /\ \A known : Seen(known)' = Seen(known)
      /\ \A x : Agrees(x)' = Agrees(x)
      /\ \A p : Turn(p)' = Turn(p)
  BY <1>1, AloneStays
<1> SUFFICES ASSUME Comparable PROVE (Level /\ Decided /\ Returned /\ Halted /\ Agreed /\ Cut /\ Ended)'
  BY <1>3 DEF AlikeInv
<1>4. Level /\ Agreed /\ Cut
  BY DEF AlikeInv
<1>5. Level'
  BY <1>1, <1>2, <1>3, <1>4 DEF Level, Seen
<1>6. Decided' /\ Returned' /\ Ended'
  BY <1>1, <1>2 DEF Decided, Returned, Ended, Going
<1>7. Halted'
  BY <1>1, <1>3 DEF Halted, Here
<1>8. Agreed' /\ Cut'
  BY <1>1, <1>2, <1>3, <1>4 DEF Agreed, Cut
<1> QED
  BY <1>5, <1>6, <1>7, <1>8

LEMMA HereStaysAlike ==
    ASSUME ChildUnread, LoopInv, AlikeInv, OutInv,
           \/ SkipTask \/ FailGuard \/ SettleCondition \/ StartWait \/ SettleWait
           \/ StartDetached \/ StartWaited \/ ChildSettles \/ ClaimPaused
    PROVE  AlikeInv'
<1> DEFINE decision == Decision(def, Here, skipped, exports)
<1>1. pc \in {"step", "paused"}
  BY DEF SkipTask, FailGuard, SettleCondition, StartWait, SettleWait, StartDetached,
         StartWaited, ChildSettles, ClaimPaused, HereIs
<1>2. at \in Positions /\ Here = order[at] /\ Here \in Tasks(def) /\ at \in at..Len(order) /\ IsDefinition(def)
  BY <1>1, OrderIs DEF LoopInv, Shape, Fixed, Going, Here, Positions
<1>3. /\ \A kinds : HereIs(kinds) => pc = "step" /\ def.kind[Here] \in kinds
      /\ \A decisions : HereDecides(decisions) => decision \in decisions
  BY DEF HereIs, HereDecides
<1>4. Comparable => decision = Turn(at) /\ exports = Seen(Base.known)
  BY <1>1, <1>2, AlikeDecides DEF Turn, Wanted, Base
<1>5. Comparable => /\ Due(at) = Comes(Here, decision, Base.known)
                    /\ Alone[at].out = Base.out \cup Excludes(def, Here, decision)
                    /\ Base.out \subseteq skipped
  <2> SUFFICES ASSUME Comparable PROVE /\ Due(at) = Comes(Here, decision, Base.known)
                                       /\ Alone[at].out = Base.out \cup Excludes(def, Here, decision)
                                       /\ Base.out \subseteq skipped
    OBVIOUS
  <2>1. Base.ends = "completed" /\ Base.out \subseteq skipped
    BY <1>1 DEF AlikeInv, Level
  <2>2. Alone[at].out = Base.out \cup Excludes(def, Here, Turn(at))
    BY <1>2, <2>1, AloneStep DEF Base
  <2> QED
    BY <1>2, <1>4, <2>1, <2>2 DEF Due, Base
<1>6. Comparable => /\ def.reads[Here] \subseteq exports <=> def.reads[Here] \subseteq Base.known
                    /\ Succeeds(def, Here, exports) <=> Succeeds(def, Here, Base.known)
  BY <1>2, <1>4, SeenAlike DEF AlikeInv
<1> HIDE DEF decision
<1>7. Here \notin Conditions(def) => Excludes(def, Here, decision) = {}
  BY DEF Excludes
\* The task settles, and main goes on.
<1>8. ASSUME NEW outcome \in {"success", "skipped"}, SettleHere(outcome, at),
             Comparable => /\ Due(at) = outcome
                           /\ skipped' = skipped \cup Excludes(def, Here, decision)
                           /\ exports' = IF outcome = "success" THEN exports \cup Seen({Here}) ELSE exports
      PROVE  AlikeInv'
  <2>1. /\ UNCHANGED <<runVars, taskVars>> /\ steps' = Append(steps, Step(Here, outcome, at))
        /\ pc' = "look" /\ at' = at + 1 /\ status' = status
    BY <1>8 DEF SettleHere
  <2>2. Comparable =>
          /\ outcome = Due(at) /\ outcome # "failed"
          /\ Alone[at].out \subseteq skipped' /\ skipped' \subseteq skipped \cup Alone[at].out
          /\ exports' = IF outcome = "success" THEN exports \cup Seen({Here}) ELSE exports
    BY <1>5, <1>8
  <2> QED
    BY <1>1, <2>1, <2>2, HereAlike
\* It fails.
<1>9. ASSUME SettleHere("failed", at), Comparable => Due(at) = "failed"
      PROVE  AlikeInv'
  <2>1. /\ UNCHANGED <<runVars, taskVars>> /\ steps' = Append(steps, Step(Here, "failed", at))
        /\ pc' = "settled" /\ at' = at /\ status' \in {"failed", "cancelled"}
    BY <1>9 DEF SettleHere, Settle
  <2> QED
    BY <1>1, <1>9, <2>1, HereAlike
\* It is cancelled.
<1>10. ASSUME Abandon(Here, at), UNCHANGED <<runVars, at, taskVars>>
       PROVE  AlikeInv'
  <2>1. /\ steps' = Append(steps, Step(Here, "cancelled", at)) /\ UNCHANGED <<runVars, taskVars>>
        /\ pc' = "settled" /\ at' = at /\ status' = "cancelled"
    BY <1>10 DEF Abandon, Settle
  <2> QED
    BY <1>1, <2>1, HereAlike
<1>11. \A kind : def.kind[Here] = kind => (Here \in Conditions(def) <=> kind = "condition")
  BY <1>2 DEF Conditions
<1>12. def.kind[Here] # "waited" => Seen({Here}) = {Here}
  BY DEF Seen
<1>13. CASE SkipTask
  <2>1. /\ SettleHere("skipped", at) /\ exports' = exports
        /\ skipped' = skipped \cup Excludes(def, Here, decision)
    BY <1>13 DEF SkipTask, decision
  <2>2. \/ decision = "excluded"
        \/ Here \notin Conditions(def) /\ decision \in {"disabled", "false"}
    BY <1>3, <1>11, <1>13 DEF SkipTask
  <2>3. Comes(Here, decision, Base.known) = "skipped"
    BY <2>2 DEF Comes
  <2> QED
    BY <1>5, <1>8, <2>1, <2>3
<1>14. CASE FailGuard
  <2>1. SettleHere("failed", at) /\ decision = "error"
    BY <1>3, <1>14 DEF FailGuard
  <2>2. Comes(Here, decision, Base.known) = "failed"
    BY <2>1 DEF Comes
  <2> QED
    BY <1>5, <1>9, <2>1, <2>2
<1>15. CASE SettleCondition
  <2>1. /\ SettleHere("success", at) /\ exports' = exports \cup {Here}
        /\ skipped' = skipped \cup Excludes(def, Here, decision)
    BY <1>15 DEF SettleCondition, decision
  <2>2. def.kind[Here] = "condition" /\ Here \in Conditions(def) /\ decision \in {"true", "false", "disabled"}
    BY <1>3, <1>11, <1>15 DEF SettleCondition
  <2>3. Comes(Here, decision, Base.known) = "success"
    BY <2>2 DEF Comes
  <2> QED
    BY <1>5, <1>8, <1>12, <2>1, <2>2, <2>3
<1>16. CASE StartWait
  <2>1. pc = "step" /\ def.kind[Here] = "wait"
    BY <1>3, <1>16 DEF StartWait
  <2>2. CASE cancel
    BY <1>10, <1>16, <2>2 DEF StartWait
  <2>3. CASE ~cancel
    BY <1>16, <2>1, <2>3, PauseAlike DEF StartWait
  <2> QED
    BY <2>2, <2>3
<1>17. CASE SettleWait
  <2>1. /\ SettleHere(IF Here \in luck.fails THEN "failed" ELSE "success", at) /\ skipped' = skipped
        /\ exports' = IF Here \in luck.fails THEN exports ELSE exports \cup {Here}
    BY <1>17 DEF SettleWait
  <2>2. def.kind[Here] = "wait" /\ Here \notin Conditions(def) /\ decision = "true"
    BY <1>3, <1>11, <1>17 DEF SettleWait
  <2>3. Comes(Here, decision, Base.known) = IF Here \in luck.fails THEN "failed" ELSE "success"
    BY <2>2 DEF Comes, Works
  <2>4. CASE Here \in luck.fails
    BY <1>5, <1>9, <2>1, <2>3, <2>4
  <2>5. CASE Here \notin luck.fails
    BY <1>5, <1>7, <1>8, <1>12, <2>1, <2>2, <2>3, <2>5
  <2> QED
    BY <2>4, <2>5
<1>18. CASE StartDetached
  <2> DEFINE starts == Succeeds(def, Here, exports)
  <2>1. /\ SettleHere(IF starts THEN "success" ELSE "failed", at) /\ skipped' = skipped
        /\ exports' = IF starts THEN exports \cup {Here} ELSE exports
    BY <1>18 DEF StartDetached
  <2>2. def.kind[Here] = "detached" /\ Here \notin Conditions(def) /\ decision = "true"
    BY <1>3, <1>11, <1>18 DEF StartDetached
  <2>3. Comes(Here, decision, Base.known) = IF Succeeds(def, Here, Base.known) THEN "success" ELSE "failed"
    BY <2>2 DEF Comes, Works, Succeeds
  <2>4. Comparable => (starts <=> Succeeds(def, Here, Base.known))
    BY <1>6
  <2> HIDE DEF starts
  <2>5. CASE starts
    BY <1>5, <1>7, <1>8, <1>12, <2>1, <2>2, <2>3, <2>4, <2>5
  <2>6. CASE ~starts
    BY <1>5, <1>9, <2>1, <2>3, <2>4, <2>6
  <2> QED
    BY <2>5, <2>6
<1>19. CASE StartWaited
  <2>1. pc = "step" /\ def.kind[Here] = "waited" /\ Here \notin Conditions(def) /\ decision = "true"
    BY <1>3, <1>11, <1>19 DEF StartWaited
  <2>2. CASE ~(def.reads[Here] \subseteq exports)
    <3>1. SettleHere("failed", at)
      BY <1>19, <2>2 DEF StartWaited
    <3>2. Comparable => Comes(Here, decision, Base.known) = "failed"
      BY <1>6, <2>1, <2>2 DEF Comes, Works
    <3> QED
      BY <1>5, <1>9, <3>1, <3>2
  <2>3. CASE def.reads[Here] \subseteq exports
    <3>1. /\ UNCHANGED <<runVars, at, skipped, exports, taskVars>>
          /\ IF cancel THEN Abandon(Here, at) ELSE Pause
      BY <1>19, <2>3 DEF StartWaited
    <3>2. CASE cancel
      BY <1>10, <3>1, <3>2
    <3>3. CASE ~cancel
      BY <1>4, <1>6, <2>1, <2>3, <3>1, <3>3, PauseAlike
    <3> QED
      BY <3>2, <3>3
  <2> QED
    BY <2>2, <2>3
<1>20. CASE ChildSettles
  <2>1. /\ pc = "paused" /\ def.kind[Here] = "waited" /\ exports' = exports
        /\ SettleHere(IF Here \in luck.fails THEN "failed" ELSE "success", at)
        /\ Here \notin luck.fails => skipped' = {}
    BY <1>20 DEF ChildSettles
  <2>2. Here \notin Conditions(def) /\ Conditions(def) = {}
    BY <1>2, <1>11, <2>1 DEF OutInv, KeepsBranches
  <2>3. Comparable => decision = "true" /\ def.reads[Here] \subseteq Base.known
    BY <1>4, <2>1 DEF AlikeInv, Halted
  <2>4. Comparable => Comes(Here, decision, Base.known) = IF Here \in luck.fails THEN "failed" ELSE "success"
    BY <2>1, <2>2, <2>3 DEF Comes, Works
  <2>5. CASE Here \in luck.fails
    BY <1>5, <1>9, <2>1, <2>4, <2>5
  <2>6. CASE Here \notin luck.fails
    <3>1. /\ UNCHANGED <<runVars, taskVars>> /\ steps' = Append(steps, Step(Here, "success", at))
          /\ pc' = "look" /\ at' = at + 1 /\ status' = status
      BY <2>1, <2>6 DEF SettleHere
    <3>2. Alone[at].out = {}
      <4>1. at \in 0..Len(order)
        BY <1>2, AloneStep
      <4> QED
        BY <2>2, <4>1, AloneGrows DEF AloneTo
    <3>3. Seen({Here}) = {}
      BY <2>1 DEF Seen
    <3>4. Comparable => Due(at) = "success"
      BY <1>5, <2>4, <2>6
    <3> QED
      BY <1>1, <2>1, <2>6, <3>1, <3>2, <3>3, <3>4, HereAlike
  <2> QED
    BY <2>5, <2>6
<1>21. CASE ClaimPaused
  BY <1>10, <1>21 DEF ClaimPaused
<1> QED
  BY <1>13, <1>14, <1>15, <1>16, <1>17, <1>18, <1>19, <1>20, <1>21

(***************************************************************************)
(* A concurrent run                                                        *)
(***************************************************************************)
\* What a task that main may send off with others comes to.
LEMMA ForeseenIs ==
    ASSUME MayJoin, NEW p \in at..(Planned - 1)
    PROVE  /\ Wanted(p) = "error" => Foreseen(p) = "failed"
           /\ Wanted(p) \in {"false", "disabled"} => Foreseen(p) = "skipped"
           /\ Wanted(p) = "true" =>
                 Foreseen(p) = IF Succeeds(def, order[p], Base.known) THEN "success" ELSE "failed"
<1>1. order[p] \notin Conditions(def) /\ def.kind[order[p]] = "action"
  BY JoinIs
<1>2. Works(order[p], Base.known) <=> Succeeds(def, order[p], Base.known)
  BY <1>1 DEF Works, Succeeds
<1>3. CASE Wanted(p) = "error"
  BY <1>3 DEF Foreseen, Comes
<1>4. CASE Wanted(p) \in {"false", "disabled"}
  BY <1>1, <1>4 DEF Foreseen, Comes
<1>5. CASE Wanted(p) = "true"
  BY <1>1, <1>2, <1>5 DEF Foreseen, Comes
<1> QED
  BY <1>3, <1>4, <1>5

\* While main waits for tasks it sent off, or applies what came back.
LEMMA JoinedNow ==
    ASSUME LoopInv, AlikeInv, OutInv, Comparable, pc \in {"collect", "apply"}
    PROVE  /\ MayJoin /\ Planned \in (at + 1)..(Len(order) + 1)
           /\ \A t \in Sent : \E p \in at..(Planned - 1) :
                 p \in Positions /\ order[p] = t /\ Wanted(p) = "true"
           /\ \A p \in at..(Planned - 1) : order[p] \notin Sent => Foreseen(p) = "skipped"
<1> DEFINE last == Planned
<1>1. at \in Positions /\ at \in 1..Len(order) /\ Len(order) \in Nat /\ sent \in Seq(Tasks(def))
  BY OrderIs DEF LoopInv, Shape, Going, Positions
<1>2. Level /\ Decided
  BY DEF AlikeInv
<1>3. last \in (at + 1)..(Len(order) + 1)
  BY <1>1, PlannedIs
<1>4. \A p \in at..(last - 1) : /\ order[p] \in Sent => Wanted(p) = "true"
                                /\ order[p] \notin Sent => Wanted(p) \in {"false", "disabled"}
  BY <1>2 DEF Decided, Going
<1>5. \A i \in 1..Len(sent) : \E q \in (at + i - 1)..(last - 1) : q \in Positions /\ sent[i] = order[q]
  BY DEF LoopInv, Sending, Going
<1> HIDE DEF last
<1>6. at \in at..(last - 1)
  BY <1>1, <1>3
<1>7. Wanted(at) # "excluded"
  BY <1>4, <1>6
<1>8. MayJoin
  <2>1. Base.ends = "completed" /\ Base.out \subseteq skipped
    BY <1>2 DEF Level
  <2>2. def.kind[Here] = "action"
    BY DEF OutInv, AtHere, Going, Here
  <2>3. Here \notin Base.out
    BY <1>7 DEF Wanted, Decision, Here
  <2> QED
    BY <1>1, <2>1, <2>2, <2>3 DEF MayJoin
<1>9. ASSUME NEW t \in Sent
      PROVE  \E p \in at..(last - 1) : p \in Positions /\ order[p] = t /\ Wanted(p) = "true"
  <2>1. PICK i \in 1..Len(sent) : t = sent[i]
    BY DEF Sent
  <2>2. PICK q \in (at + i - 1)..(last - 1) : q \in Positions /\ t = order[q]
    BY <1>5, <2>1
  <2>3. q \in at..(last - 1)
    BY <1>1, <1>3, <2>1, <2>2
  <2> QED
    BY <1>4, <2>2, <2>3
<1>10. ASSUME NEW p \in at..(last - 1), order[p] \notin Sent PROVE Foreseen(p) = "skipped"
  BY <1>4, <1>8, <1>10, ForeseenIs DEF last
<1> QED
  BY <1>3, <1>8, <1>9, <1>10 DEF last

\* What main recorded of a task that came back is what it comes to.
LEMMA CameForeseen ==
    ASSUME LoopInv, AlikeInv, OutInv, Comparable, pc = "apply", NEW t \in Sent, t \in collected
    PROVE  \E p \in at..(Planned - 1) :
              /\ p \in Positions /\ order[p] = t /\ Came(t) = Foreseen(p)
              /\ flight[t] \in {"ok", "failed"} /\ (flight[t] = "ok" <=> Foreseen(p) = "success")
              /\ Foreseen(p) \in {"success", "failed"}
<1>1. MayJoin /\ \E p \in at..(Planned - 1) : p \in Positions /\ order[p] = t /\ Wanted(p) = "true"
  BY JoinedNow
<1>2. PICK p \in at..(Planned - 1) : p \in Positions /\ order[p] = t /\ Wanted(p) = "true"
  BY <1>1
<1>3. Foreseen(p) = IF Succeeds(def, t, Base.known) THEN "success" ELSE "failed"
  BY <1>1, <1>2, ForeseenIs
<1>4. flight[t] \in {"ok", "failed"}
  BY DEF LoopInv, Sending, Going
<1>5. flight[t] = "ok" <=> Succeeds(def, t, Base.known)
  BY <1>4 DEF AlikeInv, Returned
<1> QED
  BY <1>2, <1>3, <1>4, <1>5 DEF Came

LEMMA ApplyAlike ==
    ASSUME LoopInv, AlikeInv, OutInv, ApplyOutcome
    PROVE  AlikeInv'
<1> DEFINE i == Least(Unapplied)
           t == sent[i]
           outcome == IF t \notin collected THEN "cancelled"
                      ELSE IF flight[t] = "ok" THEN "success" ELSE "failed"
           x == Step(t, outcome, Position(i))
<1>1. /\ pc = "apply" /\ Unapplied # {} /\ UNCHANGED runVars
      /\ entry' = [entry EXCEPT ![t] = outcome] /\ steps' = Append(steps, x)
      /\ exports' = IF outcome = "success" THEN exports \cup {t} ELSE exports
      /\ def' = def /\ order' = order /\ deps' = deps /\ pc' = pc
      /\ at' = at /\ skipped' = skipped /\ status' = status
      /\ sent' = sent /\ flight' = flight /\ collected' = collected
  BY DEF ApplyOutcome, runVars, taskVars
<1>2. outcome = Came(t) /\ x.task = t /\ x.status = outcome
  BY DEF Came, Step
<1>3. i \in 1..Len(sent) /\ t \notin Recorded
  <2> DEFINE B == Unapplied
  <2>1. B \in SUBSET Nat /\ B # {} /\ \A k \in B : k \in 1..Len(sent) /\ sent[k] \notin Recorded
    BY <1>1 DEF Unapplied
  <2> HIDE DEF B
  <2>2. Least(B) \in B
    BY <2>1, LeastIs
  <2> QED
    BY <2>1, <2>2 DEF B
<1> HIDE DEF i, outcome, x
<1>4. t \in Sent /\ entry \in [Tasks(def) -> Entries] /\ Sent \subseteq Tasks(def) /\ status # "cancelled"
  BY <1>1, <1>3 DEF Sent, LoopInv, Shape
<1> HIDE DEF t
<1>5. Sent' = Sent /\ Planned' = Planned
  BY <1>1 DEF Sent, Planned
<1>6. /\ Alone' = Alone /\ Comparable' = Comparable /\ Computed' = Computed /\ Base' = Base
      /\ \A known : Seen(known)' = Seen(known)
      /\ \A p : Wanted(p)' = Wanted(p)
      /\ \A s : Succeeds(def, s, Base.known)' = Succeeds(def, s, Base.known)
      /\ \A y : Agrees(y)' = Agrees(y)
  BY <1>1, AloneStays
<1> SUFFICES ASSUME Comparable PROVE (Level /\ Decided /\ Returned /\ Halted /\ Agreed /\ Cut /\ Ended)'
  BY <1>6 DEF AlikeInv
<1>7. Level /\ Decided /\ Returned /\ Agreed /\ Cut
  BY DEF AlikeInv
<1>8. entry[t] # "success"
  <2>1. PICK p \in at..(Planned - 1) : p \in Positions /\ order[p] = t /\ Wanted(p) = "true"
    BY <1>1, <1>4, JoinedNow
  <2> DEFINE last == Planned
  <2>2. last \in (at + 1)..(Len(order) + 1) /\ at \in Nat /\ Len(order) \in Nat
    BY <1>1, JoinedNow, OrderIs
  <2>3. p \in at..(last - 1)
    BY <2>1
  <2> HIDE DEF last
  <2>4. p \in at..Len(order) /\ p < last
    BY <2>2, <2>3
  <2>5. InRun(order[p])
    BY <1>1, <2>4 DEF LoopInv, Ahead, Going, last
  <2> QED
    BY <1>3, <1>4, <2>1, <2>5 DEF InRun
<1>9. Level'
  <2>1. \A s \in Sent : entry'[s] = IF s = t THEN outcome ELSE entry[s]
    BY <1>1, <1>4
  <2>2. exports = Seen(Base.known) \cup {s \in Sent : entry[s] = "success"}
    BY <1>1, <1>7 DEF Level
  <2>3. exports' = Seen(Base.known) \cup {s \in Sent : entry'[s] = "success"}
    BY <1>1, <1>4, <1>8, <2>1, <2>2
  <2>4. (Base.known)' = Base.known /\ Seen(Base.known)' = Seen(Base.known)
    BY <1>1, <1>6 DEF Seen
  <2> QED
    BY <1>1, <1>5, <1>6, <1>7, <2>3, <2>4 DEF Level
<1>10. Decided'
  BY <1>1, <1>5, <1>6, <1>7 DEF Decided, Going
<1>11. Returned'
  BY <1>1, <1>5, <1>6, <1>7 DEF Returned
<1>12. Halted' /\ Ended'
  BY <1>1 DEF Halted, Ended
<1>13. \A k \in 1..Len(steps') : steps'[k] = x \/ \E j \in 1..Len(steps) : steps'[k] = steps[j]
  BY <1>1, OneMore
<1>14. Agreed'
  <2>1. Agrees(x)
    <3>1. CASE t \notin collected
      BY <1>2, <3>1 DEF Agrees, Came
    <3>2. CASE t \in collected
      <4>1. PICK p \in at..(Planned - 1) : p \in Positions /\ order[p] = t /\ Came(t) = Foreseen(p)
        BY <1>1, <1>4, <3>2, CameForeseen
      <4>2. MayJoin
        BY <1>1, JoinedNow
      <4>3. Alone[Len(order)].came[order[p]] \in {"none", Foreseen(p)}
        BY <4>1, <4>2, TogetherIs
      <4> QED
        BY <1>2, <4>1, <4>3 DEF Agrees
    <3> QED
      BY <3>1, <3>2
  <2>2. \A k \in 1..Len(steps') : Agrees(steps'[k])
    BY <1>7, <1>13, <2>1 DEF Agreed
  <2>3. \A y : Agrees(y)' = Agrees(y)
    BY <1>6
  <2> QED
    BY <2>2, <2>3 DEF Agreed
<1>15. Cut'
  <2>1. outcome = "cancelled" => ~(Sent \subseteq collected)
    BY <1>2, <1>4 DEF Came
  <2> QED
    BY <1>1, <1>2, <1>4, <1>5, <1>7, <1>13, <2>1 DEF Cut
<1> QED
  BY <1>9, <1>10, <1>11, <1>12, <1>14, <1>15

LEMMA EndRunAlike ==
    ASSUME LoopInv, AlikeInv, OutInv, EndRun
    PROVE  AlikeInv'
<1> DEFINE last == Planned
<1>1. /\ pc = "apply" /\ Unapplied = {} /\ UNCHANGED runVars
      /\ def' = def /\ order' = order /\ deps' = deps
      /\ entry' = entry /\ steps' = steps /\ skipped' = skipped /\ exports' = exports
      /\ flight' = flight /\ sent' = << >> /\ collected' = {}
      /\ \A t \in collected : flight[t] \in {"ok", "failed"}
  BY DEF EndRun, runVars, LoopInv, Sending, Going
<1>2. \/ pc' = "settled" /\ status' = "cancelled"
      \/ /\ pc' = "settled" /\ status' \in {"failed", "cancelled"}
         /\ Sent \subseteq collected /\ \E t \in Sent : flight[t] = "failed"
      \/ /\ pc' = "look" /\ at' = last /\ status' = status
         /\ Sent \subseteq collected /\ \A t \in Sent : flight[t] = "ok"
  <2>1. CASE ~(Sent \subseteq collected)
    BY <2>1 DEF EndRun, Settle
  <2>2. CASE Sent \subseteq collected /\ \E t \in Sent : flight[t] = "failed"
    <3>1. Settle("failed")
      BY <2>2 DEF EndRun
    <3> QED
      BY <2>2, <3>1 DEF Settle
  <2>3. CASE Sent \subseteq collected /\ ~(\E t \in Sent : flight[t] = "failed")
    <3>1. \A t \in Sent : flight[t] = "ok"
      BY <1>1, <2>3
    <3> QED
      BY <2>3, <3>1 DEF EndRun
  <2> QED
    BY <2>1, <2>2, <2>3
<1> HIDE DEF last
<1>3. Sent' = {} /\ Sent \subseteq Recorded /\ Sent \subseteq Tasks(def) /\ status # "cancelled"
  BY <1>1 DEF Sent, Unapplied, LoopInv, Shape
<1>4. /\ Alone' = Alone /\ Comparable' = Comparable /\ Computed' = Computed
      /\ \A known : Seen(known)' = Seen(known)
      /\ \A y : Agrees(y)' = Agrees(y)
  BY <1>1, AloneStays
<1> SUFFICES ASSUME Comparable PROVE (Level /\ Decided /\ Returned /\ Halted /\ Agreed /\ Cut /\ Ended)'
  BY <1>4 DEF AlikeInv
<1>5. Level /\ Agreed /\ Cut
  BY DEF AlikeInv
<1>6. /\ MayJoin /\ last \in (at + 1)..(Len(order) + 1) /\ at \in Nat \ {0} /\ Len(order) \in Nat
      /\ \A p \in at..(last - 1) : order[p] \notin Sent => Foreseen(p) = "skipped"
  BY <1>1, JoinedNow, OrderIs DEF last
<1>7. Level'
  <2> SUFFICES ASSUME pc' = "look"
               PROVE  /\ Base'.ends = "completed" /\ Base'.out \subseteq skipped
                      /\ \A t \in skipped \ Base'.out : \E p \in 1..(at' - 1) : order[p] = t
                      /\ exports = Seen(Base.known)'
    BY <1>1, <1>2, <1>3 DEF Level
  <2>1. at' = last /\ Sent \subseteq collected /\ \A t \in Sent : flight[t] = "ok"
    BY <1>2
  <2>2. \A t \in Sent : \E p \in at..(last - 1) : order[p] = t /\ Foreseen(p) = "success"
    <3> TAKE t \in Sent
    <3>1. \E p \in at..(Planned - 1) :
              order[p] = t /\ (flight[t] = "ok" <=> Foreseen(p) = "success")
      BY <1>1, <2>1, CameForeseen
    <3> QED
      BY <2>1, <3>1 DEF last
  <2>3. \A p \in at..(last - 1) : Foreseen(p) \in {"success", "skipped"} /\ (Foreseen(p) = "success" => order[p] \in Sent)
    <3> TAKE p \in at..(last - 1)
    <3>1. CASE order[p] \notin Sent
      BY <1>6, <3>1
    <3>2. CASE order[p] \in Sent
      <4>1. PICK q \in at..(last - 1) : order[q] = order[p] /\ Foreseen(q) = "success"
        BY <2>2, <3>2
      <4>2. p \in Positions /\ q \in Positions
        BY <1>6, <4>1 DEF Positions
      <4>3. p = q
        BY <4>1, <4>2, OrderIs
      <4> QED
        BY <3>2, <4>1, <4>3
    <3> QED
      BY <3>1, <3>2
  <2>4. /\ Alone[last - 1].ends = "completed" /\ Alone[last - 1].out = Base.out
        /\ \A t : t \in Alone[last - 1].known <=>
                     t \in Base.known \/ \E p \in at..(last - 1) : order[p] = t /\ Foreseen(p) = "success"
    BY <1>6, <2>3, TogetherIs DEF last
  <2>5. Base' = Alone[last - 1]
    BY <1>4, <2>1 DEF Base
  <2>6. \A t : t \in Alone[last - 1].known <=> t \in Base.known \/ t \in Sent
    BY <2>2, <2>3, <2>4
  <2>7. Base.out \subseteq skipped /\ \A t \in skipped \ Base.out : \E p \in 1..(at - 1) : order[p] = t
    BY <1>1, <1>5 DEF Level
  <2>8. \A p \in 1..(at - 1) : p \in 1..(last - 1)
    BY <1>6
  <2>9. \A t \in Sent : def.kind[t] # "waited" /\ entry[t] = "success"
    <3> TAKE t \in Sent
    <3>1. PICK p \in at..(last - 1) : order[p] = t
      BY <2>2
    <3>2. def.kind[t] = "action"
      BY <1>6, <3>1, JoinIs DEF last
    <3>3. p \in at..Len(order) /\ p < last
      BY <1>6, <3>1
    <3>4. InRun(order[p])
      BY <1>1, <3>3 DEF LoopInv, Ahead, Going, last
    <3>5. entry[t] = Came(t)
      BY <1>3, <3>1, <3>4 DEF InRun
    <3> QED
      BY <2>1, <3>2, <3>5 DEF Came
  <2>10. exports = Seen(Base.known) \cup Sent
    BY <1>1, <1>5, <2>9 DEF Level
  <2>11. Seen(Base.known)' = Seen(Alone[last - 1].known)
    BY <1>1, <2>5 DEF Seen
  <2>12. exports = Seen(Alone[last - 1].known)
    BY <2>6, <2>9, <2>10 DEF Seen
  <2> QED
    BY <2>1, <2>4, <2>5, <2>7, <2>8, <2>11, <2>12
<1>8. Decided' /\ Returned' /\ Halted'
  BY <1>2, <1>3 DEF Decided, Returned, Halted, Going
<1>9. Agreed'
  BY <1>1, <1>4, <1>5 DEF Agreed
<1>10. Cut'
  <2>1. status' = "cancelled" \/ Sent \subseteq collected
    BY <1>2
  <2> QED
    BY <1>1, <1>3, <1>5, <2>1 DEF Cut
<1>11. Ended'
  <2> SUFFICES ASSUME pc' = "settled", status' # "cancelled" PROVE status' = Alone[Len(order)].ends
    BY <1>1, <1>4 DEF Ended
  <2>1. PICK t \in Sent : flight[t] = "failed" /\ Sent \subseteq collected /\ status' = "failed"
    BY <1>2
  <2>2. PICK p \in at..(Planned - 1) :
              /\ Foreseen(p) \in {"success", "failed"} /\ (flight[t] = "ok" <=> Foreseen(p) = "success")
    BY <1>1, <2>1, CameForeseen
  <2>3. Foreseen(p) = "failed"
    BY <2>1, <2>2
  <2> QED
    BY <1>6, <2>1, <2>3, TogetherIs
<1> QED
  BY <1>7, <1>8, <1>9, <1>10, <1>11

\* What is in two sequences that are joined.
LEMMA JoinHas ==
    ASSUME NEW X, NEW s \in Seq(X), NEW r \in Seq(X)
    PROVE  /\ s \o r \in Seq(X)
           /\ \A i \in 1..Len(s \o r) : \/ \E k \in 1..Len(s) : (s \o r)[i] = s[k]
                                        \/ \E k \in 1..Len(r) : (s \o r)[i] = r[k]
<1> DEFINE all == s \o r
<1>1. /\ all \in Seq(X) /\ Len(s) \in Nat /\ Len(r) \in Nat /\ Len(all) = Len(s) + Len(r)
      /\ \A i \in 1..Len(s) : all[i] = s[i]
      /\ \A i \in 1..Len(r) : all[Len(s) + i] = r[i]
  OBVIOUS
<1> HIDE DEF all
<1>2. ASSUME NEW i \in 1..Len(all)
      PROVE  (\E k \in 1..Len(s) : all[i] = s[k]) \/ \E k \in 1..Len(r) : all[i] = r[k]
  <2>1. CASE i \in 1..Len(s)
    BY <1>1, <2>1
  <2>2. CASE i \notin 1..Len(s)
    <3> DEFINE k == i - Len(s)
    <3>1. k \in 1..Len(r) /\ i = Len(s) + k
      BY <1>1, <2>2
    <3> HIDE DEF k
    <3> QED
      BY <1>1, <3>1
  <2> QED
    BY <2>1, <2>2
<1> QED
  BY <1>1, <1>2 DEF all

LEMMA SendOffAlike ==
    ASSUME ChildUnread, LoopInv, AlikeInv, SendOff
    PROVE  AlikeInv'
<1> DEFINE last == Planned
           e == GuardEnd(Planned)
           decided(i) == Decision(def, order[i], skipped, exports)
           UnwantedAt == {i \in at..(e - 1) : decided(i) \in {"false", "disabled"}}
           WantedAt == {i \in at..(e - 1) : decided(i) \in {"true"}}
           unwanted == Ascending(at, e, UnwantedAt)
           wanted == Ascending(at, e, WantedAt)
           bad == IF e < last THEN << Step(order[e], "failed", e) >> ELSE << >>
           skips == [i \in 1..Len(unwanted) |-> Step(order[unwanted[i]], "skipped", unwanted[i])]
           W == {order[i] : i \in WantedAt}
           U == {order[i] : i \in UnwantedAt}
<1>1. /\ entry' = [t \in Tasks(def) |-> CASE t \in U -> "skipped"
                                          [] t \in W -> "running"
                                          [] e < last /\ t = order[e] -> "failed"
                                          [] OTHER -> entry[t]]
      /\ steps' = (steps \o skips) \o bad
      /\ e < last => Settle("failed") /\ UNCHANGED <<at, sent, flight>>
      /\ ~(e < last) /\ WantedAt = {} =>
            status' = status /\ pc' = "look" /\ at' = last /\ UNCHANGED <<sent, flight>>
      /\ ~(e < last) /\ WantedAt # {} =>
            /\ status' = status /\ pc' = "collect" /\ at' = at
            /\ sent' = [i \in 1..Len(wanted) |-> order[wanted[i]]]
            /\ flight' = [t \in Tasks(def) |-> IF t \in W THEN "spawned" ELSE "none"]
      /\ UNCHANGED <<runVars, skipped, exports, collected, cancel>>
      /\ HereIs({"action"}) /\ ~HereDecides({"excluded"})
  BY DEF SendOff
<1>2. e < last => e \in at..last /\ decided(e) = "error"
  <2> DEFINE E == {i \in at..last : i = last \/ decided(i) = "error"}
  <2>1. at \in Nat /\ last \in Nat /\ at <= last
    <3>1. at \in 1..Len(order) /\ Len(order) \in Nat
      BY <1>1, OrderIs DEF LoopInv, Shape, Going, HereIs, Positions
    <3> HIDE DEF last
    <3>2. last \in (at + 1)..(Len(order) + 1)
      BY <3>1, PlannedIs DEF last
    <3> QED
      BY <3>1, <3>2
  <2>2. e = Least(E)
    BY DEF GuardEnd
  <2>3. E \in SUBSET Nat /\ last \in E
    BY <2>1
  <2> HIDE DEF e
  <2>4. \A i \in E : i \in at..last /\ (i = last \/ decided(i) = "error")
    OBVIOUS
  <2> HIDE DEF E, decided
  <2>5. e \in E
    BY <2>2, <2>3, LeastIs
  <2>6. e \in at..last /\ (e = last \/ decided(e) = "error")
    BY <2>4, <2>5
  <2> HIDE DEF last
  <2> QED
    BY <2>1, <2>6
<1> HIDE DEF last, e, W, U, bad, skips, unwanted, wanted
<1>3. /\ pc = "step" /\ at \in Positions /\ Sound(def) /\ Len(order) \in Nat /\ at \in 1..Len(order)
      /\ status = "running" /\ sent = << >> /\ Sent = {} /\ steps \in Seq(StepsOf)
  BY <1>1, OrderIs DEF LoopInv, Shape, Sending, Sent, Going, HereIs, Positions
<1>4. /\ def' = def /\ order' = order /\ deps' = deps /\ UNCHANGED runVars
      /\ skipped' = skipped /\ exports' = exports /\ collected' = collected
  BY <1>1 DEF runVars
<1>5. /\ last \in (at + 1)..(Len(order) + 1) /\ e \in at..last
      /\ \A p \in at..(e - 1) : decided(p) \in {"true", "false", "disabled"}
  BY <1>1, PlanIs DEF last, e
<1>6. /\ at \in Nat \ {0} /\ e \in Nat /\ last \in Nat /\ at <= e /\ e <= last /\ at < last
      /\ at..(at + (e - at) - 1) = at..(e - 1)
  BY <1>3, <1>5
<1>7. /\ \A p \in at..(last - 1) : p \in Positions /\ p \in at..Len(order)
      /\ \A p \in at..(e - 1) : p \in at..(last - 1)
      /\ e < last => e \in at..(last - 1)
      /\ ~(e < last) => e = last
  BY <1>3, <1>5, <1>6 DEF Positions
<1>8. /\ \A p \in Positions : order[p] \in Tasks(def)
      /\ \A p, q \in Positions : order[p] = order[q] => p = q
  BY OrderIs
<1>9. /\ Alone' = Alone /\ Comparable' = Comparable /\ Computed' = Computed
      /\ \A known : Seen(known)' = Seen(known)
      /\ \A y : Agrees(y)' = Agrees(y)
      /\ at' = at => Base' = Base /\ \A p : Wanted(p)' = Wanted(p)
  BY <1>4, AloneStays
<1> SUFFICES ASSUME Comparable PROVE (Level /\ Decided /\ Returned /\ Halted /\ Agreed /\ Cut /\ Ended)'
  BY <1>9 DEF AlikeInv
<1>10. Level /\ Agreed /\ Cut
  BY DEF AlikeInv
<1>11. /\ exports = Seen(Base.known)
       /\ \A p \in at..Len(order) : /\ decided(p) = Wanted(p)
                                    /\ order[p] \in skipped <=> order[p] \in Base.out
  BY <1>3, AlikeDecides
<1>12. MayJoin
  <2>1. Here = order[at] /\ at \in at..Len(order)
    BY <1>3 DEF Here
  <2>2. Here \notin skipped /\ def.kind[Here] = "action"
    BY <1>1 DEF HereDecides, HereIs, Decision
  <2> QED
    BY <1>3, <1>10, <1>11, <2>1, <2>2 DEF MayJoin, Level
<1>13. /\ \A p \in UnwantedAt : p \in at..(last - 1) /\ Foreseen(p) = "skipped"
       /\ \A p \in WantedAt : p \in at..(last - 1) /\ Wanted(p) = "true"
       /\ e < last => Foreseen(e) = "failed"
  <2>1. \A p \in UnwantedAt : p \in at..(last - 1) /\ Wanted(p) \in {"false", "disabled"}
    BY <1>7, <1>11
  <2>2. \A p \in WantedAt : p \in at..(last - 1) /\ Wanted(p) = "true"
    BY <1>7, <1>11
  <2>3. e < last => Wanted(e) = "error"
    BY <1>2, <1>7, <1>11
  <2> HIDE DEF UnwantedAt, WantedAt
  <2> QED
    BY <1>7, <1>12, <2>1, <2>2, <2>3, ForeseenIs DEF last
<1>14. /\ UnwantedAt \subseteq at..(e - 1) /\ WantedAt \subseteq at..(e - 1)
       /\ UnwantedAt \cap WantedAt = {}
       /\ \A p \in at..(e - 1) : p \in UnwantedAt \/ p \in WantedAt
  BY <1>5
<1> HIDE DEF UnwantedAt, WantedAt, decided
<1>15. unwanted \in Seq(Nat) /\ Placed(unwanted) = UnwantedAt
  <2>1. FoundOf(unwanted, at, e - at, UnwantedAt)
    BY <1>6, AscendingIs DEF unwanted
  <2> QED
    BY <1>6, <1>14, <2>1 DEF FoundOf, Placed
<1>16. wanted \in Seq(Nat) /\ Placed(wanted) = WantedAt
  <2>1. FoundOf(wanted, at, e - at, WantedAt)
    BY <1>6, AscendingIs DEF wanted
  <2> QED
    BY <1>6, <1>14, <2>1 DEF FoundOf, Placed
\* What is recorded.
<1>17. /\ skips \in Seq(StepsOf)
       /\ \A i \in 1..Len(skips) : \E p \in UnwantedAt : skips[i] = Step(order[p], "skipped", p)
  <2>1. Len(unwanted) \in Nat /\ \A i \in 1..Len(unwanted) : unwanted[i] \in UnwantedAt
    BY <1>15 DEF Placed
  <2>2. \A p \in UnwantedAt : Step(order[p], "skipped", p) \in StepsOf
    BY <1>7, <1>8, <1>13 DEF Step, StepsOf, Entries
  <2>3. skips \in Seq(StepsOf) /\ Len(skips) = Len(unwanted)
    BY <2>1, <2>2 DEF skips
  <2>4. \A i \in 1..Len(skips) : skips[i] = Step(order[unwanted[i]], "skipped", unwanted[i])
    BY <2>3 DEF skips
  <2> QED
    BY <2>1, <2>3, <2>4
<1>18. /\ bad \in Seq(StepsOf)
       /\ \A i \in 1..Len(bad) : e < last /\ bad[i] = Step(order[e], "failed", e)
  <2>1. CASE e < last
    <3> DEFINE x == Step(order[e], "failed", e)
    <3>1. x \in StepsOf
      BY <1>7, <1>8, <2>1 DEF Step, StepsOf, Entries
    <3> HIDE DEF x
    <3>2. bad = << x >>
      BY <2>1 DEF bad, x
    <3>3. << x >> \in Seq(StepsOf) /\ Len(<< x >>) = 1 /\ << x >>[1] = x
      BY <3>1
    <3>4. bad \in Seq(StepsOf) /\ \A i \in 1..Len(bad) : bad[i] = x
      BY <3>2, <3>3
    <3> QED
      BY <2>1, <3>4 DEF x
  <2>2. CASE ~(e < last)
    <3>1. bad = << >> /\ << >> \in Seq(StepsOf) /\ 1..Len(<< >>) = {}
      BY <2>2 DEF bad
    <3> QED
      BY <2>2, <3>1
  <2> QED
    BY <2>1, <2>2
<1>19. \A i \in 1..Len(steps') : \/ \E j \in 1..Len(steps) : steps'[i] = steps[j]
                                 \/ \E p \in UnwantedAt : steps'[i] = Step(order[p], "skipped", p)
                                 \/ e < last /\ steps'[i] = Step(order[e], "failed", e)
  <2> DEFINE s == steps \o skips
  <2>1. /\ s \in Seq(StepsOf)
        /\ \A i \in 1..Len(s) : \/ \E j \in 1..Len(steps) : s[i] = steps[j]
                                \/ \E j \in 1..Len(skips) : s[i] = skips[j]
    <3>1. steps \in Seq(StepsOf) /\ skips \in Seq(StepsOf)
      BY <1>3, <1>17
    <3> QED
      BY <3>1, JoinHas
  <2> HIDE DEF s
  <2>2. \A i \in 1..Len(s \o bad) : \/ \E j \in 1..Len(s) : (s \o bad)[i] = s[j]
                                    \/ \E j \in 1..Len(bad) : (s \o bad)[i] = bad[j]
    <3>1. s \in Seq(StepsOf) /\ bad \in Seq(StepsOf)
      BY <1>18, <2>1
    <3> QED
      BY <3>1, JoinHas
  <2>3. steps' = s \o bad
    BY <1>1 DEF s
  <2> QED
    BY <1>17, <1>18, <2>1, <2>2, <2>3
<1>20. Agreed'
  <2>1. ASSUME NEW p \in UnwantedAt PROVE Agrees(Step(order[p], "skipped", p))
    <3>1. Alone[Len(order)].came[order[p]] \in {"none", "skipped"}
      BY <1>12, <1>13, TogetherIs DEF last
    <3> QED
      BY <3>1 DEF Agrees, Step
  <2>2. ASSUME e < last PROVE Agrees(Step(order[e], "failed", e))
    <3>1. Alone[Len(order)].came[order[e]] \in {"none", "failed"}
      BY <1>7, <1>12, <1>13, <2>2, TogetherIs DEF last
    <3> QED
      BY <3>1 DEF Agrees, Step
  <2>3. \A i \in 1..Len(steps') : Agrees(steps'[i])
    BY <1>10, <1>19, <2>1, <2>2 DEF Agreed
  <2>4. \A x : Agrees(x)' = Agrees(x)
    BY <1>9
  <2> QED
    BY <2>3, <2>4 DEF Agreed
<1>21. Cut'
  <2>1. \A i \in 1..Len(steps') : steps'[i].status # "cancelled"
    <3>1. \A j \in 1..Len(steps) : steps[j].status # "cancelled"
      BY <1>3, <1>10 DEF Cut
    <3>2. \A p : /\ Step(order[p], "skipped", p).status = "skipped"
                 /\ Step(order[p], "failed", p).status = "failed"
      BY DEF Step
    <3> QED
      BY <1>19, <3>1, <3>2
  <2> QED
    BY <2>1 DEF Cut
<1>22. CASE e < last
  <2>1. pc' = "settled" /\ status' \in {"failed", "cancelled"} /\ sent' = << >>
    BY <1>1, <1>3, <1>22 DEF Settle
  <2>2. Sent' = {}
    BY <2>1 DEF Sent
  <2>3. Alone[Len(order)].ends = "failed"
    BY <1>7, <1>12, <1>13, <1>22, TogetherIs DEF last
  <2>4. Level' /\ Decided' /\ Returned' /\ Halted' /\ Ended'
    BY <1>4, <1>9, <2>1, <2>2, <2>3 DEF Level, Decided, Returned, Halted, Ended, Going
  <2> QED
    BY <1>20, <1>21, <2>4
<1>23. CASE ~(e < last) /\ WantedAt = {}
  <2>1. pc' = "look" /\ at' = last /\ sent' = << >>
    BY <1>1, <1>3, <1>23
  <2>2. Sent' = {}
    BY <2>1 DEF Sent
  <2>3. \A p \in at..(last - 1) : Foreseen(p) = "skipped"
    BY <1>7, <1>13, <1>14, <1>23
  <2>4. /\ Alone[last - 1].ends = "completed" /\ Alone[last - 1].out = Base.out
        /\ \A t : t \in Alone[last - 1].known <=>
                     t \in Base.known \/ \E p \in at..(last - 1) : order[p] = t /\ Foreseen(p) = "success"
    BY <1>12, <2>3, TogetherIs DEF last
  <2>5. Base' = Alone[last - 1]
    BY <1>9, <2>1 DEF Base
  <2>6. Seen(Base.known)' = Seen(Base.known)
    BY <1>4, <2>3, <2>4, <2>5 DEF Seen
  <2>7. \A t \in skipped \ Base.out : \E p \in 1..(at - 1) : order[p] = t
    BY <1>3, <1>10 DEF Level
  <2>8. \A p \in 1..(at - 1) : p \in 1..(last - 1)
    BY <1>6
  <2>9. Base.out \subseteq skipped
    BY <1>12 DEF MayJoin
  <2>10. Level'
    BY <1>4, <1>11, <2>1, <2>2, <2>4, <2>5, <2>6, <2>7, <2>8, <2>9 DEF Level
  <2>11. Decided' /\ Returned' /\ Halted' /\ Ended'
    BY <2>1, <2>2 DEF Decided, Returned, Halted, Ended, Going
  <2> QED
    BY <1>20, <1>21, <2>10, <2>11
<1>24. CASE ~(e < last) /\ WantedAt # {}
  <2>1. /\ pc' = "collect" /\ at' = at /\ Base' = Base
        /\ sent' = [i \in 1..Len(wanted) |-> order[wanted[i]]]
        /\ flight' = [t \in Tasks(def) |-> IF t \in W THEN "spawned" ELSE "none"]
    BY <1>1, <1>9, <1>24
  <2>2. Sent' = W
    <3>1. Len(wanted) \in Nat
      BY <1>16
    <3>2. Len(sent') = Len(wanted) /\ \A i \in 1..Len(wanted) : sent'[i] = order[wanted[i]]
      BY <2>1, <3>1
    <3>3. Sent' = {order[p] : p \in Placed(wanted)}
      BY <3>2 DEF Sent, Placed
    <3> QED
      BY <1>16, <3>3 DEF W
  <2>3. /\ \A t \in W : t \in Tasks(def)
        /\ \A p \in at..(last - 1) : order[p] \in W <=> p \in WantedAt
    BY <1>7, <1>8, <1>13 DEF W
  <2>4. Planned' = last
    BY <1>4, <2>1 DEF Planned, last
  <2>5. \A t \in W : entry'[t] # "success"
    <3> TAKE t \in W
    <3>1. t \in Tasks(def)
      BY <2>3
    <3>2. t \notin U
      BY <1>7, <1>8, <1>13, <1>14 DEF U, W
    <3>3. entry'[t] = "running"
      BY <1>1, <1>24, <3>1, <3>2
    <3> QED
      BY <3>3
  <2>6. Seen(Base.known)' = Seen(Base.known)
    BY <1>4, <2>1 DEF Seen
  <2>7. Level'
    BY <1>3, <1>4, <1>10, <1>11, <2>1, <2>2, <2>5, <2>6 DEF Level
  <2>8. Decided'
    <3>1. ASSUME NEW p \in at..(last - 1)
          PROVE  /\ order[p] \in W => Wanted(p) = "true"
                 /\ order[p] \notin W => Wanted(p) \in {"false", "disabled"}
      <4>1. p \in at..(e - 1) /\ p \in at..Len(order)
        BY <1>7, <1>24
      <4> QED
        BY <1>5, <1>11, <1>13, <1>14, <2>3, <4>1 DEF UnwantedAt
    <3>2. \A p : Wanted(p)' = Wanted(p)
      BY <1>9, <2>1
    <3> QED
      BY <1>4, <2>1, <2>2, <2>4, <3>1, <3>2 DEF Decided
  <2>9. Returned'
    BY <2>1, <2>2, <2>3 DEF Returned
  <2>10. Halted' /\ Ended'
    BY <2>1 DEF Halted, Ended
  <2> QED
    BY <1>20, <1>21, <2>7, <2>8, <2>9, <2>10
<1> QED
  BY <1>22, <1>23, <1>24

(***************************************************************************)
(* A resume                                                                *)
(***************************************************************************)
LEMMA OutcomeIs ==
    ASSUME LoopInv, NEW t \in Recorded
    PROVE  \E i \in 1..Len(steps) : steps[i].task = t /\ Outcome(t) = steps[i].status
<1> DEFINE Is(i) == steps[i].task = t /\ \A j \in (i + 1)..Len(steps) : steps[j].task # t
           last == CHOOSE i \in 1..Len(steps) : Is(i)
<1>1. PICK i \in 1..Len(steps) : steps[i].task = t
  BY DEF Recorded
<1>2. Len(steps) \in Nat
  BY DEF LoopInv, Shape
<1>3. \A j \in (i + 1)..Len(steps) : j \in 1..Len(steps) /\ j # i
  BY <1>2
<1>4. Is(i)
  BY <1>1, <1>3 DEF LoopInv, Once
<1>5. last \in 1..Len(steps) /\ Is(last)
  BY <1>4
<1>6. Outcome(t) = steps[last].status
  BY DEF Outcome
<1> HIDE DEF last
<1> QED
  BY <1>5, <1>6

\* What a resume skips of the first k tasks is what the run with one task at a
\* time leaves out, and tasks that it skipped; it takes the others as known.
RestoredAlike(k, out) ==
    /\ Alone[k].ends = "completed" /\ Alone[k].out \subseteq out
    /\ \A t \in out \ Alone[k].out : \E p \in 1..k : order[p] = t
    /\ \A p \in 1..k : order[p] \in Alone[k].known <=> order[p] \notin out

LEMMA RestoredStep ==
    ASSUME LoopInv, AlikeInv, Comparable, resumed = "no", NEW k \in Positions, NEW out,
           RestoredAlike(k - 1, out),
           \/ order[k] \in out
           \/ order[k] \in Recorded /\ Outcome(order[k]) \in {"success", "skipped"}
    PROVE  RestoredAlike(k, RestoredNext(def, order[k], out))
<1> DEFINE t == order[k]
           s == Alone[k - 1]
           more == RestoredNext(def, t, out)
<1>1. /\ k \in 1..Len(order) /\ Len(order) \in Nat /\ t \in Tasks(def) /\ Sound(def) /\ k - 1 \in 0..Len(order)
      /\ \A p \in 1..k : p \in Positions /\ (p = k \/ p \in 1..(k - 1))
      /\ \A p \in 1..(k - 1) : p \in 1..k /\ p \in Positions /\ order[p] # t
      /\ k \in 1..k
  <2>1. k \in 1..Len(order) /\ Len(order) \in Nat /\ t \in Tasks(def)
    BY OrderIs DEF Positions
  <2>2. \A p \in 1..(k - 1) : p \in 1..k /\ p \in Positions /\ p # k
    BY <2>1 DEF Positions
  <2>3. \A p \in 1..(k - 1) : order[p] # t
    BY <2>2, OrderIs
  <2>4. \A p \in 1..k : p \in Positions /\ (p = k \/ p \in 1..(k - 1))
    BY <2>1 DEF Positions
  <2> QED
    BY <2>1, <2>2, <2>3, <2>4 DEF Comparable
<1>2. \A p \in 1..k : order[p] \notin Branches(def, t)
  <2> SUFFICES ASSUME NEW p \in 1..k, order[p] \in Branches(def, t) PROVE FALSE
    OBVIOUS
  <2>1. t \in deps[order[p]]
    <3>1. t \in Declared(def)[order[p]] /\ order[p] \in Tasks(def)
      BY <1>1, DefinitionIs DEF LoopInv, Fixed
    <3> QED
      BY <1>1, <3>1 DEF LoopInv, Fixed
  <2>2. PICK q \in 1..(p - 1) : order[q] = t
    BY <1>1, <2>1, OrderIs
  <2>3. q \in 1..(k - 1)
    BY <1>1, <2>2
  <2> QED
    BY <1>1, <2>2, <2>3
<1>3. /\ t \notin Conditions(def) => Branches(def, t) = {}
      /\ NotTaken(def, t) = ExcludedBy(def, t, Result(def, t))
      /\ NotTaken(def, t) \subseteq Branches(def, t)
  BY <1>1 DEF LoopInv, Fixed, IsDefinition, NotTaken, ExcludedBy, Branches
<1>4. /\ s.ends = "completed" /\ s.out \subseteq out
      /\ \A m \in out \ s.out : \E p \in 1..(k - 1) : order[p] = m
      /\ \A p \in 1..(k - 1) : order[p] \in s.known <=> order[p] \notin out
  BY DEF RestoredAlike
<1>5. /\ Turn(k) \in Decisions /\ (Turn(k) = "excluded" <=> t \in s.out) /\ Due(k) \in Comings
      /\ Alone[k].out = s.out \cup Excludes(def, t, Turn(k))
      /\ Alone[k].known = IF Due(k) = "success" THEN s.known \cup {t} ELSE s.known
      /\ Alone[k].ends = IF Due(k) = "failed" THEN "failed" ELSE "completed"
  BY <1>4, AloneStep
<1>6. t \notin s.known
  <2>1. \A m \in s.known : \E p \in 1..(k - 1) : order[p] = m
    BY <1>1, AloneGrows DEF AloneTo
  <2> QED
    BY <1>1, <2>1
<1>7. t \in out <=> t \in s.out
  BY <1>1, <1>4
<1>8. Due(k) = "skipped" <=> \/ Turn(k) = "excluded"
                             \/ t \notin Conditions(def) /\ Turn(k) \in {"false", "disabled"}
  BY <1>5, ComesIs DEF Due
<1> HIDE DEF s
\* What comes of it, from what is skipped and what is left out.
<1>9. ASSUME NEW new, more = new, Due(k) # "failed", out \subseteq new,
             new \subseteq out \cup {t} \cup Branches(def, t),
             Excludes(def, t, Turn(k)) \subseteq new,
             new \ Excludes(def, t, Turn(k)) \subseteq out \cup {t},
             Due(k) = "success" <=> t \notin new
      PROVE  RestoredAlike(k, new)
  <2>1. Alone[k].ends = "completed" /\ Alone[k].out \subseteq new
    BY <1>4, <1>5, <1>9
  <2>2. \A m \in new \ Alone[k].out : \E p \in 1..k : order[p] = m
    <3> TAKE m \in new \ Alone[k].out
    <3>1. m \in out \ s.out \/ m = t
      BY <1>5, <1>9
    <3> QED
      BY <1>1, <1>4, <3>1
  <2>3. \A p \in 1..k : order[p] \in Alone[k].known <=> order[p] \notin new
    <3> TAKE p \in 1..k
    <3>1. CASE p = k
      BY <1>5, <1>6, <1>9, <3>1
    <3>2. CASE p # k
      <4>1. p \in 1..(k - 1) /\ order[p] # t
        BY <1>1, <3>2
      <4>2. order[p] \in new <=> order[p] \in out
        BY <1>2, <1>9, <4>1
      <4> QED
        BY <1>4, <1>5, <4>1, <4>2
    <3> QED
      BY <3>1, <3>2
  <2> QED
    BY <2>1, <2>2, <2>3 DEF RestoredAlike
<1>10. CASE t \in out
  <2>1. Turn(k) = "excluded" /\ Due(k) = "skipped"
    BY <1>5, <1>7, <1>8, <1>10
  <2>2. more = out \cup {t} \cup Branches(def, t)
    BY <1>10 DEF RestoredNext
  <2>3. Excludes(def, t, Turn(k)) = Branches(def, t)
    BY <1>3, <2>1 DEF Excludes
  <2> HIDE DEF more
  <2>4. RestoredAlike(k, more)
    BY <1>9, <2>1, <2>2, <2>3
  <2> QED
    BY <2>4 DEF more
<1>11. CASE t \notin out
  <2>1. t \in Recorded /\ Outcome(t) \in {"success", "skipped"}
    BY <1>11
  <2>2. PICK i \in 1..Len(steps) : steps[i].task = t /\ Outcome(t) = steps[i].status
    BY <2>1, OutcomeIs
  <2>3. Alone[Len(order)].came[t] = Due(k)
    BY <1>4, AloneCame DEF s
  <2>4. Agrees(steps[i])
    BY DEF AlikeInv, Agreed
  <2>5. Due(k) = Outcome(t)
    BY <1>5, <2>1, <2>2, <2>3, <2>4 DEF Agrees, Comings
  <2>6. Turn(k) # "excluded"
    BY <1>5, <1>7, <1>11
  <2>7. CASE Outcome(t) = "skipped"
    <3>1. t \notin Conditions(def) /\ Due(k) = "skipped"
      BY <1>8, <2>5, <2>6, <2>7
    <3>2. more = out \cup {t} \cup Branches(def, t) /\ Branches(def, t) = {}
      BY <1>3, <2>1, <2>7, <3>1 DEF RestoredNext
    <3>3. Excludes(def, t, Turn(k)) = {}
      BY <3>1 DEF Excludes
    <3> HIDE DEF more
    <3>4. RestoredAlike(k, more)
      BY <1>9, <3>1, <3>2, <3>3
    <3> QED
      BY <3>4 DEF more
  <2>8. CASE Outcome(t) = "success"
    <3>1. Due(k) = "success" /\ Outcome(t) # "skipped"
      BY <2>5, <2>8
    <3>2. more = out \cup (IF t \in Conditions(def) THEN NotTaken(def, t) ELSE {})
      BY <1>3, <1>11, <3>1 DEF RestoredNext
    <3>3. Excludes(def, t, Turn(k)) = IF t \in Conditions(def) THEN NotTaken(def, t) ELSE {}
      BY <2>6 DEF Excludes
    <3>4. t \notin Branches(def, t)
      BY <1>1, <1>2
    <3> HIDE DEF more
    <3>5. t \notin more
      BY <1>3, <1>11, <3>2, <3>4
    <3>6. RestoredAlike(k, more)
      BY <1>3, <1>9, <3>1, <3>2, <3>3, <3>5
    <3> QED
      BY <3>6 DEF more
  <2> QED
    BY <2>1, <2>7, <2>8
<1> QED
  BY <1>10, <1>11

LEMMA ResumeAlike ==
    ASSUME LoopInv, AlikeInv, NEW d \in {def} \cup Edits(def), NEW start \in Tasks(def), Resume(d, start)
    PROVE  AlikeInv'
<1> DEFINE ord == ExecutionOrder(d, Dependencies(d))
           R == RestoredSkips(d, ord)
           out == R[start - 1]
           before == {ord[i] : i \in 1..(start - 1)}
<1>1. /\ pc = "settled" /\ resumed = "no" /\ Sound(d) /\ MayResume(d, ord, start)
      /\ deps' = Dependencies(d) /\ order' = ord /\ skipped' = out
      /\ restored' = [t \in before |-> IF t \in out THEN "skipped" ELSE "success"]
      /\ exports' = {t \in before : restored'[t] = "success" /\ def.kind[t] # "waited"}
      /\ def' = d /\ at' = start /\ pc' = "look" /\ status' = "running"
      /\ steps' = << >> /\ sent' = << >> /\ luck' = luck
      /\ results' = {c \in before \cap Conditions(d) : Result(def, c)}
      /\ resumed' = IF d = def THEN "here" ELSE "edited"
  BY DEF Resume
<1>2. Computed'
  <2>1. def \in Definitions
    BY <1>1 DEF AlikeInv, Computed
  <2> QED
    BY <1>1, <2>1 DEF Computed
<1> SUFFICES ASSUME Comparable' PROVE (Level /\ Decided /\ Returned /\ Halted /\ Agreed /\ Cut /\ Ended)'
  BY <1>2 DEF AlikeInv
<1>3. d = def /\ Comparable
  BY <1>1 DEF Comparable
<1>4. def' = def /\ luck' = luck /\ order' = order /\ ord = order
  BY <1>1, <1>3 DEF AlikeInv, Computed, Comparable
<1>5. Alone' = Alone
  <2>1. DOMAIN restored = {} /\ DOMAIN restored' = before
    BY <1>1 DEF LoopInv, Fixed
  <2> HIDE DEF before
  <2>2. \A c \in Conditions(def) : NotTaken(def, c)' = NotTaken(def, c)
    BY <1>1, <1>3, <1>4, <2>1 DEF NotTaken, ExcludedBy, Result
  <2> QED
    BY <1>4, <2>2, AloneSame
<1>6. Sent' = {}
  BY <1>1 DEF Sent
<1>7. Decided' /\ Returned' /\ Halted' /\ Agreed' /\ Cut' /\ Ended'
  BY <1>1, <1>6 DEF Decided, Returned, Halted, Agreed, Cut, Ended, Going
<1>8. /\ order \in Seq(Tasks(def)) /\ IsDefinition(def) /\ Len(order) \in Nat
      /\ start \in 1..Len(order) /\ start - 1 \in 0..Len(order) /\ start - 1 \in Nat
  <2>1. order \in Seq(Tasks(def)) /\ IsDefinition(def) /\ Len(order) \in Nat
    BY OrderIs DEF LoopInv, Fixed
  <2>2. Len(order) = Len(def.kind) /\ Tasks(def) = 1..Len(def.kind)
    BY <1>3, <2>1, DefinitionIs DEF LoopInv, Fixed, Ordered, Comparable
  <2> QED
    BY <2>1, <2>2
<1>9. R[0] = {} /\ \A k \in 1..Len(order) : R[k] = RestoredNext(def, order[k], R[k - 1])
  BY <1>3, <1>4, <1>8, RestoredSkipsIs
<1>10. \A k \in 1..(start - 1) : order[k] \in R[k - 1] \/ (order[k] \in Recorded /\ Outcome(order[k]) \in {"success", "skipped"})
  BY <1>1, <1>4 DEF MayResume
<1> HIDE DEF ord, R
<1> DEFINE S == {k \in 0..(start - 1) : RestoredAlike(k, R[k])}
<1>11. 0 \in S
  <2>1. Alone[0] = AloneFirst
    BY AloneIs DEF LoopInv
  <2>2. RestoredAlike(0, R[0])
    BY <1>9, <2>1 DEF RestoredAlike, AloneFirst
  <2> QED
    BY <1>8, <2>2
<1>12. ASSUME NEW k \in (0 + 1)..(start - 1), k - 1 \in S PROVE k \in S
  <2>1. k \in 1..(start - 1) /\ k \in 1..Len(order) /\ k \in 0..(start - 1) /\ k \in Positions
    BY <1>8 DEF Positions
  <2>2. RestoredAlike(k - 1, R[k - 1])
    BY <1>12
  <2>3. RestoredAlike(k, RestoredNext(def, order[k], R[k - 1]))
    BY <1>1, <1>3, <1>10, <2>1, <2>2, RestoredStep
  <2> QED
    BY <1>9, <2>1, <2>3
<1> HIDE DEF S
<1>13. \A k \in 0..(start - 1) : k \in S
  <2>1. 0 \in Nat
    OBVIOUS
  <2> QED
    BY <1>8, <1>11, <1>12, <2>1, Stepwise
<1>14. RestoredAlike(start - 1, out)
  <2>1. start - 1 \in 0..(start - 1)
    BY <1>8
  <2> QED
    BY <1>13, <2>1 DEF S
<1> HIDE DEF out
<1> DEFINE s == Alone[start - 1]
<1>15. Base' = s
  BY <1>1, <1>5 DEF Base
<1>16. /\ s.ends = "completed" /\ s.out \subseteq out
       /\ \A t \in out \ s.out : \E p \in 1..(start - 1) : order[p] = t
       /\ \A p \in 1..(start - 1) : order[p] \in s.known <=> order[p] \notin out
  BY <1>14 DEF RestoredAlike
<1>17. \A t \in s.known : \E p \in 1..(start - 1) : order[p] = t
  BY <1>8, AloneGrows DEF AloneTo
<1> HIDE DEF s
<1>18. before = {order[i] : i \in 1..(start - 1)}
  BY <1>4
<1> HIDE DEF before
<1>19. exports' = Seen(s.known)
  <2>1. \A t \in before : restored'[t] = IF t \in out THEN "skipped" ELSE "success"
    BY <1>1
  <2>2. exports' = {t \in before : t \notin out /\ def.kind[t] # "waited"}
    BY <1>1, <2>1
  <2>3. \A t : t \in before /\ t \notin out <=> t \in s.known
    BY <1>16, <1>17, <1>18
  <2> QED
    BY <2>2, <2>3 DEF Seen
<1>20. Seen(Base.known)' = Seen(s.known)
  BY <1>4, <1>15 DEF Seen
<1>21. Level'
  BY <1>1, <1>4, <1>6, <1>15, <1>16, <1>19, <1>20 DEF Level
<1> QED
  BY <1>7, <1>21

LEMMA StillAlike ==
    ASSUME AlikeInv, UNCHANGED vars
    PROVE  AlikeInv'
<1>1. /\ def' = def /\ order' = order /\ deps' = deps /\ pc' = pc /\ status' = status
      /\ at' = at /\ skipped' = skipped /\ exports' = exports /\ entry' = entry /\ steps' = steps
      /\ sent' = sent /\ flight' = flight /\ collected' = collected /\ UNCHANGED runVars
  BY DEF vars, runVars
<1>2. Sent' = Sent /\ Planned' = Planned
  BY <1>1 DEF Sent, Planned
<1>3. /\ Alone' = Alone /\ Comparable' = Comparable /\ Computed' = Computed
      /\ \A known : Seen(known)' = Seen(known)
      /\ \A p : Turn(p)' = Turn(p) /\ Wanted(p)' = Wanted(p)
      /\ Base' = Base /\ \A t : Succeeds(def, t, Base.known)' = Succeeds(def, t, Base.known)
      /\ \A x : Agrees(x)' = Agrees(x)
  BY <1>1, AloneStays
<1> SUFFICES ASSUME Comparable PROVE (Level /\ Decided /\ Returned /\ Halted /\ Agreed /\ Cut /\ Ended)'
  BY <1>3 DEF AlikeInv
<1>4. Level /\ Decided /\ Returned /\ Halted /\ Agreed /\ Cut /\ Ended
  BY DEF AlikeInv
<1>5. Level' /\ Decided'
  BY <1>1, <1>2, <1>3, <1>4 DEF Level, Decided, Seen, Going
<1>6. Returned' /\ Halted'
  BY <1>1, <1>2, <1>3, <1>4 DEF Returned, Halted, Here
<1>7. Agreed' /\ Cut' /\ Ended'
  BY <1>1, <1>2, <1>3, <1>4 DEF Agreed, Cut, Ended
<1> QED
  BY <1>5, <1>6, <1>7

\* Whatever order tasks finish in, with however many at a time, and from
\* whichever step the run is resumed, it ends as it would one task at a time, and
\* so does every task that both finish; of any workflow whose waited-for
\* sub-workflows have no condition beside them and are read by no task, whose
\* skips and exports a resume would lose.
THEOREM AloneOrTogether ==
    ASSUME NothingForgotten, ChildUnread
    PROVE  Spec => []EndsAlike
<1>1. Init => AlikeInv
  BY AlikeStarts
<1>2. LoopInv /\ OutInv /\ AlikeInv /\ [Next]_vars => AlikeInv'
  <2> SUFFICES ASSUME LoopInv, OutInv, AlikeInv, [Next]_vars PROVE AlikeInv'
    OBVIOUS
  <2>1. CASE BuildGraph \/ Look \/ StopCollecting \/ Cancel \/ WaitClaimed
    BY <2>1, AlikePhases
  <2>2. CASE \E t \in Tasks(def) : TaskReturns(t)
    BY <2>2, AlikeReturns
  <2>3. CASE \E t \in Tasks(def) : Collect(t)
    BY <2>3, AlikeCollects
  <2>4. CASE \/ SkipTask \/ FailGuard \/ SettleCondition \/ StartWait \/ SettleWait
             \/ StartDetached \/ StartWaited \/ ChildSettles \/ ClaimPaused
    BY <2>4, HereStaysAlike
  <2>5. CASE SendOff
    BY <2>5, SendOffAlike
  <2>6. CASE ApplyOutcome
    BY <2>6, ApplyAlike
  <2>7. CASE EndRun
    BY <2>7, EndRunAlike
  <2>8. CASE \E d \in {def} \cup Edits(def) : \E start \in Tasks(def) : Resume(d, start)
    BY <2>8, ResumeAlike
  <2>9. CASE UNCHANGED vars
    BY <2>9, StillAlike
  <2> QED
    BY <2>1, <2>2, <2>3, <2>4, <2>5, <2>6, <2>7, <2>8, <2>9 DEF Next, Main
<1>3. LoopInv /\ AlikeInv => EndsAlike
  BY AlikeInvEnds
<1> QED
  BY <1>1, <1>2, <1>3, LoopInvariance, OutInvariance, PTL DEF Spec

(***************************************************************************)
(* Only a cancelled run writes exports that a task has yet to read         *)
(***************************************************************************)
\* Unless the run was cancelled, main waits for every task that has yet to read.
Awaited ==
    \A t \in Tasks(def) : flight[t] = "spawned" =>
        cancel \/ (pc = "collect" /\ t \in Sent \ collected)

LEMMA SentIsAwaited ==
    ASSUME LoopInv, SendOff, Awaited
    PROVE  Awaited'
<1> DEFINE e == GuardEnd(Planned)
           WantedAt == {i \in at..(e - 1) : Decision(def, order[i], skipped, exports) \in {"true"}}
           wanted == Ascending(at, e, WantedAt)
           W == {order[i] : i \in WantedAt}
<1>1. /\ e < Planned \/ WantedAt = {} => flight' = flight
      /\ ~(e < Planned) /\ WantedAt # {} =>
            /\ pc' = "collect"
            /\ sent' = [i \in 1..Len(wanted) |-> order[wanted[i]]]
            /\ flight' = [t \in Tasks(def) |-> IF t \in W THEN "spawned" ELSE "none"]
      /\ UNCHANGED <<runVars, skipped, exports, collected, cancel>>
      /\ HereIs({"action"}) /\ ~HereDecides({"excluded"})
  BY DEF SendOff
<1> HIDE DEF e, W, wanted
<1>2. /\ pc = "step" /\ Len(order) \in Nat /\ at \in 1..Len(order)
      /\ sent = << >> /\ collected = {}
      /\ def' = def /\ cancel' = cancel /\ collected' = collected
  BY <1>1, OrderIs DEF LoopInv, Shape, Sending, Going, HereIs, Positions, runVars
<1>3. Planned \in (at + 1)..(Len(order) + 1) /\ e \in at..Planned
  BY <1>1, PlanIs DEF e
<1>4. at \in Nat /\ e \in Nat /\ at <= e /\ at..(at + (e - at) - 1) = at..(e - 1)
  BY <1>2, <1>3
<1>5. WantedAt \subseteq at..(e - 1)
  OBVIOUS
<1> HIDE DEF WantedAt
<1>6. wanted \in Seq(Nat) /\ Placed(wanted) = WantedAt
  <2>1. FoundOf(wanted, at, e - at, WantedAt)
    BY <1>4, AscendingIs DEF wanted
  <2> QED
    BY <1>4, <1>5, <2>1 DEF FoundOf, Placed
<1>7. CASE e < Planned \/ WantedAt = {}
  BY <1>1, <1>2, <1>7 DEF Awaited
<1>8. CASE ~(e < Planned) /\ WantedAt # {}
  <2> SUFFICES ASSUME NEW t \in Tasks(def), t \in W
               PROVE  pc' = "collect" /\ t \in Sent' \ collected'
    BY <1>1, <1>2, <1>8 DEF Awaited
  <2>1. PICK p \in WantedAt : t = order[p]
    BY DEF W
  <2>2. PICK i \in 1..Len(wanted) : wanted[i] = p
    BY <1>6, <2>1 DEF Placed
  <2>3. sent' = [j \in 1..Len(wanted) |-> order[wanted[j]]] /\ Len(wanted) \in Nat
    BY <1>1, <1>6, <1>8
  <2>4. Len(sent') = Len(wanted) /\ sent'[i] = t
    BY <2>1, <2>2, <2>3
  <2> QED
    BY <1>1, <1>2, <1>8, <2>2, <2>4 DEF Sent
<1> QED
  BY <1>7, <1>8

LEMMA AwaitedKept ==
    ASSUME LoopInv, Awaited, [Next]_vars
    PROVE  Awaited'
<1>1. flight \in [Tasks(def) -> Flights] /\ collected \subseteq Sent
  BY DEF LoopInv, Shape
<1>2. ASSUME def' = def, flight' = flight, cancel' = cancel, pc # "collect" PROVE Awaited'
  BY <1>2 DEF Awaited
<1>3. CASE BuildGraph \/ Look \/ StopCollecting \/ Cancel \/ WaitClaimed
  <2>1. CASE BuildGraph \/ Look \/ WaitClaimed
    BY <1>2, <2>1 DEF BuildGraph, Look, WaitClaimed, runVars, taskVars
  <2>2. CASE StopCollecting \/ Cancel
    BY <2>2 DEF StopCollecting, Cancel, Awaited
  <2> QED
    BY <1>3, <2>1, <2>2
<1>4. CASE \E t \in Tasks(def) : TaskReturns(t)
  <2>1. PICK t \in Tasks(def) : TaskReturns(t)
    BY <1>4
  <2>2. /\ def' = def /\ cancel' = cancel /\ pc' = pc /\ sent' = sent /\ collected' = collected
        /\ \A u \in Tasks(def) : flight'[u] = "spawned" => flight[u] = "spawned"
    BY <1>1, <2>1 DEF TaskReturns, runVars
  <2> QED
    BY <2>2 DEF Awaited, Sent
<1>5. CASE \E t \in Tasks(def) : Collect(t)
  <2>1. PICK t \in Tasks(def) : Collect(t)
    BY <1>5
  <2>2. /\ def' = def /\ cancel' = cancel /\ sent' = sent /\ flight' = flight
        /\ collected' = collected \cup {t} /\ flight[t] # "spawned"
        /\ pc' = IF collected' = Sent THEN "apply" ELSE pc
    BY <2>1 DEF Collect, runVars
  <2> SUFFICES ASSUME NEW u \in Tasks(def), flight[u] = "spawned", ~cancel
               PROVE  pc' = "collect" /\ u \in Sent' \ collected'
    BY <2>2 DEF Awaited
  <2>3. pc = "collect" /\ u \in Sent \ collected /\ u # t
    BY <2>2 DEF Awaited
  <2> QED
    BY <2>2, <2>3 DEF Sent
<1>6. CASE \/ SkipTask \/ FailGuard \/ SettleCondition \/ StartWait \/ SettleWait
           \/ StartDetached \/ StartWaited \/ ChildSettles \/ ClaimPaused
  <2>1. pc \in {"step", "paused"} /\ def' = def /\ flight' = flight /\ cancel' = cancel
    BY <1>6 DEF SkipTask, FailGuard, SettleCondition, StartWait, SettleWait, StartDetached,
                StartWaited, ChildSettles, ClaimPaused, HereIs, SettleHere, runVars, taskVars
  <2> QED
    BY <1>2, <2>1
<1>7. CASE SendOff
  BY <1>7, SentIsAwaited
<1>8. CASE ApplyOutcome \/ EndRun
  BY <1>2, <1>8 DEF ApplyOutcome, EndRun, runVars, taskVars
<1>9. CASE \E d \in {def} \cup Edits(def) : \E start \in Tasks(def) : Resume(d, start)
  <2>1. flight' = NoneOf(def', "none")
    BY <1>9 DEF Resume
  <2> QED
    BY <2>1 DEF Awaited, NoneOf
<1>10. CASE UNCHANGED vars
  BY <1>10 DEF vars, Awaited, Sent
<1> QED
  BY <1>3, <1>4, <1>5, <1>6, <1>7, <1>8, <1>9, <1>10 DEF Next, Main

\* The exports of a run that goes on are not written while main waits for tasks.
LEMMA WrittenApart ==
    ASSUME Next, exports' # exports, pc # "settled"
    PROVE  pc # "collect"
<1>1. CASE \/ SettleCondition \/ SettleWait \/ StartDetached \/ ApplyOutcome
  BY <1>1 DEF SettleCondition, SettleWait, StartDetached, ApplyOutcome, HereIs
<1>2. CASE \E d \in {def} \cup Edits(def) : \E start \in Tasks(def) : Resume(d, start)
  BY <1>2 DEF Resume
<1>3. CASE \/ BuildGraph \/ Look \/ SkipTask \/ FailGuard \/ SendOff \/ StopCollecting
           \/ EndRun \/ StartWait \/ StartWaited \/ ClaimPaused \/ WaitClaimed
           \/ ChildSettles \/ Cancel
           \/ \E t \in Tasks(def) : Collect(t) \/ TaskReturns(t)
  BY <1>3 DEF BuildGraph, Look, SkipTask, FailGuard, SendOff, StopCollecting, EndRun, StartWait,
              StartWaited, ClaimPaused, WaitClaimed, ChildSettles, Cancel, Collect, TaskReturns
<1> QED
  BY <1>1, <1>2, <1>3 DEF Next, Main

\* Concurrent tasks read the exports as they were when they were sent off: main
\* writes none before the last of them returned, except in a run that was
\* cancelled, where it stops waiting for them.
THEOREM OnlyCancelDisturbs == Spec /\ []~cancel => ReadsUndisturbed
<1>1. Init => Awaited
  BY DEF Init, NoneOf, Awaited
<1>2. LoopInv /\ Awaited /\ [Next]_vars => Awaited'
  BY AwaitedKept
<1>3. LoopInv /\ Awaited /\ ~cancel /\ [Next]_vars =>
        [exports' # exports /\ pc # "settled" => \A t \in Tasks(def) : flight[t] # "spawned"]_vars
  BY WrittenApart DEF Awaited
<1> QED
  BY <1>1, <1>2, <1>3, LoopInvariance, PTL DEF Spec, ReadsUndisturbed
================================================================================
