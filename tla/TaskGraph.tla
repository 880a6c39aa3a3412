------------------------------- MODULE TaskGraph -------------------------------
(* The order in which a workflow's tasks run, and which of them run at the     *)
(* same time (src/workflow/internal/engine: executor.go, concurrency.go).      *)
(*                                                                             *)
(* A task is its position in the definition's declaration order.  A definition *)
(* is a record: what each task is (kind), what it declares it waits for        *)
(* (deps), the branches of a condition (onTrue, onFalse), the tasks whose      *)
(* exports its parameters or guard mention (reads), whether it has a guard     *)
(* (guard: on the trigger's event, or on what it reads), and which tasks are   *)
(* switched off (disabled).  A condition with nothing to evaluate, which the   *)
(* engine runs as if it were an action, is left out.                           *)
EXTENDS Integers, Sequences, FiniteSets

Kinds  == {"action", "condition", "wait", "detached", "waited"}
Guards == {"none", "trigger", "exports"}

Tasks(d) == 1..Len(d.kind)
Conditions(d) == {c \in Tasks(d) : d.kind[c] = "condition"}
Branches(d, c) == d.onTrue[c] \cup d.onFalse[c]

IsDefinition(d) ==
    /\ d.kind \in Seq(Kinds)
    /\ d.deps \in [Tasks(d) -> SUBSET Tasks(d)]
    /\ d.onTrue \in [Tasks(d) -> SUBSET Tasks(d)]
    /\ d.onFalse \in [Tasks(d) -> SUBSET Tasks(d)]
    /\ d.reads \in [Tasks(d) -> SUBSET Tasks(d)]
    /\ d.guard \in [Tasks(d) -> Guards]
    /\ d.disabled \subseteq Tasks(d)
    /\ \A t \in Tasks(d) \ Conditions(d) : Branches(d, t) = {}
    /\ \A c \in Conditions(d) : d.guard[c] # "none"

Least(S) == CHOOSE x \in S : \A y \in S : x <= y

\* reaches: the tasks that t leads to through next, directly or through others.
Reach(next, t) ==
    LET near[k \in 0..Cardinality(DOMAIN next)] ==
            IF k = 0 THEN next[t]
                     ELSE LET before == near[k - 1]
                          IN  before \cup UNION {next[s] : s \in before}
    IN  near[Cardinality(DOMAIN next)]

\* What is declared: dependsOn, and every branch task waits for its condition.
Declared(d) ==
    [t \in Tasks(d) |-> d.deps[t] \cup {c \in Conditions(d) : t \in Branches(d, c)}]

\* NewDependencyGraph refuses a condition in its own branch and a cycle.
Sound(d) ==
    /\ \A c \in Conditions(d) : c \notin Branches(d, c)
    /\ \A t \in Tasks(d) : t \notin Reach(Declared(d), t)

\* underCondition: everything in a condition's branches, those of the conditions
\* in them included.
Under(d, c) == Reach([t \in Tasks(d) |-> Branches(d, t)], c)

\* Mutant: a follower waits only for the branch tasks it names.
FollowNamed(d, deps, c, f) == deps

\* orderAfterBranches for one condition c and one task f: a task that follows
\* the condition waits for all of its branches, but for a branch task that waits
\* for it.
FollowBranches(d, deps, c, f) ==
    IF c \in Conditions(d) /\ f # c /\ f \notin Under(d, c)
       /\ deps[f] \cap (Under(d, c) \cup {c}) # {}
    THEN [deps EXCEPT ![f] = @ \cup {m \in Under(d, c) : f \notin Reach(deps, m)}]
    ELSE deps

\* Every dependency enforced: conditions and then tasks in declaration order.
Dependencies(d) ==
    LET n == Len(d.kind)
        after[k \in 0..(n * n)] ==
            IF k = 0 THEN Declared(d)
            ELSE LET before == after[k - 1]
                 IN  FollowBranches(d, before, 1 + ((k - 1) \div n), 1 + ((k - 1) % n))
    IN  after[n * n]

\* GetExecutionOrder: of the tasks that are ready, the one declared first.
ExecutionOrder(d, deps) ==
    LET placed(s) == {s[i] : i \in 1..Len(s)}
        ready(s) == {t \in Tasks(d) \ placed(s) : deps[t] \subseteq placed(s)}
        first[k \in 0..Len(d.kind)] ==
            IF k = 0 THEN << >>
                     ELSE LET s == first[k - 1] IN Append(s, Least(ready(s)))
    IN  first[Len(d.kind)]

(***************************************************************************)
(* planConcurrentRun                                                       *)
(***************************************************************************)
ConcurrencySafe(d, t) == d.kind[t] = "action"

\* Mutant: only what is declared keeps two tasks apart.
IndependentByDeclaration(d, deps, s, t) == s \notin deps[t]

\* Two tasks may run together if neither depends on or reads the other.
Independent(d, deps, s, t) ==
    /\ s \notin deps[t]
    /\ s \notin d.reads[t] /\ t \notin d.reads[s]

\* Where the tasks that run together with the one at position start end: the
\* first position after start that may not join them.
RunEnd(d, deps, order, start, skipped, limit) ==
    LET may(t) == ConcurrencySafe(d, t) /\ t \notin skipped
        joins(e) == /\ may(order[e]) /\ e - start < limit
                    /\ \A i \in start..(e - 1) : Independent(d, deps, order[i], order[e])
    IN  IF ~may(order[start]) THEN start + 1
        ELSE Least({e \in (start + 1)..(Len(order) + 1) :
                        e = Len(order) + 1 \/ ~joins(e)})
================================================================================
