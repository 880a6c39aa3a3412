------------------------------ MODULE MCTaskLoop ------------------------------
(* Small instances of TaskLoop for TLC: workflows of up to four tasks. *)
EXTENDS TaskLoop, TLC

\* A definition of n actions with nothing between them.
Plain(n) ==
    [kind |-> [t \in 1..n |-> "action"], deps |-> [t \in 1..n |-> {}],
     onTrue |-> [t \in 1..n |-> {}], onFalse |-> [t \in 1..n |-> {}],
     reads |-> [t \in 1..n |-> {}], guard |-> [t \in 1..n |-> "none"], disabled |-> {}]

\* Three actions: each may depend on others, the first on the last too, and the
\* later ones read what is before them; the second is guarded.
Fans ==
    {[Plain(3) EXCEPT !.deps = << a, b, c >>, !.reads = << {}, q, r >>, !.guard[2] = g] :
        a \in SUBSET {3}, b \in SUBSET {1}, c \in SUBSET {1, 2},
        q \in SUBSET {1}, r \in SUBSET {2}, g \in {"trigger", "exports"}}

\* A condition over a second task, which may be a condition too, and two actions
\* that are in its branches, follow it, or are waited for by one that is.
Branching ==
    {[Plain(4) EXCEPT !.kind = << "condition", k, "action", "action" >>,
                      !.guard = << "trigger", IF k = "condition" THEN "trigger" ELSE "none", "none", "none" >>,
                      !.onTrue[1] = t, !.onFalse[1] = f,
                      !.onTrue[2] = IF k = "condition" THEN {3} ELSE {},
                      !.deps[2] = b, !.deps[4] = c, !.disabled = off] :
        k \in {"condition", "action"}, t \in {{2}, {2, 3}}, f \in {{}, {4}},
        b \in {{}, {4}}, c \in {{}, {1}, {2}, {3}}, off \in {{}, {2}}}

\* A condition, a pause or a sub-workflow behind it, and an action that the
\* condition may exclude and that may read the one before it.  With a
\* sub-workflow that is waited for, nothing is excluded and nothing reads it.
Pausing ==
    {[Plain(3) EXCEPT !.kind = << "condition", k, "action" >>,
                      !.guard = << "trigger", g, "none" >>,
                      !.onTrue[1] = t, !.onFalse[1] = f, !.reads[3] = r] :
        k \in {"wait", "detached"}, g \in {"none", "trigger"},
        t \in {{}, {2}}, f \in {{}, {3}}, r \in {{}, {2}}}
    \cup {[Plain(3) EXCEPT !.kind = << "action", "waited", "action" >>,
                           !.reads = << {}, r, {1} >>, !.guard[2] = g, !.deps[1] = c] :
        r \in SUBSET {1}, g \in {"none", "trigger"}, c \in SUBSET {2}}

Workflows == Fans \cup Branching \cup Pausing

\* The branches of the conditions are swapped; or the dependencies are dropped,
\* and each condition that was switched off is switched on, and the reverse.
Edited(d) ==
    {[d EXCEPT !.onTrue = d.onFalse, !.onFalse = d.onTrue],
     [d EXCEPT !.deps = [t \in Tasks(d) |-> {}],
               !.disabled = Conditions(d) \ d.disabled]} \ {d}

\* A sub-workflow that is waited for behind a condition, with an action it may
\* exclude or that reads the sub-workflow's result.
Subs ==
    {[Plain(3) EXCEPT !.kind = << "condition", "waited", "action" >>, !.guard[1] = "trigger",
                      !.onTrue[1] = t, !.onFalse[1] = f, !.reads[3] = r] :
        t \in {{}, {2}}, f \in {{}, {3}}, r \in {{}, {2}}}

NoEdits(d) == {}
================================================================================
