----------------------------- MODULE MCEngineRuns -----------------------------
(* Small instances of EngineRuns for TLC. *)
EXTENDS EngineRuns, TLC

CONSTANTS parent, child, first, second

\* A parent waits on a sub-workflow that pauses at a wait, and then calls an
\* action.
FamilySteps == parent :> << "workflow", "action" >> @@ child :> << "wait" >>

\* A run starts another without waiting for it, and both go on.
DetachedSteps == parent :> << "detached", "wait" >> @@ child :> << "action" >>

\* Two ordered runs, of which the first pauses at a wait.
QueueSteps == first :> << "wait" >> @@ second :> << >>
QueueOrder == << first, second >>
NoQueue == << >>
===============================================================================
