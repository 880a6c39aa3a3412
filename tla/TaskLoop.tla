------------------------------- MODULE TaskLoop -------------------------------
(* One run's tasks (src/workflow/internal/engine: runTasksFrom, the concurrent *)
(* runs of executeConcurrentRun, waits, sub-workflows, a cancel) and a second  *)
(* run that resumes it from what was recorded (replay.go).                     *)
(*                                                                             *)
(* Main is the goroutine of the run; each task it sends off runs in one of its *)
(* own.  What main does between two looks at the run's context, or at the      *)
(* results of the tasks it waits for, is one step.                             *)
EXTENDS TaskGraph

CONSTANTS
    Definitions,     \* the workflow definitions a run may be of
    Edits(_),        \* Edits(d): what d may have been edited to before a resume
    MaxConcurrent,   \* maxConcurrentTasks
    MaxFails         \* bound: how many tasks of a workflow fail

ASSUME DefinitionsAssumption == \A d \in Definitions : IsDefinition(d)
\* An edit keeps the tasks' places, and guards none that was not: luck is drawn
\* for the guards there are.
ASSUME EditsAssumption ==
    \A d \in Definitions : \A e \in Edits(d) :
        /\ IsDefinition(e) /\ Tasks(e) = Tasks(d)
        /\ \A t \in Tasks(e) : e.guard[t] # "none" => d.guard[t] # "none"
ASSUME BoundsAssumption == MaxConcurrent \in Nat \ {0} /\ MaxFails \in Nat

VARIABLES
    def,       \* the definition the run executes
    luck,      \* how guards, conditions and tasks turn out: [verdict, fails]
    pc,        \* where main is
    deps,      \* the graph's enforced dependencies
    order,     \* executionOrder
    at,        \* position in order
    skipped,   \* skippedTasks
    exports,   \* taskExports: the tasks that have exports
    entry,     \* execution.Tasks: the status of each task
    steps,     \* the steps recorded, in order
    sent,      \* toRun: the tasks main has sent off and waits for, in order
    flight,    \* their goroutines
    collected, \* results main has received, and whether each is a success
    cancel,    \* the run's context is done
    status,    \* the run's status
    resumed,   \* "no": the original run; "here": a resume of it; "edited": of an edit
    restored,  \* what a resume took from the original run's steps, by task
    results    \* and the conditions they record as true

vars == <<def, luck, pc, deps, order, at, skipped, exports, entry, steps, sent,
          flight, collected, cancel, status, resumed, restored, results>>

runVars  == <<def, luck, deps, order, resumed, restored, results>>
taskVars == <<sent, flight, collected>>

Entries == {"none", "running", "waiting", "success", "failed", "skipped", "cancelled"}
Settled == {"completed", "failed", "cancelled"}
Flights == {"none", "spawned", "ok", "failed"}

NoneOf(d, value) == [t \in Tasks(d) |-> value]

(***************************************************************************)
(* What a task comes to                                                    *)
(***************************************************************************)
\* ConditionTask.Evaluate: an expression over a task without exports fails.
Verdict(d, t, known) ==
    IF d.guard[t] = "none" THEN "true"
    ELSE IF d.guard[t] = "exports" /\ ~(d.reads[t] \subseteq known) THEN "error"
    ELSE luck.verdict[t]

\* executeTask: parameters that mention a task without exports do not resolve.
Succeeds(d, t, known) == t \notin luck.fails /\ d.reads[t] \subseteq known

\* What settleCondition settles c with, and records; false if it is disabled.
Result(d, c) == c \notin d.disabled /\ luck.verdict[c] = "true"

\* GetBranchTasks, of the branch that the result excludes.
ExcludedBy(d, c, result) == IF result THEN d.onFalse[c] ELSE d.onTrue[c]

\* The branch of c that is not taken: the result of a condition before the step
\* a run was resumed from is the one that was recorded.
NotTaken(d, c) ==
    ExcludedBy(d, c, IF c \in DOMAIN restored THEN c \in results ELSE Result(d, c))

\* What runTasksFrom decides before it sends a task off, in its order.
Decision(d, t, out, known) ==
    CASE t \in out -> "excluded"
      [] t \notin out /\ t \in d.disabled -> "disabled"
      [] t \notin out /\ t \notin d.disabled -> Verdict(d, t, known)

\* Mutant: a condition that is itself skipped leaves its branches alone.
ExcludesNothingNested(d, t, decision) ==
    IF t \notin Conditions(d) \/ decision = "excluded" THEN {} ELSE NotTaken(d, t)

\* settleCondition and skipBranchesOfSkippedCondition: what settling t excludes.
Excludes(d, t, decision) ==
    IF t \notin Conditions(d) THEN {}
    ELSE IF decision = "excluded" THEN Branches(d, t) ELSE NotTaken(d, t)

Step(t, outcome, index) == [task |-> t, status |-> outcome, index |-> index]

(***************************************************************************)
(* Main                                                                    *)
(***************************************************************************)
Init ==
    /\ def \in Definitions
    /\ luck \in [verdict : [{t \in Tasks(def) : def.guard[t] # "none"} -> {"true", "false", "error"}],
                 fails : {f \in SUBSET (Tasks(def) \ Conditions(def)) : Cardinality(f) <= MaxFails}]
    /\ pc = "graph" /\ status = "running" /\ cancel = FALSE
    /\ deps = IF Sound(def) THEN Dependencies(def) ELSE Declared(def)
    /\ order = IF Sound(def) THEN ExecutionOrder(def, deps) ELSE << >>
    /\ at = 1
    /\ skipped = {} /\ exports = {} /\ entry = NoneOf(def, "none") /\ steps = << >>
    /\ sent = << >> /\ flight = NoneOf(def, "none") /\ collected = {}
    /\ resumed = "no" /\ restored = [t \in {} |-> ""] /\ results = {}

\* setExecutionStatus: a cancel that was accepted is the outcome.
Settle(outcome) ==
    /\ status' = IF cancel THEN "cancelled" ELSE outcome
    /\ pc' = "settled"

\* runExecution: the definition has an order, or the run fails.  Both are a
\* function of the definition alone, and so they are there from the start.
BuildGraph ==
    /\ pc = "graph"
    /\ IF Sound(def) THEN pc' = "look" /\ UNCHANGED status ELSE Settle("failed")
    /\ UNCHANGED <<runVars, at, skipped, exports, entry, steps, taskVars, cancel>>

\* The head of the loop: stopIfCancelled, or the end of the tasks.
Look ==
    /\ pc = "look"
    /\ CASE at > Len(order) -> Settle("completed")
         [] at <= Len(order) /\ cancel -> Settle("cancelled")
         [] at <= Len(order) /\ ~cancel -> pc' = "step" /\ UNCHANGED status
    /\ UNCHANGED <<runVars, at, skipped, exports, entry, steps, taskVars, cancel>>

Here == order[at]
HereIs(kinds) == pc = "step" /\ def.kind[Here] \in kinds
HereDecides(decisions) == Decision(def, Here, skipped, exports) \in decisions

\* A task settles without being sent off: recorded, with the branches it
\* excludes, and the loop goes on unless it failed.
SettleHere(outcome, index) ==
    /\ entry' = [entry EXCEPT ![Here] = outcome]
    /\ steps' = Append(steps, Step(Here, outcome, index))
    /\ IF outcome = "failed" THEN Settle("failed") /\ UNCHANGED at
                             ELSE pc' = "look" /\ at' = at + 1 /\ UNCHANGED status
    /\ UNCHANGED <<runVars, taskVars, cancel>>

\* A task on a branch not taken, and a disabled or unwanted one, is skipped; an
\* action's guard is looked at by SendOff.
SkipTask ==
    /\ \/ HereIs({"action"}) /\ HereDecides({"excluded"})
       \/ HereIs({"condition"}) /\ HereDecides({"excluded"})
       \/ HereIs({"wait", "detached", "waited"}) /\ HereDecides({"excluded", "disabled", "false"})
    /\ skipped' = skipped \cup Excludes(def, Here, Decision(def, Here, skipped, exports))
    /\ SettleHere("skipped", at)
    /\ UNCHANGED exports

FailGuard ==
    /\ HereIs({"condition", "wait", "detached", "waited"}) /\ HereDecides({"error"})
    /\ SettleHere("failed", at)
    /\ UNCHANGED <<skipped, exports>>

SettleCondition ==
    /\ HereIs({"condition"}) /\ HereDecides({"true", "false", "disabled"})
    /\ skipped' = skipped \cup Excludes(def, Here, Decision(def, Here, skipped, exports))
    /\ exports' = exports \cup {Here}
    /\ SettleHere("success", at)

\* cancelPendingTask and settleCancelled.
Abandon(t, index) ==
    /\ entry' = [entry EXCEPT ![t] = "cancelled"]
    /\ steps' = Append(steps, Step(t, "cancelled", index))
    /\ Settle("cancelled")

(***************************************************************************)
(* Actions, alone or together                                              *)
(***************************************************************************)
Planned == RunEnd(def, deps, order, at, skipped, MaxConcurrent)

\* The first of the tasks from position at to e whose guard fails, else e.
GuardEnd(e) ==
    Least({i \in at..e : i = e \/ Decision(def, order[i], skipped, exports) = "error"})

\* The positions from..to - 1 that are in S, in order.
Ascending(from, to, S) ==
    LET found[i \in 0..(to - from)] ==
          IF i = 0 THEN << >>
          ELSE IF from + i - 1 \in S THEN Append(found[i - 1], from + i - 1) ELSE found[i - 1]
    IN  found[to - from]

\* executeConcurrentRun, and the loop body for a run of one: every guard is
\* looked at, in order, before any task is sent off.  A guard that fails fails
\* the run there, and leaves the entries of the tasks before it as they are.
SendOff ==
    /\ HereIs({"action"}) /\ ~HereDecides({"excluded"})
    /\ LET e == GuardEnd(Planned)
           deciding(as) == {i \in at..(e - 1) : Decision(def, order[i], skipped, exports) \in as}
           unwanted == deciding({"false", "disabled"})
           wanted == deciding({"true"})
           skips == Ascending(at, e, unwanted)
           starts == Ascending(at, e, wanted)
           bad == IF e < Planned THEN << Step(order[e], "failed", e) >> ELSE << >>
           tasksAt(positions) == {order[i] : i \in positions}
       IN  /\ entry' = [t \in Tasks(def) |->
                          CASE t \in tasksAt(unwanted) -> "skipped"
                            [] t \in tasksAt(wanted) -> "running"
                            [] e < Planned /\ t = order[e] -> "failed"
                            [] OTHER -> entry[t]]
           /\ steps' = steps \o [i \in 1..Len(skips) |-> Step(order[skips[i]], "skipped", skips[i])] \o bad
           /\ IF e < Planned
              THEN Settle("failed") /\ UNCHANGED <<at, sent, flight>>
              ELSE /\ UNCHANGED status
                   /\ IF wanted = {}
                      THEN pc' = "look" /\ at' = Planned /\ UNCHANGED <<sent, flight>>
                      ELSE /\ pc' = "collect" /\ UNCHANGED at
                           /\ sent' = [i \in 1..Len(starts) |-> order[starts[i]]]
                           /\ flight' = [t \in Tasks(def) |->
                                           IF t \in tasksAt(wanted) THEN "spawned" ELSE "none"]
    /\ UNCHANGED <<runVars, skipped, exports, collected, cancel>>

\* The task's goroutine reads the exports, runs the task and delivers what came
\* of it: to main, or to nobody once main has stopped waiting.
TaskReturns(t) ==
    /\ flight[t] = "spawned"
    /\ flight' = [flight EXCEPT ![t] = IF Succeeds(def, t, exports) THEN "ok" ELSE "failed"]
    /\ UNCHANGED <<runVars, pc, at, skipped, exports, entry, steps, sent, collected, cancel, status>>

Sent == {sent[i] : i \in 1..Len(sent)}

\* Main takes the results one by one as they come, or sees the cancel first.
Collect(t) ==
    /\ pc = "collect" /\ t \in Sent \ collected /\ flight[t] \in {"ok", "failed"}
    /\ collected' = collected \cup {t}
    /\ pc' = IF collected' = Sent THEN "apply" ELSE pc
    /\ UNCHANGED <<runVars, at, skipped, exports, entry, steps, sent, flight, cancel, status>>

\* Mutant: only a task that runs alone is left by a cancel.
StopCollectingAlone ==
    /\ pc = "collect" /\ cancel /\ Len(sent) = 1
    /\ pc' = "apply"
    /\ UNCHANGED <<runVars, at, skipped, exports, entry, steps, taskVars, cancel, status>>

StopCollecting ==
    /\ pc = "collect" /\ cancel
    /\ pc' = "apply"
    /\ UNCHANGED <<runVars, at, skipped, exports, entry, steps, taskVars, cancel, status>>

\* How many of the tasks sent off have been applied: they are recorded.
Recorded == {steps[i].task : i \in 1..Len(steps)}
\* Mutant: a task whose result did not come is not settled.
UnappliedResults == {i \in 1..Len(sent) : sent[i] \in collected \ Recorded}

Unapplied == {i \in 1..Len(sent) : sent[i] \notin Recorded}

\* Mutant: an off-by-one.
PositionFromOne(i) == at + i

\* The position recorded: run.Start + i counts from the first task of the run, and
\* i counts the tasks sent off, not the skipped ones among them.
Position(i) == at + i - 1

\* One outcome is applied, in declaration order.
ApplyOutcome ==
    /\ pc = "apply" /\ Unapplied # {}
    /\ LET i == Least(Unapplied)
           t == sent[i]
           outcome == IF t \notin collected THEN "cancelled"
                      ELSE IF flight[t] = "ok" THEN "success" ELSE "failed"
       IN  /\ entry' = [entry EXCEPT ![t] = outcome]
           /\ steps' = Append(steps, Step(t, outcome, Position(i)))
           /\ exports' = IF outcome = "success" THEN exports \cup {t} ELSE exports
    /\ UNCHANGED <<runVars, pc, at, skipped, taskVars, cancel, status>>

\* Main was cut short, or a task failed, or the loop goes on after the run.
EndRun ==
    /\ pc = "apply" /\ Unapplied = {}
    /\ CASE ~(Sent \subseteq collected) -> Settle("cancelled") /\ UNCHANGED <<at>>
         [] Sent \subseteq collected /\ (\E t \in Sent : flight[t] = "failed") ->
                Settle("failed") /\ UNCHANGED at
         [] Sent \subseteq collected /\ (\A t \in Sent : flight[t] = "ok") ->
                pc' = "look" /\ at' = Planned /\ UNCHANGED status
    /\ sent' = << >> /\ collected' = {}
    /\ UNCHANGED <<runVars, skipped, exports, entry, steps, flight, cancel>>

(***************************************************************************)
(* Waits and sub-workflows: main returns, and whoever claims the paused run *)
(* drives it on                                                            *)
(***************************************************************************)
Pause ==
    /\ entry' = [entry EXCEPT ![Here] = "waiting"]
    /\ pc' = "paused"
    /\ UNCHANGED <<steps, status>>

\* handleWaitTask: a run whose context is done is refused the wait.
StartWait ==
    /\ HereIs({"wait"}) /\ HereDecides({"true"}) /\ entry[Here] # "waiting"
    /\ IF cancel THEN Abandon(Here, at) ELSE Pause
    /\ UNCHANGED <<runVars, at, skipped, exports, taskVars, cancel>>

\* An event, the timer or the delay claims the wait: resumeWait enters the loop
\* again at the wait.
WaitClaimed ==
    /\ pc = "paused" /\ def.kind[Here] = "wait"
    /\ pc' = "look"
    /\ UNCHANGED <<runVars, at, skipped, exports, entry, steps, taskVars, cancel, status>>

\* The wait was satisfied, or timed out and goes on, or timed out and fails.
SettleWait ==
    /\ HereIs({"wait"}) /\ HereDecides({"true"}) /\ entry[Here] = "waiting"
    /\ exports' = IF Here \in luck.fails THEN exports ELSE exports \cup {Here}
    /\ SettleHere(IF Here \in luck.fails THEN "failed" ELSE "success", at)
    /\ UNCHANGED skipped

\* A sub-workflow that is not waited for is started, or cannot be.
StartDetached ==
    /\ HereIs({"detached"}) /\ HereDecides({"true"})
    /\ LET starts == Succeeds(def, Here, exports)
       IN  /\ exports' = IF starts THEN exports \cup {Here} ELSE exports
           /\ SettleHere(IF starts THEN "success" ELSE "failed", at)
    /\ UNCHANGED skipped

\* One that is waited for: what it is to run may not resolve, and the run may
\* have been cancelled while it was started.
StartWaited ==
    /\ HereIs({"waited"}) /\ HereDecides({"true"})
    /\ IF ~(def.reads[Here] \subseteq exports)
       THEN SettleHere("failed", at)
       ELSE /\ IF cancel THEN Abandon(Here, at) ELSE Pause
            /\ UNCHANGED <<runVars, at, taskVars, cancel>>
    /\ UNCHANGED <<skipped, exports>>

\* resumeSubWorkflowExecution, through executeTasksFromIndex: the loop starts at
\* the next task with no skipped branches, and without the task's exports.
ChildSettles ==
    /\ pc = "paused" /\ def.kind[Here] = "waited"
    /\ skipped' = IF Here \in luck.fails THEN skipped ELSE {}
    /\ SettleHere(IF Here \in luck.fails THEN "failed" ELSE "success", at)
    /\ UNCHANGED exports

(***************************************************************************)
(* Cancel                                                                  *)
(***************************************************************************)
Cancel ==
    /\ pc # "settled" /\ ~cancel
    /\ cancel' = TRUE
    /\ UNCHANGED <<runVars, pc, at, skipped, exports, entry, steps, taskVars, status>>

\* abandonRun claims a paused run and settles it.
ClaimPaused ==
    /\ pc = "paused" /\ cancel
    /\ Abandon(Here, at)
    /\ UNCHANGED <<runVars, at, skipped, exports, taskVars, cancel>>

(***************************************************************************)
(* Resuming from a step of a recorded run: planResume                      *)
(***************************************************************************)
Outcome(t) == steps[CHOOSE i \in 1..Len(steps) :
                        steps[i].task = t /\ \A j \in (i + 1)..Len(steps) : steps[j].task # t].status

\* What is skipped once the first k tasks of ord are restored, for each k: by
\* what was recorded, the result of a condition included, which is the one it had
\* in the run that recorded it, whatever d makes of it.
RestoredSkips(d, ord) ==
    LET upTo[k \in 0..Len(ord)] ==
          IF k = 0 THEN {}
          ELSE LET t == ord[k]
                   out == upTo[k - 1]
               IN  IF t \in out \/ (t \in Recorded /\ Outcome(t) = "skipped")
                   THEN out \cup {t} \cup Branches(d, t)
                   ELSE out \cup (IF t \in Conditions(d) THEN ExcludedBy(d, t, Result(def, t)) ELSE {})
    IN  upTo

\* Every step before the start that is not on an excluded branch was recorded
\* as a success or as skipped, a condition that succeeded with its result, which
\* a task that was none has not.
MayResume(d, ord, start) ==
    \A i \in 1..(start - 1) :
        \/ ord[i] \in RestoredSkips(d, ord)[i - 1]
        \/ ord[i] \in Recorded /\ Outcome(ord[i]) = "skipped"
        \/ /\ ord[i] \in Recorded /\ Outcome(ord[i]) = "success"
           /\ ord[i] \in Conditions(d) => ord[i] \in Conditions(def)

\* The outputs of a sub-workflow that was waited for were not recorded.
Resume(d, start) ==
    /\ pc = "settled" /\ resumed = "no" /\ Sound(d)
    /\ LET ord == ExecutionOrder(d, Dependencies(d))
           out == RestoredSkips(d, ord)[start - 1]
           before == {ord[i] : i \in 1..(start - 1)}
       IN  /\ MayResume(d, ord, start)
           /\ deps' = Dependencies(d) /\ order' = ord
           /\ skipped' = out
           /\ restored' = [t \in before |-> IF t \in out THEN "skipped" ELSE "success"]
           /\ exports' = {t \in before : /\ restored'[t] = "success"
                                         /\ def.kind[t] # "waited"}
           /\ results' = {c \in before \cap Conditions(d) : Result(def, c)}
    /\ def' = d /\ at' = start /\ pc' = "look" /\ status' = "running" /\ cancel' = FALSE
    /\ entry' = NoneOf(d, "none") /\ steps' = << >>
    /\ sent' = << >> /\ flight' = NoneOf(d, "none") /\ collected' = {}
    /\ resumed' = IF d = def THEN "here" ELSE "edited"
    /\ UNCHANGED luck

Main ==
    \/ BuildGraph \/ Look \/ SkipTask \/ FailGuard \/ SettleCondition \/ SendOff
    \/ StopCollecting \/ ApplyOutcome \/ EndRun
    \/ StartWait \/ SettleWait \/ StartDetached \/ StartWaited \/ ClaimPaused
    \/ \E t \in Tasks(def) : Collect(t)

Next ==
    \/ Main
    \/ \E t \in Tasks(def) : TaskReturns(t)
    \/ WaitClaimed \/ ChildSettles \/ Cancel
    \/ \E d \in {def} \cup Edits(def) : \E start \in Tasks(def) : Resume(d, start)

Spec == Init /\ [][Next]_vars

\* Main runs on.  A task may never return, and a paused run may never be claimed.
FairSpec == Spec /\ WF_vars(Main)

(***************************************************************************)
(* Properties                                                              *)
(***************************************************************************)
\* Each part of the run is of its type, and the number recorded with a step is a
\* position of the order; RecordsAll says which.
TypeOK ==
    /\ IsDefinition(def) /\ luck.fails \subseteq Tasks(def)
    /\ pc \in {"graph", "look", "step", "collect", "apply", "paused", "settled"}
    /\ deps \in [Tasks(def) -> SUBSET Tasks(def)]
    /\ order \in Seq(Tasks(def)) /\ at \in 1..(Len(def.kind) + 1)
    /\ skipped \subseteq Tasks(def) /\ exports \subseteq Tasks(def)
    /\ entry \in [Tasks(def) -> Entries]
    /\ \A i \in 1..Len(steps) : /\ steps[i].task \in Tasks(def)
                                 /\ steps[i].index \in 1..Len(order)
    /\ Sent \subseteq Tasks(def) /\ flight \in [Tasks(def) -> Flights]
    /\ collected \subseteq Sent /\ cancel \in BOOLEAN
    /\ status \in {"running"} \cup Settled /\ (status = "running") = (pc # "settled")
    /\ resumed \in {"no", "here", "edited"} /\ DOMAIN restored \subseteq Tasks(def)
    /\ results \subseteq DOMAIN restored

Done(t) == entry[t] \in {"success", "skipped"} \/ t \in DOMAIN restored
Started(t) == entry[t] \notin {"none", "skipped"}
SettledCondition(c) ==
    c \in Conditions(def) /\ (entry[c] = "success" \/ (c \in DOMAIN restored /\ restored[c] = "success"))

\* Everything under a branch not taken, at any depth.
Excluded(c) ==
    NotTaken(def, c) \cup UNION {Under(def, m) : m \in NotTaken(def, c)}

\* A task under a branch that was not taken never starts, however deep it is
\* nested, and neither does it in a run resumed from a later step.
BranchesStayOut ==
    \A c \in Tasks(def) : SettledCondition(c) => \A t \in Excluded(c) : ~Started(t)

\* A task starts once everything it waits for has finished or been skipped: what
\* it declares, the condition it is a branch of, and, after a condition it
\* follows, the branches that do not wait for it.
WaitsForItsOwn ==
    \A t \in Tasks(def) : Started(t) =>
        /\ \A s \in Declared(def)[t] : Done(s)
        /\ \A c \in Conditions(def) :
              t \notin Under(def, c) /\ def.deps[t] \cap (Under(def, c) \cup {c}) # {} =>
                  \A s \in Under(def, c) : t \in Reach(deps, s) \/ Done(s)

\* A task that is not to fail works if what it reads is known; a wait reads nothing.
Works(t, known) == t \notin luck.fails /\ (def.kind[t] = "wait" \/ def.reads[t] \subseteq known)

\* What a task comes to when no other runs.
Comes(t, decision, known) ==
    CASE decision = "error" -> "failed"
      [] decision = "excluded" -> "skipped"
      [] t \in Conditions(def) /\ decision \in {"true", "false", "disabled"} -> "success"
      [] t \notin Conditions(def) /\ decision \in {"false", "disabled"} -> "skipped"
      [] t \notin Conditions(def) /\ decision = "true" ->
           IF Works(t, known) THEN "success" ELSE "failed"

\* The run with one task at a time, each seeing what those before it exported:
\* where it is once t has run as well.
AloneNext(s, t) ==
    LET decision == Decision(def, t, s.out, s.known)
        came == Comes(t, decision, s.known)
    IN  IF s.ends = "failed" THEN s
        ELSE [out |-> s.out \cup Excludes(def, t, decision),
              known |-> IF came = "success" THEN s.known \cup {t} ELSE s.known,
              came |-> [s.came EXCEPT ![t] = came],
              ends |-> IF came = "failed" THEN "failed" ELSE "completed"]

\* Where it is after the first k tasks, for each k.
Alone ==
    LET after[k \in 0..Len(order)] ==
          IF k = 0 THEN [out |-> {}, known |-> {}, came |-> NoneOf(def, "none"), ends |-> "completed"]
                   ELSE AloneNext(after[k - 1], order[k])
    IN  after

\* Whatever order tasks finish in, and from whichever step the run is resumed,
\* it ends as it would one task at a time, and so does every task that both
\* finish.
EndsAlike ==
    pc = "settled" /\ status # "cancelled" /\ Sound(def) /\ resumed # "edited" =>
        LET alone == Alone[Len(order)]
        IN  /\ status = alone.ends
            /\ \A i \in 1..Len(steps) :
                  alone.came[steps[i].task] \in {"none", steps[i].status}

SkippedAt(p) == \E i \in 1..Len(steps) : steps[i].task = order[p] /\ steps[i].status = "skipped"

\* "The task's position in the execution order" (WorkflowExecutionStep), but
\* behind a task that was skipped: there a smaller number may be recorded, which
\* is then that of another task.
AtItsPosition(step) ==
    \E p \in 1..Len(order) :
        /\ order[p] = step.task /\ step.index <= p
        /\ step.index < p => \E q \in 1..(p - 1) : SkippedAt(q)

\* Once a run has settled, each task it sent off is recorded, once, and each
\* task at all if the run completed; each at its position, as far as the code
\* keeps to that.
RecordsAll ==
    /\ \A i \in 1..Len(steps) : AtItsPosition(steps[i])
    /\ \A i, j \in 1..Len(steps) : steps[i].task = steps[j].task => i = j
    /\ pc = "settled" => \A t \in Tasks(def) : flight[t] # "none" => t \in Recorded
    /\ status = "completed" => Tasks(def) = Recorded \cup DOMAIN restored

\* A cancelled run settles though its tasks never return.
CancelEnds == cancel ~> pc = "settled"

\* The exports are not written while a task that was sent off has yet to read
\* them.
ReadsUndisturbed ==
    [][exports' # exports /\ pc # "settled" => \A t \in Tasks(def) : flight[t] # "spawned"]_vars
================================================================================
