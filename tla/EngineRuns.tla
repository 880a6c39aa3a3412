------------------------------ MODULE EngineRuns ------------------------------
(* Run lifetimes in the workflow engine (src/workflow/internal/engine): how a  *)
(* run begins, pauses at a wait or a sub-workflow, is resumed, cancelled,      *)
(* queued behind other runs, abandoned by Stop, settled, recorded and evicted. *)
(*                                                                             *)
(* The engine's goroutines are the threads here. A thread is the stack of      *)
(* calls it still has to make, innermost first, and a step of it is one        *)
(* critical section of the code: whatever the code does between taking and     *)
(* releasing a lock is one step, and other threads run between two steps.      *)
EXTENDS Integers, Sequences, FiniteSets

CONSTANTS
    Runs,            \* run ids: a run that has not begun is an id not yet drawn
    TopLevel,        \* the runs a trigger or a manual request starts at once
    Queue,           \* the runs one event's ordered workflows start, in turn order
    Cancels,         \* bound: the runs callers ask to cancel
    Steps,           \* Steps[r] is the definition of run r: a sequence of step kinds
    MaxSettledRuns,  \* retention: how many settled runs the table keeps
    MaxEvictions     \* bound: how many runs the sweep evicts in a behaviour

StepKinds == {"action", "wait", "workflow", "detached"}
Queued == {Queue[i] : i \in 1..Len(Queue)}
SubRuns == Runs \ (TopLevel \cup Queued)

ASSUME RunsAssumption ==
    /\ IsFiniteSet(Runs)
    /\ TopLevel \subseteq Runs /\ Cancels \subseteq Runs
    /\ Queue \in Seq(Runs \ TopLevel)
    /\ \A i, j \in 1..Len(Queue) : Queue[i] = Queue[j] => i = j
ASSUME StepsAssumption == Steps \in [Runs -> Seq(StepKinds)]
ASSUME RetentionAssumption == MaxSettledRuns \in Nat \ {0} /\ MaxEvictions \in Nat

Outcomes == {"completed", "failed", "cancelled"}

\* A run's own goroutines (a second one only if the engine lets two drive the
\* same run at once), the API's cancel requests, Stop, and the ordered queue.
Threads == (Runs \X {1, 2}) \cup {<<"api", 0>>, <<"stop", 0>>, <<"queue", 0>>}
API     == <<"api", 0>>
Stopper == <<"stop", 0>>
Queuer  == <<"queue", 0>>

VARIABLES
    table,      \* runTable: the runs the engine holds in memory
    begun,      \* every run ever put in the table
    control,    \* runControl of each run
    status,     \* execution.Status
    armed,      \* armedWaits: [run, at] of each wait nobody has claimed
    waiters,    \* subWorkflowWaiters: [child, parent, at]
    stack,      \* what each thread has yet to do
    settling,   \* Engine.settling
    stopping,   \* Engine.ctx is done
    stop,       \* where Stop is, the runs it has yet to abandon, and whether its
                \* last look found none unsettled (seen: the runs it looked at then)
    stamped,    \* the settled runs in the order they were stamped (settledAt)
    recorded,   \* outcomes announced and handed to the recorder, per run
    returned,   \* queued runs whose first goroutine has returned
    overran     \* queued runs whose turn ran out and that have not returned since

vars == <<table, begun, control, status, armed, waiters, stack, settling,
          stopping, stop, stamped, recorded, returned, overran>>

runVars   == <<table, begun, control, status>>
pauseVars == <<armed, waiters>>
stopVars  == <<stopping, stop>>
turnVars  == <<returned, overran>>
endVars   == <<settling, stamped, recorded>>

None == "none"

NewControl(queued) ==
    [settled |-> FALSE, final |-> None, byStop |-> FALSE, cancelRequested |-> FALSE,
     stopped |-> FALSE, queued |-> queued, done |-> FALSE]

Controls == [settled : BOOLEAN, final : Outcomes \cup {None}, byStop : BOOLEAN,
             cancelRequested : BOOLEAN, stopped : BOOLEAN, queued : BOOLEAN,
             done : BOOLEAN]

Statuses == {"running", "waiting"} \cup Outcomes

(***************************************************************************)
(* Calls.  A frame is a call still to be made, about one run.              *)
(***************************************************************************)
Frame(op, r, arg) == [op |-> op, run |-> r, arg |-> arg]

\* Mutant: the parent is told before there is an outcome to read.
SettleReleasingFirst(r, outcome) ==
    << Frame("release", r, None), Frame("count", r, outcome) >>

\* setExecutionStatus with an outcome, then checkSubWorkflowCompletion: every
\* path that ends a run makes the two calls in this order.
Settle(r, outcome) == << Frame("count", r, outcome), Frame("release", r, None) >>

\* The outcome of a run refused a wait: failed, with errEngineStopped.
EngineStopped == "engine stopped"

Idle(t) == stack[t] = << >>
Top(t) == Head(stack[t])
At(t, op) == ~Idle(t) /\ Top(t).op = op

\* What the stack is once thread t has made its innermost call, which goes on
\* to make the calls in frames first.
Continue(t, frames) == [stack EXCEPT ![t] = frames \o Tail(@)]

\* A goroutine of run r added to the stacks st.
Spawn(st, r, frames) ==
    IF st[<<r, 1>>] = << >> THEN [st EXCEPT ![<<r, 1>>] = frames]
                            ELSE [st EXCEPT ![<<r, 2>>] = frames]

MarkStopped(r) ==
    control' = [control EXCEPT ![r].stopped = @ \/ ~control[r].settled]

\* Thread t, Stop or the ordered queue of a stopping engine, gives up on run r:
\* a run given up on before, or settled, is passed over.
GiveUp(t, r, rest) ==
    /\ MarkStopped(r)
    /\ stack' = [stack EXCEPT ![t] =
                    IF control[r].stopped \/ control[r].settled
                    THEN rest ELSE << Frame("abandon", r, None) >> \o rest]

(***************************************************************************)
(* Beginning runs                                                          *)
(***************************************************************************)
\* beginRun: a run of a fresh id is registered, announced and recorded as
\* started.
Put(r, queued) ==
    /\ r \notin begun
    /\ table' = table \cup {r}
    /\ begun' = begun \cup {r}
    /\ control' = [control EXCEPT ![r] = NewControl(queued)]
    /\ status' = [status EXCEPT ![r] = "running"]

\* A trigger's event or a manual request starts a run.  Not guarded by
\* stopping: HandleEvent checks it before, and RunManual never does.
Begin(r) ==
    /\ Put(r, FALSE)
    /\ stack' = Spawn(stack, r, << Frame("run", r, 1) >>)
    /\ UNCHANGED <<pauseVars, endVars, stopVars, turnVars>>

\* An event that triggers the ordered workflows: queueInOrder begins each run, in
\* order, and then the goroutine of executeInOrder takes them in turn.
OrderedEvent ==
    /\ Idle(Queuer)
    /\ Queued \cap begun = {} /\ Queue # << >>
    /\ stack' = [stack EXCEPT ![Queuer] = << Frame("enqueue", Queue[1], 1) >>]
    /\ UNCHANGED <<runVars, pauseVars, endVars, stopVars, turnVars>>

Turns == [i \in 1..Len(Queue) |-> Frame("turn", Queue[i], None)]

Enqueue(t) ==
    /\ At(t, "enqueue")
    /\ Put(Top(t).run, TRUE)
    /\ LET i == Top(t).arg IN
         stack' = Continue(t, IF i < Len(Queue)
                              THEN << Frame("enqueue", Queue[i + 1], i + 1) >>
                              ELSE Turns)
    /\ UNCHANGED <<pauseVars, endVars, stopVars, turnVars>>

(***************************************************************************)
(* The ordered queue                                                       *)
(***************************************************************************)
\* A stopping engine starts nothing more: this run and the rest are abandoned.
TurnRefused(t) ==
    /\ At(t, "turn") /\ stopping
    /\ GiveUp(t, Top(t).run, Tail(stack[t]))
    /\ UNCHANGED <<table, begun, status, pauseVars, endVars, stopVars, turnVars>>

\* startQueued refuses a run cancelled or abandoned while it waited; whoever
\* did that settles it.
TurnSkipped(t) ==
    /\ At(t, "turn") /\ ~stopping
    /\ LET c == control[Top(t).run] IN c.settled \/ c.cancelRequested \/ c.stopped
    /\ stack' = Continue(t, << >>)
    /\ UNCHANGED <<runVars, pauseVars, endVars, stopVars, turnVars>>

\* Mutant: the queue does not wait for the run it started.
TurnStartsUnawaited(t) ==
    /\ At(t, "turn") /\ ~stopping
    /\ LET r == Top(t).run IN
         /\ ~(control[r].settled \/ control[r].cancelRequested \/ control[r].stopped)
         /\ control' = [control EXCEPT ![r].queued = FALSE]
         /\ stack' = Spawn(Continue(t, << >>), r,
                           << Frame("run", r, 1), Frame("signal", r, None) >>)
    /\ UNCHANGED <<table, begun, status, pauseVars, endVars, stopVars, turnVars>>

TurnStarts(t) ==
    /\ At(t, "turn") /\ ~stopping
    /\ LET r == Top(t).run IN
         /\ ~(control[r].settled \/ control[r].cancelRequested \/ control[r].stopped)
         /\ control' = [control EXCEPT ![r].queued = FALSE]
         /\ stack' = Spawn(Continue(t, << Frame("await", r, None) >>), r,
                           << Frame("run", r, 1), Frame("signal", r, None) >>)
    /\ UNCHANGED <<table, begun, status, pauseVars, endVars, stopVars, turnVars>>

\* awaitTurn ends when the run has returned, its turn has run out, or the
\* engine is stopping.
TurnEnds(t) ==
    /\ At(t, "await")
    /\ stack' = Continue(t, << >>)
    /\ overran' = IF Top(t).run \in returned \/ stopping THEN overran
                  ELSE overran \cup {Top(t).run}
    /\ UNCHANGED <<runVars, pauseVars, endVars, stopVars, returned>>

\* safeGoThenSignal closes the channel once the run's goroutine is done.
Signal(t) ==
    /\ At(t, "signal")
    /\ returned' = returned \cup {Top(t).run}
    /\ overran' = overran \ {Top(t).run}
    /\ stack' = Continue(t, << >>)
    /\ UNCHANGED <<runVars, pauseVars, endVars, stopVars>>

(***************************************************************************)
(* Executing tasks: runTasksFrom, one iteration at a time                  *)
(***************************************************************************)
\* A run the table no longer holds has no context to be cancelled.
RunCancelled(r) == r \in table /\ control[r].done

AtStep(t, kind) ==
    /\ At(t, "run")
    /\ ~RunCancelled(Top(t).run)
    /\ Top(t).arg <= Len(Steps[Top(t).run])
    /\ Steps[Top(t).run][Top(t).arg] = kind

\* stopIfCancelled, between two tasks.
StopIfCancelled(t) ==
    /\ At(t, "run")
    /\ RunCancelled(Top(t).run)
    /\ stack' = Continue(t, Settle(Top(t).run, "cancelled"))
    /\ UNCHANGED <<runVars, pauseVars, endVars, stopVars, turnVars>>

RunCompletes(t) ==
    /\ At(t, "run")
    /\ ~RunCancelled(Top(t).run)
    /\ Top(t).arg > Len(Steps[Top(t).run])
    /\ stack' = Continue(t, Settle(Top(t).run, "completed"))
    /\ UNCHANGED <<runVars, pauseVars, endVars, stopVars, turnVars>>

\* A loop refused, a guard that cannot be evaluated, a sub-workflow that does
\* not exist, a wait that timed out, a panic: the run fails where it is.
RunFails(t) ==
    /\ At(t, "run")
    /\ ~RunCancelled(Top(t).run)
    /\ stack' = Continue(t, Settle(Top(t).run, "failed"))
    /\ UNCHANGED <<runVars, pauseVars, endVars, stopVars, turnVars>>

\* A task whose guard is false, that is disabled, or on a branch not taken.
TaskSkipped(t) ==
    /\ \E kind \in StepKinds : AtStep(t, kind)
    /\ stack' = Continue(t, << Frame("run", Top(t).run, Top(t).arg + 1) >>)
    /\ UNCHANGED <<runVars, pauseVars, endVars, stopVars, turnVars>>

ActionStarts(t) ==
    /\ AtStep(t, "action")
    /\ stack' = Continue(t, << Frame("action", Top(t).run, Top(t).arg) >>)
    /\ UNCHANGED <<runVars, pauseVars, endVars, stopVars, turnVars>>

\* The task answers: executeTaskCancellable takes its result even when the run
\* was cancelled meanwhile, as select picks either ready case.
ActionReturns(t) ==
    /\ At(t, "action")
    /\ \/ stack' = Continue(t, << Frame("run", Top(t).run, Top(t).arg + 1) >>)
       \/ stack' = Continue(t, Settle(Top(t).run, "failed"))
    /\ UNCHANGED <<runVars, pauseVars, endVars, stopVars, turnVars>>

ActionAbandoned(t) ==
    /\ At(t, "action")
    /\ control[Top(t).run].done
    /\ stack' = Continue(t, Settle(Top(t).run, "cancelled"))
    /\ UNCHANGED <<runVars, pauseVars, endVars, stopVars, turnVars>>

(***************************************************************************)
(* Waits                                                                   *)
(***************************************************************************)
WaitReached(t) ==
    /\ AtStep(t, "wait")
    /\ status' = [status EXCEPT ![Top(t).run] = "waiting"]
    /\ stack' = Continue(t, << Frame("arm", Top(t).run, Top(t).arg) >>)
    /\ UNCHANGED <<table, begun, control, pauseVars, endVars, stopVars, turnVars>>

\* armWaitLocked: a run already cancelled, or in a stopped engine, is refused.
ArmRefused(t) ==
    /\ At(t, "arm")
    /\ LET r == Top(t).run IN
         \/ RunCancelled(r) /\ stack' = Continue(t, Settle(r, "cancelled"))
         \/ ~RunCancelled(r) /\ stopping /\ stack' = Continue(t, Settle(r, EngineStopped))
    /\ UNCHANGED <<runVars, pauseVars, endVars, stopVars, turnVars>>

\* Mutant: the wait is armed without a second look at the cancel.
ArmWaitUnchecked(t) ==
    /\ At(t, "arm")
    /\ ~stopping
    /\ armed' = armed \cup {[run |-> Top(t).run, at |-> Top(t).arg]}
    /\ stack' = Continue(t, << >>)
    /\ UNCHANGED <<runVars, waiters, endVars, stopVars, turnVars>>

ArmWait(t) ==
    /\ At(t, "arm")
    /\ ~RunCancelled(Top(t).run) /\ ~stopping
    /\ armed' = armed \cup {[run |-> Top(t).run, at |-> Top(t).arg]}
    /\ stack' = Continue(t, << >>)
    /\ UNCHANGED <<runVars, waiters, endVars, stopVars, turnVars>>

\* Mutant: the wait is resumed and left armed.
WaitEndsArmed(w) ==
    /\ stack' = Spawn(stack, w.run, << Frame("resumeWait", w.run, w.at) >>)
    /\ UNCHANGED <<runVars, pauseVars, endVars, stopVars, turnVars>>

\* The wait's event or its timer claims it and resumes the run on a goroutine
\* of its own.  An event accepted before Stop may be processed after it.
WaitEnds(w) ==
    /\ armed' = armed \ {w}
    /\ stack' = Spawn(stack, w.run, << Frame("resumeWait", w.run, w.at) >>)
    /\ UNCHANGED <<runVars, waiters, endVars, stopVars, turnVars>>

\* What is left of a resumed run's call when the run has been evicted.
IfHeld(r, frames) == IF r \in table THEN frames ELSE << >>

\* Whoever claimed the wait took it from Stop, so it is settled here.
ResumeWaitStopped(t) ==
    /\ At(t, "resumeWait") /\ stopping
    /\ MarkStopped(Top(t).run)
    /\ stack' = Continue(t, IfHeld(Top(t).run, Settle(Top(t).run, "cancelled")))
    /\ UNCHANGED <<table, begun, status, pauseVars, endVars, stopVars, turnVars>>

ResumeWait(t) ==
    /\ At(t, "resumeWait") /\ ~stopping
    /\ status' = [status EXCEPT ![Top(t).run] = "running"]
    /\ stack' = Continue(t, IfHeld(Top(t).run, << Frame("reenter", Top(t).run, Top(t).arg) >>))
    /\ UNCHANGED <<table, begun, control, pauseVars, endVars, stopVars, turnVars>>

\* runTasksFrom re-enters the wait, which applies how it ended: the run goes
\* on, or fails on a timeout.
Reenter(t) ==
    /\ At(t, "reenter")
    /\ LET r == Top(t).run IN
         \/ /\ RunCancelled(r)
            /\ stack' = Continue(t, Settle(r, "cancelled"))
         \/ /\ ~RunCancelled(r)
            /\ \/ stack' = Continue(t, << Frame("run", r, Top(t).arg + 1) >>)
               \/ stack' = Continue(t, Settle(r, "failed"))
    /\ UNCHANGED <<runVars, pauseVars, endVars, stopVars, turnVars>>

(***************************************************************************)
(* Sub-workflows                                                           *)
(***************************************************************************)
\* executeWorkflowSync: the child is begun and its goroutine started at once.
StartChild(t, c, frames) ==
    /\ c \in SubRuns \ begun
    /\ table' = table \cup {c}
    /\ begun' = begun \cup {c}
    /\ control' = [control EXCEPT ![c] = NewControl(FALSE)]
    /\ stack' = Spawn(Continue(t, frames), c, << Frame("run", c, 1) >>)
    /\ UNCHANGED <<pauseVars, endVars, stopVars, turnVars>>

\* waitUntilCompletion: the parent is marked waiting, and will register.
SubWorkflowReached(t) ==
    /\ AtStep(t, "workflow")
    /\ \E c \in SubRuns :
         /\ StartChild(t, c, << Frame("register", Top(t).run,
                                      [child |-> c, at |-> Top(t).arg]) >>)
         /\ status' = [status EXCEPT ![c] = "running", ![Top(t).run] = "waiting"]

\* Fire-and-forget.
SubWorkflowDetached(t) ==
    /\ AtStep(t, "detached")
    /\ \E c \in SubRuns :
         /\ StartChild(t, c, << Frame("run", Top(t).run, Top(t).arg + 1) >>)
         /\ status' = [status EXCEPT ![c] = "running"]

\* Mutant: the cancelled parent leaves its child running.
RegisterRefusedAlone(t) ==
    /\ At(t, "register")
    /\ RunCancelled(Top(t).run)
    /\ stack' = Continue(t, Settle(Top(t).run, "cancelled"))
    /\ UNCHANGED <<runVars, pauseVars, endVars, stopVars, turnVars>>

\* The child has started, so a parent cancelled meanwhile cancels it too.
RegisterRefused(t) ==
    /\ At(t, "register")
    /\ RunCancelled(Top(t).run)
    /\ stack' = Continue(t, << Frame("cancel", Top(t).arg.child, None) >>
                            \o Settle(Top(t).run, "cancelled"))
    /\ UNCHANGED <<runVars, pauseVars, endVars, stopVars, turnVars>>

Register(t) ==
    /\ At(t, "register")
    /\ ~RunCancelled(Top(t).run)
    /\ waiters' = waiters \cup {[child |-> Top(t).arg.child, parent |-> Top(t).run,
                                 at |-> Top(t).arg.at]}
    /\ stack' = Continue(t, << >>)
    /\ UNCHANGED <<runVars, armed, endVars, stopVars, turnVars>>

WaitersOn(c) == {w \in waiters : w.child = c}

\* checkSubWorkflowCompletion with nobody waiting, or on a run already evicted.
ReleaseNobody(t) ==
    /\ At(t, "release")
    /\ WaitersOn(Top(t).run) = {} \/ Top(t).run \notin table
    /\ waiters' = waiters \ WaitersOn(Top(t).run)
    /\ stack' = Continue(t, << >>)
    /\ UNCHANGED <<runVars, armed, endVars, stopVars, turnVars>>

ResumeWaiter(t, w) ==
    Spawn(Continue(t, << >>), w.parent,
          << Frame("resumeParent", w.parent, [child |-> w.child, at |-> w.at]) >>)

\* A child the engine abandoned takes its parent with it; any other outcome
\* resumes the parent on a goroutine of its own.
Release(t) ==
    /\ At(t, "release")
    /\ Top(t).run \in table
    /\ \E w \in WaitersOn(Top(t).run) :
         stack' = IF control[Top(t).run].byStop
                  THEN Continue(t, << Frame("abandonParent", w.parent, None) >>)
                  ELSE ResumeWaiter(t, w)
    /\ waiters' = waiters \ WaitersOn(Top(t).run)
    /\ UNCHANGED <<runVars, armed, endVars, stopVars, turnVars>>

AbandonParent(t) ==
    /\ At(t, "abandonParent")
    /\ IF Top(t).run \in table
       THEN /\ MarkStopped(Top(t).run)
            /\ stack' = Continue(t, Settle(Top(t).run, "cancelled"))
       ELSE /\ stack' = Continue(t, << >>)
            /\ UNCHANGED control
    /\ UNCHANGED <<table, begun, status, pauseVars, endVars, stopVars, turnVars>>

\* resumeSubWorkflowExecution: anything but a completed child fails the parent.
ResumeParent(t) ==
    /\ At(t, "resumeParent")
    /\ LET r == Top(t).run IN
         IF status[Top(t).arg.child] = "completed"
         THEN /\ status' = [status EXCEPT ![r] = "running"]
              /\ stack' = Continue(t, IfHeld(r, << Frame("run", r, Top(t).arg.at + 1) >>))
         ELSE /\ stack' = Continue(t, IfHeld(r, Settle(r, "failed")))
              /\ UNCHANGED status
    /\ UNCHANGED <<table, begun, control, pauseVars, endVars, stopVars, turnVars>>

(***************************************************************************)
(* Cancelling and abandoning                                               *)
(***************************************************************************)
\* Mutant: a settled run can still be cancelled.
CancellableOnce(r) == r \in table /\ ~control[r].cancelRequested

Cancellable(r) == r \in table /\ ~control[r].settled /\ ~control[r].cancelRequested

\* A cancel request that is accepted; any other changes nothing.
Cancel(r) ==
    /\ Idle(API) /\ Cancellable(r)
    /\ control' = [control EXCEPT ![r].cancelRequested = TRUE]
    /\ stack' = [stack EXCEPT ![API] = << Frame("abandon", r, "children") >>]
    /\ UNCHANGED <<table, begun, status, pauseVars, endVars, stopVars, turnVars>>

CancelChild(t) ==
    /\ At(t, "cancel")
    /\ LET c == Top(t).run IN
         IF Cancellable(c)
         THEN /\ control' = [control EXCEPT ![c].cancelRequested = TRUE]
              /\ stack' = Continue(t, << Frame("abandon", c, "children") >>)
         ELSE /\ stack' = Continue(t, << >>)
              /\ UNCHANGED control
    /\ UNCHANGED <<table, begun, status, pauseVars, endVars, stopVars, turnVars>>

\* Mutant: a queued run is treated as an executing one.
AbandonUnqueued(t) ==
    /\ At(t, "abandon")
    /\ control' = [control EXCEPT ![Top(t).run].done = TRUE]
    /\ stack' = Continue(t, << Frame("claimWait", Top(t).run, Top(t).arg) >>)
    /\ UNCHANGED <<table, begun, status, pauseVars, endVars, stopVars, turnVars>>

\* abandonRun: first the run's context is cancelled.  A run still queued is then
\* settled here: it stays queued, as startQueued refuses it from now on, ...
Abandon(t) ==
    /\ At(t, "abandon")
    /\ LET r == Top(t).run IN
         /\ control' = [control EXCEPT ![r].done = TRUE]
         /\ stack' = IF control[r].queued
                     THEN Continue(t, Settle(r, "cancelled"))
                     ELSE Continue(t, << Frame("claimWait", r, Top(t).arg) >>)
    /\ UNCHANGED <<table, begun, status, pauseVars, endVars, stopVars, turnVars>>

\* Mutant: the wait is found and not claimed.
ClaimWaitArmed(t) ==
    /\ At(t, "claimWait")
    /\ LET r == Top(t).run IN
         stack' = IF \E w \in armed : w.run = r
                  THEN Continue(t, Settle(r, "cancelled"))
                  ELSE Continue(t, << Frame("claimWaiter", r, Top(t).arg) >>)
    /\ UNCHANGED <<runVars, pauseVars, endVars, stopVars, turnVars>>

\* ... or one paused at a wait, ...
ClaimWait(t) ==
    /\ At(t, "claimWait")
    /\ LET r == Top(t).run
           waits == {w \in armed : w.run = r} IN
         /\ armed' = armed \ waits
         /\ stack' = IF waits # {}
                     THEN Continue(t, Settle(r, "cancelled"))
                     ELSE Continue(t, << Frame("claimWaiter", r, Top(t).arg) >>)
    /\ UNCHANGED <<runVars, waiters, endVars, stopVars, turnVars>>

\* ... or one paused on a sub-workflow, which a cancel takes with it.  A run
\* that is executing is left to settle itself.
ClaimWaiter(t) ==
    /\ At(t, "claimWaiter")
    /\ LET r == Top(t).run
           mine == {w \in waiters : w.parent = r} IN
         /\ waiters' = waiters \ mine
         /\ \/ mine = {} /\ stack' = Continue(t, << >>)
            \/ \E w \in mine :
                 stack' = Continue(t, (IF Top(t).arg = "children"
                                       THEN << Frame("cancel", w.child, None) >>
                                       ELSE << >>) \o Settle(r, "cancelled"))
    /\ UNCHANGED <<runVars, armed, endVars, stopVars, turnVars>>

(***************************************************************************)
(* Settling: setExecutionStatus with an outcome                            *)
(***************************************************************************)
\* Mutant: Stop is not told of the settle in progress.
CountNothing(t) ==
    /\ At(t, "count")
    /\ stack' = Continue(t, << Frame("claim", Top(t).run, Top(t).arg) >>)
    /\ UNCHANGED <<runVars, pauseVars, endVars, stopVars, turnVars>>

\* Counted before the claim, so Stop never sees a run that is neither.
Count(t) ==
    /\ At(t, "count")
    /\ settling' = settling + 1
    /\ stack' = Continue(t, << Frame("claim", Top(t).run, Top(t).arg) >>)
    /\ UNCHANGED <<runVars, pauseVars, stamped, recorded, stopVars, turnVars>>

\* Mutant: a run refused a wait keeps a status of its own.
OutcomeAsGiven(o) == o

Outcome(o) == IF o = EngineStopped THEN "failed" ELSE o

\* Mutant: a run the engine abandoned looks cancelled.
DecidedByStop(c, o) ==
    IF c.cancelRequested /\ o # "cancelled"
    THEN [final |-> "cancelled", byStop |-> FALSE]
    ELSE [final |-> Outcome(o), byStop |-> o = EngineStopped]

\* An accepted cancel turns every later outcome into cancelled, and what Stop
\* abandoned is renamed from cancelled to failed.
Decided(c, o) ==
    IF c.cancelRequested /\ o # "cancelled"
    THEN [final |-> "cancelled", byStop |-> FALSE]
    ELSE IF c.stopped /\ ~c.cancelRequested /\ o = "cancelled"
         THEN [final |-> "failed", byStop |-> TRUE]
         ELSE [final |-> Outcome(o), byStop |-> o = EngineStopped]

\* claimSettle.  A run the table no longer holds has no control to claim.
Claim(t) ==
    /\ At(t, "claim")
    /\ LET r == Top(t).run
           d == Decided(control[r], Top(t).arg) IN
         \/ /\ r \in table /\ control[r].settled
            /\ settling' = settling - 1
            /\ stack' = Continue(t, << >>)
            /\ UNCHANGED control
         \/ /\ r \in table /\ ~control[r].settled
            /\ control' = [control EXCEPT ![r].settled = TRUE, ![r].final = d.final,
                                          ![r].byStop = d.byStop]
            /\ stack' = Continue(t, << Frame("record", r, d.final) >>)
            /\ UNCHANGED settling
         \/ /\ r \notin table
            /\ stack' = Continue(t, << Frame("record", r, Outcome(Top(t).arg)) >>)
            /\ UNCHANGED <<control, settling>>
    /\ UNCHANGED <<table, begun, status, pauseVars, stamped, recorded, stopVars, turnVars>>

Stamped(r) == \E i \in 1..Len(stamped) : stamped[i] = r

\* The status, the retention stamp, the announcement and the record.
Record(t) ==
    /\ At(t, "record")
    /\ LET r == Top(t).run IN
         /\ status' = [status EXCEPT ![r] = Top(t).arg]
         /\ stamped' = IF r \in table /\ ~Stamped(r) THEN Append(stamped, r) ELSE stamped
         /\ recorded' = [recorded EXCEPT ![r] = Append(@, Top(t).arg)]
    /\ settling' = settling - 1
    /\ stack' = Continue(t, << >>)
    /\ UNCHANGED <<table, begun, control, pauseVars, stopVars, turnVars>>

(***************************************************************************)
(* Stop                                                                    *)
(***************************************************************************)
Unsettled == {r \in table : ~control[r].settled}

\* Runs paused at a wait are abandoned at once.
StopCalled ==
    /\ ~stopping
    /\ stopping' = TRUE
    /\ stop' = [stop EXCEPT !.at = "list paused"]
    /\ UNCHANGED <<runVars, pauseVars, stack, endVars, turnVars>>

ListPaused ==
    /\ stop.at = "list paused"
    /\ stop' = [stop EXCEPT !.at = "abandon paused",
                            !.left = {r \in Unsettled : \E w \in armed : w.run = r}]
    /\ UNCHANGED <<runVars, pauseVars, stack, endVars, stopping, turnVars>>

\* abandonRuns, over a snapshot taken in no particular order.
AbandonNext ==
    /\ stop.at \in {"abandon paused", "abandon unsettled"} /\ Idle(Stopper)
    /\ \E r \in stop.left :
         /\ stop' = [stop EXCEPT !.left = @ \ {r}]
         /\ GiveUp(Stopper, r, << >>)
    /\ UNCHANGED <<table, begun, status, pauseVars, endVars, stopping, turnVars>>

Abandoned(at) == stop.at = at /\ stop.left = {} /\ Idle(Stopper)

\* Executing runs get stopDrainTimeout; it may run out at any moment.
Drain ==
    /\ Abandoned("abandon paused")
    /\ stop' = [stop EXCEPT !.at = "list unsettled"]
    /\ UNCHANGED <<runVars, pauseVars, stack, endVars, stopping, turnVars>>

ListUnsettled ==
    /\ stop.at = "list unsettled"
    /\ stop' = [at |-> "abandon unsettled", left |-> Unsettled, clean |-> Unsettled = {},
                seen |-> IF Unsettled = {} THEN table ELSE {}]
    /\ UNCHANGED <<runVars, pauseVars, stack, endVars, stopping, turnVars>>

\* Mutant: Stop does not wait for the outcomes being recorded.
StopDoneUncounted ==
    /\ Abandoned("abandon unsettled")
    /\ stop.clean
    /\ stop' = [stop EXCEPT !.at = "done"]
    /\ UNCHANGED <<runVars, pauseVars, stack, endVars, stopping, turnVars>>

\* waitForRuns polls until everything is settled and recorded ...
StopDone ==
    /\ Abandoned("abandon unsettled")
    /\ stop.clean /\ settling = 0
    /\ stop' = [stop EXCEPT !.at = "done"]
    /\ UNCHANGED <<runVars, pauseVars, stack, endVars, stopping, turnVars>>

\* ... or stopSettleTimeout has passed.
StopAgain ==
    /\ Abandoned("abandon unsettled")
    /\ ~(stop.clean /\ settling = 0)
    /\ \E at \in {"list unsettled", "gave up"} : stop' = [stop EXCEPT !.at = at]
    /\ UNCHANGED <<runVars, pauseVars, stack, endVars, stopping, turnVars>>

(***************************************************************************)
(* Retention                                                               *)
(***************************************************************************)
\* Mutant: what a parent waits on is not pinned.
PinnedByNobody(r) == FALSE

Pinned(r) == \E w \in waiters : r \in {w.child, w.parent}

\* A call some thread has yet to finish about r.
Mentions(f, r) ==
    f.run = r \/ (f.op \in {"register", "resumeParent"} /\ f.arg.child = r)
InUse(r) == \E t \in Threads : \E i \in 1..Len(stack[t]) : Mentions(stack[t][i], r)

Evictable == {i \in 1..Len(stamped) : stamped[i] \in table /\ ~Pinned(stamped[i])}

\* The sweep evicts runs past their retention, which is minutes where a call
\* about a run takes moments, and the oldest of more than MaxSettledRuns.
Sweep ==
    /\ Cardinality(begun \ table) < MaxEvictions
    /\ \E i \in Evictable :
         LET r == stamped[i] IN
         /\ \/ ~InUse(r)
            \/ /\ Cardinality({s \in table : Stamped(s)}) > MaxSettledRuns
               /\ \A j \in Evictable : i <= j
         /\ table' = table \ {r}
         /\ control' = [control EXCEPT ![r].done = TRUE]
    /\ UNCHANGED <<begun, status, pauseVars, stack, endVars, stopVars, turnVars>>

(***************************************************************************)
(* The specification                                                       *)
(***************************************************************************)
Init ==
    /\ table = {} /\ begun = {}
    /\ control = [r \in Runs |-> NewControl(FALSE)]
    /\ status = [r \in Runs |-> "running"]
    /\ armed = {} /\ waiters = {}
    /\ stack = [t \in Threads |-> << >>]
    /\ settling = 0
    /\ stopping = FALSE
    /\ stop = [at |-> "running", left |-> {}, clean |-> FALSE, seen |-> {}]
    /\ stamped = << >>
    /\ recorded = [r \in Runs |-> << >>]
    /\ returned = {} /\ overran = {}

\* What a thread does of its own accord once it is scheduled.
ThreadStep(t) ==
    \/ Enqueue(t) \/ TurnRefused(t) \/ TurnSkipped(t) \/ TurnStarts(t) \/ TurnEnds(t)
    \/ Signal(t)
    \/ StopIfCancelled(t) \/ RunCompletes(t) \/ RunFails(t) \/ TaskSkipped(t)
    \/ ActionStarts(t) \/ ActionAbandoned(t)
    \/ WaitReached(t) \/ ArmRefused(t) \/ ArmWait(t)
    \/ ResumeWaitStopped(t) \/ ResumeWait(t) \/ Reenter(t)
    \/ SubWorkflowReached(t) \/ SubWorkflowDetached(t) \/ RegisterRefused(t) \/ Register(t)
    \/ ReleaseNobody(t) \/ Release(t) \/ AbandonParent(t) \/ ResumeParent(t)
    \/ CancelChild(t) \/ Abandon(t)
    \/ ClaimWait(t) \/ ClaimWaiter(t)
    \/ Count(t) \/ Claim(t) \/ Record(t)

StopStep == ListPaused \/ AbandonNext \/ Drain \/ ListUnsettled \/ StopDone \/ StopAgain

Environment ==
    \/ \E r \in TopLevel : Begin(r)
    \/ \E r \in Cancels : Cancel(r)
    \/ OrderedEvent
    \/ \E w \in armed : WaitEnds(w)
    \/ \E t \in Threads : ActionReturns(t)
    \/ StopCalled
    \/ Sweep

Next == (\E t \in Threads : ThreadStep(t)) \/ StopStep \/ Environment

Spec == Init /\ [][Next]_vars

\* Goroutines are scheduled and Stop polls until it returns.  Nothing makes an
\* action answer, an event arrive or a caller cancel.
Fairness == /\ \A t \in Threads : WF_vars(ThreadStep(t))
            /\ WF_vars(StopStep)

FairSpec == Spec /\ Fairness

(***************************************************************************)
(* Properties                                                              *)
(***************************************************************************)
\* What a call is about and what it is given.
FrameSet ==
         [op : {"enqueue"}, run : Queued, arg : 1..Len(Queue)]
    \cup [op : {"turn", "await", "signal", "release", "abandonParent", "cancel"},
          run : Runs, arg : {None}]
    \cup [op : {"run", "action", "arm", "resumeWait", "reenter"}, run : Runs, arg : Nat]
    \cup [op : {"register", "resumeParent"}, run : Runs, arg : [child : Runs, at : Nat]]
    \cup [op : {"abandon", "claimWait", "claimWaiter"}, run : Runs,
          arg : {None, "children"}]
    \cup [op : {"count", "claim"}, run : Runs, arg : Outcomes \cup {EngineStopped}]
    \cup [op : {"record"}, run : Runs, arg : Outcomes]

StopPlaces == {"running", "list paused", "abandon paused", "list unsettled",
               "abandon unsettled", "done", "gave up"}

\* The shape of the state.
TypeOK ==
    /\ table \subseteq begun /\ begun \subseteq Runs
    /\ control \in [Runs -> Controls]
    /\ status \in [Runs -> Statuses]
    /\ armed \subseteq [run : Runs, at : Nat]
    /\ waiters \subseteq [child : Runs, parent : Runs, at : Nat]
    /\ stack \in [Threads -> Seq(FrameSet)]
    /\ settling \in Int
    /\ stopping \in BOOLEAN
    /\ stop \in [at : StopPlaces, left : SUBSET Runs, clean : BOOLEAN, seen : SUBSET Runs]
    /\ stamped \in Seq(Runs)
    /\ recorded \in [Runs -> Seq(Outcomes)]
    /\ returned \subseteq Runs /\ overran \subseteq Runs

Frames(r, ops) ==
    UNION {{<<t, i>> : i \in {j \in 1..Len(stack[t]) :
                                stack[t][j].run = r /\ stack[t][j].op \in ops}} :
             t \in Threads}

DriveOps == {"run", "action", "arm", "resumeWait", "reenter", "register",
             "resumeParent", "abandonParent", "count", "claim"}

\* "Whoever removes it owns the resume, and the others back off" (armWaitLocked):
\* a run that is not settled is in the hands of exactly one party -- a thread
\* driving it, an armed wait, or a registration on a sub-workflow.  With two it
\* would run twice, with none it would hang.
SoleOwner ==
    \A r \in begun : ~control[r].settled /\ ~control[r].queued =>
        Cardinality(Frames(r, DriveOps)) + Cardinality({w \in armed : w.run = r})
            + Cardinality({w \in waiters : w.parent = r}) = 1

\* "A run either starts here or is settled there, never both" (startQueued):
\* until a queued run is settled, its turn is still to come or whoever cancelled
\* or abandoned it is about to settle it.
QueuedOwned ==
    \A r \in begun : ~control[r].settled /\ control[r].queued =>
        IF control[r].cancelRequested \/ control[r].stopped
        THEN Frames(r, {"abandon", "count", "claim"}) # {}
        ELSE At(Queuer, "enqueue") \/ Frames(r, {"turn"}) # {}

\* A run announces and records one outcome, the one it claimed, and its status
\* is that outcome from then on, whatever else was racing to end or resume it.
OutcomeStands ==
    \A r \in Runs : recorded[r] # << >> =>
        /\ control[r].settled
        /\ recorded[r] = << control[r].final >>
        /\ status[r] = control[r].final

\* Once a cancel is accepted the run ends cancelled, even if its last task
\* finishes meanwhile; and Stop is not a cancel (claimSettle).
CancelledIffAccepted ==
    \A r \in Runs : control[r].settled =>
        (control[r].final = "cancelled" <=> control[r].cancelRequested)

\* A parent resumed from a sub-workflow finds its outcome already written down,
\* or it would fail for a child whose status is unknown; and it is not resumed by
\* a child Stop abandoned, or its own outcome would depend on which of the two
\* Stop happened to reach first (checkSubWorkflowCompletion).
ResumeReadsOutcome ==
    \A t \in Threads : \A i \in 1..Len(stack[t]) :
        stack[t][i].op = "resumeParent" =>
            LET c == stack[t][i].arg.child IN
            recorded[c] # << >> /\ ~control[c].byStop

\* When Stop returns satisfied, no run it could see is without a recorded
\* outcome: settling counts a run from before its outcome is claimed.
StopLeavesNothing ==
    stop.at = "done" => \A r \in stop.seen : recorded[r] # << >>

\* At most one ordered run of the event has its turn, overrun turns aside.
OneTurn ==
    Cardinality({r \in Queued \cap begun :
                    ~control[r].queued /\ r \notin returned \cup overran}) <= 1

\* What the sweep evicts has been recorded, and no parent waits on it.
EvictedUnused ==
    \A r \in begun \ table :
        recorded[r] # << >> /\ \A w \in waiters : r \notin {w.child, w.parent}

\* The engine's runs behave as RunOutcome says.
Promise == INSTANCE RunOutcome WITH
    outcome <- [r \in Runs |-> IF r \notin begun THEN "absent"
                               ELSE IF control[r].settled THEN control[r].final
                               ELSE "open"],
    accepted <- {r \in Runs : control[r].cancelRequested}
KeepsPromise == Promise!Spec

\* A run that was cancelled, or that Stop has given up on, ends in a recorded
\* outcome whatever it was doing: a task that never answers does not hold it up,
\* and a pause it is about to enter does not hide it.
AbandonedSettles ==
    \A r \in Runs : control[r].cancelRequested \/ control[r].stopped
                        ~> recorded[r] # << >>

\* Parent p is waiting on child c, or about to.
Registered(c, p) == \E w \in waiters : w.child = c /\ w.parent = p
Awaits(c, p) ==
    \/ Registered(c, p)
    \/ \E t \in Threads : \E i \in 1..Len(stack[t]) :
          /\ stack[t][i].op = "register" /\ stack[t][i].run = p
          /\ stack[t][i].arg.child = c

\* Cancelling a run ends the sub-workflow it waits on, also when the cancel
\* finds the parent between starting the child and registering for it.
CancelReachesChild ==
    \A p \in Runs : \A c \in Runs \ {p} :
        control[p].cancelRequested /\ Awaits(c, p) ~> recorded[c] # << >>

\* docs/workflow/execution.md: "When the sub-workflow completes ... parent
\* workflows resume from the next task".
ParentReleased ==
    \A c, p \in Runs :
        Registered(c, p) /\ recorded[c] # << >> ~> ~Registered(c, p)
===============================================================================
