--------------------------- MODULE EngineRunsProofs ---------------------------
(* Proofs about EngineRuns, for any number of runs and any definitions. *)
EXTENDS EngineRuns, TLAPS

(***************************************************************************)
(* The inductive invariant                                                 *)
(***************************************************************************)
\* Somebody has decided that the run ends.
Ended(c) == c.settled \/ c.cancelRequested \/ c.stopped

\* The calls that may be pending when the runs in b have begun, their controls
\* are c and the table holds tb.
Calls(b, c, tb) ==
    {f \in FrameSet :
        /\ f.op = "enqueue" =>
              f.run = Queue[f.arg] /\ \A j \in 1..(f.arg - 1) : Queue[j] \in b
        /\ f.op # "enqueue" => f.run \in b
        /\ f.op \in {"register", "resumeParent"} => f.arg.child \in b
        /\ f.op \in {"abandon", "claimWait", "claimWaiter"} => Ended(c[f.run])
        /\ f.op \in {"count", "claim"} /\ f.arg = "cancelled" => Ended(c[f.run])
        /\ f.op = "record" => c[f.run].settled \/ f.run \notin tb}

SettledRuns == {r \in begun : control[r].settled}

StackInv   == stack \in [Threads -> Seq(Calls(begun, control, table))]
ControlInv == \A r \in Runs :
                 /\ control[r].done => Ended(control[r])
                 /\ control[r].settled =>
                       /\ control[r].final \in Outcomes
                       /\ control[r].final = "cancelled" <=> control[r].cancelRequested
                 /\ r \notin begun => control[r] = NewControl(FALSE)
PauseInv   == /\ \A w \in armed : w.run \in begun
              /\ \A w \in waiters : w.child \in begun /\ w.parent \in begun
StopInv    == stop.left \subseteq begun
StampedInv == stamped \in Seq(SettledRuns)

IInv == TypeOK /\ StackInv /\ ControlInv /\ PauseInv /\ StopInv /\ StampedInv

(***************************************************************************)
(* Stacks                                                                  *)
(***************************************************************************)
\* A sequence over a set is one over any larger set.
LEMMA SeqMonotonic ==
    ASSUME NEW S, NEW T, S \subseteq T
    PROVE  Seq(S) \subseteq Seq(T)
OBVIOUS

\* The innermost call of a thread is one of its calls.
LEMMA TopIsCall ==
    ASSUME NEW S, NEW s \in Seq(S), s # << >>
    PROVE  Head(s) \in S
OBVIOUS

\* A thread that goes on makes calls that were allowed or are allowed now.
LEMMA ContinueCalls ==
    ASSUME NEW S, NEW st \in [Threads -> Seq(S)], NEW t \in Threads, st[t] # << >>,
           NEW frames \in Seq(S)
    PROVE  [st EXCEPT ![t] = frames \o Tail(@)] \in [Threads -> Seq(S)]
OBVIOUS

\* A goroutine started with allowed calls leaves every stack allowed.
LEMMA SpawnCalls ==
    ASSUME NEW S, NEW st \in [Threads -> Seq(S)], NEW r \in Runs, NEW frames \in Seq(S)
    PROVE  Spawn(st, r, frames) \in [Threads -> Seq(S)]
BY DEF Spawn, Threads

\* A pending call stays allowed as runs begin, are ended and leave the table.
LEMMA CallsMonotonic ==
    ASSUME NEW b, NEW c, NEW tb, NEW b2, NEW c2, NEW tb2,
           b \subseteq b2,
           \A r \in b : /\ Ended(c[r]) => Ended(c2[r])
                        /\ c[r].settled => c2[r].settled
                        /\ r \notin tb => r \notin tb2
    PROVE  Calls(b, c, tb) \subseteq Calls(b2, c2, tb2)
BY DEF Calls

\* The calls a thread may be given about a run that has begun ...
LEMMA CallsAbout ==
    ASSUME NEW b, b \subseteq Runs, NEW c, NEW tb, NEW r \in b
    PROVE  /\ \A op \in {"run", "action", "arm", "resumeWait", "reenter"}, n \in Nat :
                 Frame(op, r, n) \in Calls(b, c, tb)
           /\ \A op \in {"turn", "await", "signal", "release", "abandonParent", "cancel"} :
                 Frame(op, r, None) \in Calls(b, c, tb)
           /\ \A op \in {"register", "resumeParent"}, k \in b, n \in Nat :
                 Frame(op, r, [child |-> k, at |-> n]) \in Calls(b, c, tb)
           /\ Ended(c[r]) =>
                 \A op \in {"abandon", "claimWait", "claimWaiter"},
                    arg \in {None, "children"} :
                       Frame(op, r, arg) \in Calls(b, c, tb)
BY DEF Calls, Frame, FrameSet, None

\* ... and those that settle it: cancelled only if somebody asked for its end.
LEMMA SettleCalls ==
    ASSUME NEW b, b \subseteq Runs, NEW c, NEW tb, NEW r \in b,
           NEW o \in Outcomes \cup {EngineStopped}, o = "cancelled" => Ended(c[r])
    PROVE  /\ Settle(r, o) \in Seq(Calls(b, c, tb))
           /\ Frame("count", r, o) \in Calls(b, c, tb)
           /\ Frame("claim", r, o) \in Calls(b, c, tb)
<1>1. /\ Frame("count", r, o) \in Calls(b, c, tb)
      /\ Frame("claim", r, o) \in Calls(b, c, tb)
      /\ Frame("release", r, None) \in Calls(b, c, tb)
  BY DEF Calls, Frame, FrameSet, None
<1> QED BY <1>1 DEF Settle

\* Allowed calls are calls of the right shape.
LEMMA CallsTyped ==
    ASSUME NEW b, NEW c, NEW tb
    PROVE  [Threads -> Seq(Calls(b, c, tb))] \subseteq [Threads -> Seq(FrameSet)]
<1>1. Calls(b, c, tb) \subseteq FrameSet BY DEF Calls
<1>2. Seq(Calls(b, c, tb)) \subseteq Seq(FrameSet) BY <1>1, SeqMonotonic
<1> QED BY <1>2

\* A step that only replaces calls by calls that are allowed too.
LEMMA CallStep ==
    ASSUME IInv, stack' \in [Threads -> Seq(Calls(begun, control, table))],
           UNCHANGED <<runVars, pauseVars, endVars, stopVars>>,
           returned' \subseteq Runs, overran' \subseteq Runs
    PROVE  IInv'
<1>1. stack' \in [Threads -> Seq(FrameSet)] BY CallsTyped
<1>2. TypeOK' BY <1>1 DEF IInv, TypeOK, runVars, pauseVars, endVars, stopVars
<1>3. Calls(begun, control, table)' = Calls(begun, control, table)
  BY DEF runVars
<1>4. StackInv' BY <1>3 DEF StackInv
<1>5. ControlInv' /\ PauseInv' /\ StopInv'
  BY DEF IInv, ControlInv, PauseInv, StopInv, runVars, pauseVars, stopVars
<1>6. StampedInv' BY DEF IInv, StampedInv, SettledRuns, runVars, endVars
<1> QED BY <1>2, <1>4, <1>5, <1>6 DEF IInv

\* What a thread about to make a call may count on.
LEMMA TopCall ==
    ASSUME IInv, NEW t \in Threads, ~Idle(t)
    PROVE  /\ Top(t) \in Calls(begun, control, table) /\ Top(t) \in FrameSet
           /\ stack[t] # << >> /\ stack[t] \in Seq(Calls(begun, control, table))
           /\ Top(t).op # "enqueue" => Top(t).run \in begun
           /\ begun \subseteq Runs
BY TopIsCall DEF IInv, StackInv, Idle, Top, Calls, TypeOK

\* Continue, when nothing but the calls changes.
LEMMA ContinueHere ==
    ASSUME IInv, NEW t \in Threads, ~Idle(t),
           NEW frames \in Seq(Calls(begun, control, table))
    PROVE  Continue(t, frames) \in [Threads -> Seq(Calls(begun, control, table))]
BY ContinueCalls, TopCall DEF IInv, StackInv, Continue

\* Continue, about the run of the call just made, when nothing else changes.
LEMMA ContinueAbout ==
    ASSUME IInv, NEW t \in Threads, ~Idle(t), Top(t).op # "enqueue"
    PROVE  LET r == Top(t).run IN
           /\ Continue(t, << >>) \in [Threads -> Seq(Calls(begun, control, table))]
           /\ \A op \in {"run", "action", "arm", "resumeWait", "reenter"}, n \in Nat :
                 Continue(t, << Frame(op, r, n) >>)
                     \in [Threads -> Seq(Calls(begun, control, table))]
           /\ \A o \in Outcomes \cup {EngineStopped} :
                 (o = "cancelled" => Ended(control[r])) =>
                     Continue(t, Settle(r, o))
                         \in [Threads -> Seq(Calls(begun, control, table))]
<1> DEFINE r == Top(t).run
           C == Calls(begun, control, table)
<1>1. r \in begun /\ begun \subseteq Runs BY TopCall
<1>2. << >> \in Seq(C) OBVIOUS
<1>3. \A op \in {"run", "action", "arm", "resumeWait", "reenter"}, n \in Nat :
         << Frame(op, r, n) >> \in Seq(C)
  <2>1. \A op \in {"run", "action", "arm", "resumeWait", "reenter"}, n \in Nat :
           Frame(op, r, n) \in C
    BY <1>1, CallsAbout
  <2> QED BY <2>1
<1>4. \A o \in Outcomes \cup {EngineStopped} :
         (o = "cancelled" => Ended(control[r])) => Settle(r, o) \in Seq(C)
  BY <1>1, SettleCalls
<1> QED BY <1>2, <1>3, <1>4, ContinueHere

\* A run whose context was cancelled is one somebody decided to end.
LEMMA CancelledEnded ==
    ASSUME IInv, NEW r \in Runs, control[r].done
    PROVE  Ended(control[r])
BY DEF IInv, ControlInv

\* Steps of a run's own goroutine between two tasks, and of an action.
LEMMA TaskSteps ==
    ASSUME IInv, NEW t \in Threads,
           \/ StopIfCancelled(t) \/ RunCompletes(t) \/ RunFails(t) \/ TaskSkipped(t)
           \/ ActionStarts(t) \/ ActionReturns(t) \/ ActionAbandoned(t)
    PROVE  IInv'
<1> DEFINE C == Calls(begun, control, table)
<1>1. ~Idle(t) /\ Top(t).op \in {"run", "action"}
  BY DEF StopIfCancelled, RunCompletes, RunFails, TaskSkipped, ActionStarts,
         ActionReturns, ActionAbandoned, AtStep, At
<1>2. Top(t) \in FrameSet /\ Top(t).run \in Runs BY <1>1, TopCall
<1>3. Top(t).arg \in Nat /\ Top(t).arg + 1 \in Nat
  BY <1>1, <1>2 DEF FrameSet
<1>4. \A o \in Outcomes \cup {EngineStopped} :
         (o = "cancelled" => control[Top(t).run].done) =>
             Continue(t, Settle(Top(t).run, o)) \in [Threads -> Seq(C)]
  BY <1>1, <1>2, ContinueAbout, CancelledEnded
<1>5. \A n \in Nat, op \in {"run", "action"} :
         Continue(t, << Frame(op, Top(t).run, n) >>) \in [Threads -> Seq(C)]
  BY <1>1, ContinueAbout
<1>6. stack' \in [Threads -> Seq(C)]
  BY <1>3, <1>4, <1>5
     DEF StopIfCancelled, RunCompletes, RunFails, TaskSkipped, ActionStarts,
         ActionReturns, ActionAbandoned, RunCancelled, Outcomes
<1>7. UNCHANGED <<runVars, pauseVars, endVars, stopVars, turnVars>>
  BY DEF StopIfCancelled, RunCompletes, RunFails, TaskSkipped, ActionStarts,
         ActionReturns, ActionAbandoned
<1>8. returned' \subseteq Runs /\ overran' \subseteq Runs
  BY <1>7 DEF turnVars, IInv, TypeOK
<1> QED BY <1>6, <1>7, <1>8, CallStep

\* A step that leaves the runs' controls and the table alone.
LEMMA SameControls ==
    ASSUME IInv, UNCHANGED <<table, begun, control>>,
           stack' \in [Threads -> Seq(Calls(begun, control, table))],
           status' \in [Runs -> Statuses],
           armed' \subseteq [run : begun, at : Nat],
           waiters' \subseteq [child : begun, parent : begun, at : Nat],
           settling' \in Int, stamped' \in Seq(SettledRuns),
           recorded' \in [Runs -> Seq(Outcomes)],
           stopping' \in BOOLEAN,
           stop' \in [at : StopPlaces, left : SUBSET begun, clean : BOOLEAN,
                      seen : SUBSET Runs],
           returned' \subseteq Runs, overran' \subseteq Runs
    PROVE  IInv'
<1>1. stack' \in [Threads -> Seq(FrameSet)] BY CallsTyped
<1>2. begun \subseteq Runs BY DEF IInv, TypeOK
<1>3. stamped' \in Seq(Runs)
  <2>1. SettledRuns \subseteq Runs BY <1>2 DEF SettledRuns
  <2> QED BY <2>1, SeqMonotonic
<1>4. TypeOK' BY <1>1, <1>2, <1>3 DEF IInv, TypeOK
<1>5. StackInv' BY DEF StackInv
<1>6. ControlInv' BY DEF IInv, ControlInv
<1>7. PauseInv' /\ StopInv' BY DEF PauseInv, StopInv
<1>8. StampedInv' BY DEF StampedInv, SettledRuns
<1> QED BY <1>4, <1>5, <1>6, <1>7, <1>8 DEF IInv

\* What SameControls asks of the variables, as the invariant has it.
LEMMA InvTypes ==
    ASSUME IInv
    PROVE  /\ begun \subseteq Runs /\ table \subseteq begun
           /\ control \in [Runs -> Controls]
           /\ status \in [Runs -> Statuses]
           /\ armed \subseteq [run : begun, at : Nat]
           /\ waiters \subseteq [child : begun, parent : begun, at : Nat]
           /\ settling \in Int /\ stamped \in Seq(SettledRuns)
           /\ recorded \in [Runs -> Seq(Outcomes)]
           /\ stopping \in BOOLEAN
           /\ stop \in [at : StopPlaces, left : SUBSET begun, clean : BOOLEAN,
                        seen : SUBSET Runs]
           /\ returned \subseteq Runs /\ overran \subseteq Runs
           /\ stack \in [Threads -> Seq(Calls(begun, control, table))]
BY DEF IInv, TypeOK, StackInv, PauseInv, StopInv, StampedInv

\* Pausing at a wait, being refused it, and re-entering it when it has ended.
LEMMA WaitSteps ==
    ASSUME IInv, NEW t \in Threads,
           WaitReached(t) \/ ArmRefused(t) \/ ArmWait(t) \/ ResumeWait(t) \/ Reenter(t)
    PROVE  IInv'
<1> DEFINE C == Calls(begun, control, table)
<1>1. ~Idle(t) /\ Top(t).op \in {"run", "arm", "resumeWait", "reenter"}
  BY DEF WaitReached, ArmRefused, ArmWait, ResumeWait, Reenter, AtStep, At
<1>2. Top(t) \in FrameSet /\ Top(t).run \in begun /\ Top(t).run \in Runs
  BY <1>1, TopCall
<1>3. Top(t).arg \in Nat /\ Top(t).arg + 1 \in Nat BY <1>1, <1>2 DEF FrameSet
<1>4. \A o \in Outcomes \cup {EngineStopped} :
         (o = "cancelled" => control[Top(t).run].done) =>
             Continue(t, Settle(Top(t).run, o)) \in [Threads -> Seq(C)]
  BY <1>1, <1>2, ContinueAbout, CancelledEnded
<1>5. /\ Continue(t, << >>) \in [Threads -> Seq(C)]
      /\ \A n \in Nat, op \in {"run", "arm", "reenter"} :
            Continue(t, << Frame(op, Top(t).run, n) >>) \in [Threads -> Seq(C)]
  BY <1>1, ContinueAbout
<1>6. stack' \in [Threads -> Seq(C)]
  <2>1. CASE WaitReached(t) \/ ArmWait(t)
    BY <2>1, <1>3, <1>5 DEF WaitReached, ArmWait
  <2>2. CASE ArmRefused(t) \/ Reenter(t)
    BY <2>2, <1>3, <1>4, <1>5
       DEF ArmRefused, Reenter, RunCancelled, Outcomes, EngineStopped
  <2>3. CASE ResumeWait(t)
    <3>1. CASE Top(t).run \in table BY <3>1, <2>3, <1>3, <1>5 DEF ResumeWait, IfHeld
    <3>2. CASE Top(t).run \notin table BY <3>2, <2>3, <1>5 DEF ResumeWait, IfHeld
    <3> QED BY <3>1, <3>2
  <2> QED BY <2>1, <2>2, <2>3
<1>7. /\ UNCHANGED <<table, begun, control, waiters, endVars, stopVars, turnVars>>
      /\ status' \in [Runs -> Statuses] /\ armed' \subseteq [run : begun, at : Nat]
  <2>1. CASE WaitReached(t) \/ ResumeWait(t)
    BY <2>1, <1>2, InvTypes DEF WaitReached, ResumeWait, pauseVars, Statuses
  <2>2. CASE ArmWait(t)
    BY <2>2, <1>2, <1>3, InvTypes DEF ArmWait, runVars
  <2>3. CASE ArmRefused(t) \/ Reenter(t)
    BY <2>3, InvTypes DEF ArmRefused, Reenter, runVars, pauseVars
  <2> QED BY <2>1, <2>2, <2>3
<1> QED BY <1>6, <1>7, InvTypes, SameControls DEF endVars, stopVars, turnVars

\* Spawn, when nothing else changes.
LEMMA SpawnHere ==
    ASSUME NEW b, NEW c, NEW tb, NEW st \in [Threads -> Seq(Calls(b, c, tb))],
           NEW r \in Runs, NEW f \in Calls(b, c, tb)
    PROVE  Spawn(st, r, << f >>) \in [Threads -> Seq(Calls(b, c, tb))]
<1>1. << f >> \in Seq(Calls(b, c, tb)) OBVIOUS
<1> QED BY <1>1, SpawnCalls

\* An event or a timer claiming an armed wait resumes a run that has begun.
LEMMA WaitEndsStep ==
    ASSUME IInv, NEW w \in armed, WaitEnds(w)
    PROVE  IInv'
<1>1. w.run \in begun /\ w.at \in Nat /\ begun \subseteq Runs BY InvTypes
<1>2. Frame("resumeWait", w.run, w.at) \in Calls(begun, control, table)
  BY <1>1, CallsAbout
<1>3. stack' \in [Threads -> Seq(Calls(begun, control, table))]
  BY <1>1, <1>2, InvTypes, SpawnHere DEF WaitEnds
<1> QED BY <1>3, InvTypes, SameControls
        DEF WaitEnds, runVars, endVars, stopVars, turnVars

\* The queue names runs.
LEMMA QueueTyped ==
    /\ Queue \in Seq(Runs) /\ Len(Queue) \in Nat
    /\ \A i \in 1..Len(Queue) : Queue[i] \in Queued /\ Queue[i] \in Runs
BY RunsAssumption DEF Queued

\* The ordered queue, apart from the steps that mark a run.
LEMMA QueueSteps ==
    ASSUME IInv, NEW t \in Threads,
           OrderedEvent \/ TurnSkipped(t) \/ TurnEnds(t) \/ Signal(t)
    PROVE  IInv'
<1> DEFINE C == Calls(begun, control, table)
<1>1. CASE OrderedEvent
  <2>1. Frame("enqueue", Queue[1], 1) \in C
    <3>1. 1 \in 1..Len(Queue) BY <1>1, QueueTyped DEF OrderedEvent
    <3> QED BY <3>1, QueueTyped DEF Calls, Frame, FrameSet
  <2>2. stack' \in [Threads -> Seq(C)]
    <3>1. << Frame("enqueue", Queue[1], 1) >> \in Seq(C) BY <2>1
    <3> QED BY <3>1, <1>1, InvTypes DEF OrderedEvent
  <2> QED BY <2>2, <1>1, CallStep, InvTypes DEF OrderedEvent, turnVars
<1>2. CASE TurnSkipped(t) \/ TurnEnds(t) \/ Signal(t)
  <2>1. ~Idle(t) /\ Top(t).op \in {"turn", "await", "signal"}
    BY <1>2 DEF TurnSkipped, TurnEnds, Signal, At
  <2>2. Top(t).run \in Runs BY <2>1, TopCall
  <2>3. stack' \in [Threads -> Seq(C)]
    BY <2>1, <1>2, ContinueAbout DEF TurnSkipped, TurnEnds, Signal
  <2>4. /\ UNCHANGED <<runVars, pauseVars, endVars, stopVars>>
        /\ returned' \subseteq Runs /\ overran' \subseteq Runs
    BY <2>2, <1>2, InvTypes DEF TurnSkipped, TurnEnds, Signal, turnVars
  <2> QED BY <2>3, <2>4, CallStep
<1> QED BY <1>1, <1>2

\* A parent registering for its child, and the child releasing it.
LEMMA RegisterSteps ==
    ASSUME IInv, NEW t \in Threads, Register(t) \/ RegisterRefused(t)
    PROVE  IInv'
<1> DEFINE C == Calls(begun, control, table)
           r == Top(t).run
           k == Top(t).arg.child
<1>1. ~Idle(t) /\ Top(t).op = "register"
  BY DEF Register, RegisterRefused, At
<1>2. /\ Top(t) \in FrameSet /\ Top(t) \in C /\ r \in begun /\ r \in Runs
      /\ begun \subseteq Runs
  BY <1>1, TopCall
<1>3. k \in begun /\ Top(t).arg.at \in Nat
  BY <1>1, <1>2 DEF Calls, FrameSet
<1>4. CASE Register(t)
  <2>1. stack' \in [Threads -> Seq(C)] BY <1>4, <1>1, ContinueAbout DEF Register
  <2>2. waiters' \subseteq [child : begun, parent : begun, at : Nat]
    BY <1>4, <1>2, <1>3, InvTypes DEF Register
  <2> QED BY <2>1, <2>2, <1>4, InvTypes, SameControls
          DEF Register, runVars, endVars, stopVars, turnVars
<1>5. CASE RegisterRefused(t)
  <2>1. Ended(control[r])
    BY <1>5, <1>2, CancelledEnded DEF RegisterRefused, RunCancelled
  <2>2. Settle(r, "cancelled") \in Seq(C)
    BY <2>1, <1>2, SettleCalls DEF Outcomes
  <2>3. Frame("cancel", k, None) \in C BY <1>2, <1>3, CallsAbout
  <2>4. << Frame("cancel", k, None) >> \o Settle(r, "cancelled") \in Seq(C)
    BY <2>2, <2>3
  <2>5. stack' \in [Threads -> Seq(C)]
    BY <2>4, <1>1, <1>5, ContinueHere DEF RegisterRefused
  <2> QED BY <2>5, <1>5, CallStep, InvTypes DEF RegisterRefused, turnVars
<1> QED BY <1>4, <1>5

\* A settled child resumes the parent that waits on it, or takes it along.
LEMMA ReleaseSteps ==
    ASSUME IInv, NEW t \in Threads, Release(t) \/ ReleaseNobody(t)
    PROVE  IInv'
<1> DEFINE C == Calls(begun, control, table)
<1>1. ~Idle(t) /\ Top(t).op = "release" BY DEF Release, ReleaseNobody, At
<1>2. Top(t).run \in begun /\ begun \subseteq Runs BY <1>1, TopCall
<1>3. Continue(t, << >>) \in [Threads -> Seq(C)] BY <1>1, ContinueAbout
<1>4. stack' \in [Threads -> Seq(C)]
  <2>1. CASE ReleaseNobody(t) BY <2>1, <1>3 DEF ReleaseNobody
  <2>2. CASE Release(t)
    <3>1. PICK w \in WaitersOn(Top(t).run) :
             stack' = IF control[Top(t).run].byStop
                      THEN Continue(t, << Frame("abandonParent", w.parent, None) >>)
                      ELSE ResumeWaiter(t, w)
      BY <2>2 DEF Release
    <3>2. w.child \in begun /\ w.parent \in begun /\ w.parent \in Runs /\ w.at \in Nat
      BY <1>2, InvTypes DEF WaitersOn
    <3>3. /\ Frame("abandonParent", w.parent, None) \in C
          /\ Frame("resumeParent", w.parent, [child |-> w.child, at |-> w.at]) \in C
      BY <3>2, <1>2, CallsAbout
    <3>4. << Frame("abandonParent", w.parent, None) >> \in Seq(C) BY <3>3
    <3>5. Continue(t, << Frame("abandonParent", w.parent, None) >>)
             \in [Threads -> Seq(C)]
      BY <3>4, <1>1, ContinueHere
    <3>6. ResumeWaiter(t, w) \in [Threads -> Seq(C)]
      BY <3>2, <3>3, <1>3, SpawnHere DEF ResumeWaiter
    <3> QED BY <3>1, <3>5, <3>6
  <2> QED BY <2>1, <2>2
<1>5. waiters' \subseteq [child : begun, parent : begun, at : Nat]
  BY InvTypes DEF Release, ReleaseNobody
<1> QED BY <1>4, <1>5, InvTypes, SameControls
        DEF Release, ReleaseNobody, runVars, endVars, stopVars, turnVars

\* A parent resumed reads its child's outcome and goes on, or fails.
LEMMA ResumeParentStep ==
    ASSUME IInv, NEW t \in Threads, ResumeParent(t)
    PROVE  IInv'
<1> DEFINE C == Calls(begun, control, table)
           r == Top(t).run
<1>1. ~Idle(t) /\ Top(t).op = "resumeParent" BY DEF ResumeParent, At
<1>2. Top(t) \in FrameSet /\ r \in begun /\ r \in Runs BY <1>1, TopCall
<1>3. Top(t).arg.at + 1 \in Nat BY <1>1, <1>2 DEF FrameSet
<1>4. /\ Continue(t, << >>) \in [Threads -> Seq(C)]
      /\ Continue(t, << Frame("run", r, Top(t).arg.at + 1) >>) \in [Threads -> Seq(C)]
      /\ Continue(t, Settle(r, "failed")) \in [Threads -> Seq(C)]
  BY <1>1, <1>3, ContinueAbout DEF Outcomes
<1>5. stack' \in [Threads -> Seq(C)]
  <2>1. CASE r \in table BY <2>1, <1>4 DEF ResumeParent, IfHeld
  <2>2. CASE r \notin table BY <2>2, <1>4 DEF ResumeParent, IfHeld
  <2> QED BY <2>1, <2>2
<1>6. status' \in [Runs -> Statuses] BY <1>2, InvTypes DEF ResumeParent, Statuses
<1> QED BY <1>5, <1>6, InvTypes, SameControls
        DEF ResumeParent, pauseVars, endVars, stopVars, turnVars

\* A cancel or Stop claiming the pause of a run.
LEMMA ClaimPauseSteps ==
    ASSUME IInv, NEW t \in Threads, ClaimWait(t) \/ ClaimWaiter(t)
    PROVE  IInv'
<1> DEFINE C == Calls(begun, control, table)
           r == Top(t).run
           a == Top(t).arg
<1>1. ~Idle(t) /\ Top(t).op \in {"claimWait", "claimWaiter"}
  BY DEF ClaimWait, ClaimWaiter, At
<1>2. /\ Top(t) \in FrameSet /\ Top(t) \in C /\ r \in begun /\ r \in Runs
      /\ begun \subseteq Runs
  BY <1>1, TopCall
<1>3. Ended(control[r]) /\ a \in {None, "children"}
  BY <1>1, <1>2 DEF Calls, FrameSet
<1>4. Settle(r, "cancelled") \in Seq(C) BY <1>2, <1>3, SettleCalls DEF Outcomes
<1>5. CASE ClaimWait(t)
  <2>1. Frame("claimWaiter", r, a) \in C BY <1>2, <1>3, CallsAbout
  <2>2. << Frame("claimWaiter", r, a) >> \in Seq(C) BY <2>1
  <2>3. stack' \in [Threads -> Seq(C)]
    BY <1>1, <1>4, <1>5, <2>2, ContinueHere DEF ClaimWait
  <2>4. armed' \subseteq [run : begun, at : Nat] BY <1>5, InvTypes DEF ClaimWait
  <2> QED BY <2>3, <2>4, <1>5, InvTypes, SameControls
          DEF ClaimWait, runVars, endVars, stopVars, turnVars
<1>6. CASE ClaimWaiter(t)
  <2> DEFINE mine == {w \in waiters : w.parent = r}
  <2>1. stack' \in [Threads -> Seq(C)]
    <3>1. CASE mine = {} /\ stack' = Continue(t, << >>)
      BY <3>1, <1>1, ContinueAbout
    <3>2. ASSUME NEW w \in mine,
                 stack' = Continue(t, (IF a = "children"
                                       THEN << Frame("cancel", w.child, None) >>
                                       ELSE << >>) \o Settle(r, "cancelled"))
          PROVE  stack' \in [Threads -> Seq(C)]
      <4>1. w.child \in begun BY InvTypes
      <4>2. Frame("cancel", w.child, None) \in C BY <4>1, <1>2, CallsAbout
      <4>3. << Frame("cancel", w.child, None) >> \in Seq(C) BY <4>2
      <4>4. (IF a = "children" THEN << Frame("cancel", w.child, None) >> ELSE << >>)
               \o Settle(r, "cancelled") \in Seq(C)
        BY <4>3, <1>4
      <4> QED BY <4>4, <3>2, <1>1, ContinueHere
    <3> QED BY <3>1, <3>2, <1>6 DEF ClaimWaiter
  <2>2. waiters' \subseteq [child : begun, parent : begun, at : Nat]
    BY <1>6, InvTypes DEF ClaimWaiter
  <2> QED BY <2>1, <2>2, <1>6, InvTypes, SameControls
          DEF ClaimWaiter, runVars, endVars, stopVars, turnVars
<1> QED BY <1>5, <1>6

\* Counting a run that is about to settle, and recording one that has.
LEMMA CountStep ==
    ASSUME IInv, NEW t \in Threads, Count(t)
    PROVE  IInv'
<1> DEFINE C == Calls(begun, control, table)
           r == Top(t).run
           o == Top(t).arg
<1>1. ~Idle(t) /\ Top(t).op = "count" BY DEF Count, At
<1>2. /\ Top(t) \in FrameSet /\ Top(t) \in C /\ r \in begun /\ begun \subseteq Runs
  BY <1>1, TopCall
<1>3. o \in Outcomes \cup {EngineStopped} /\ (o = "cancelled" => Ended(control[r]))
  BY <1>1, <1>2 DEF Calls, FrameSet
<1>4. Frame("claim", r, o) \in C BY <1>2, <1>3, SettleCalls
<1>5. << Frame("claim", r, o) >> \in Seq(C) BY <1>4
<1>6. stack' \in [Threads -> Seq(C)] BY <1>1, <1>5, ContinueHere DEF Count
<1>7. settling' \in Int BY InvTypes DEF Count
<1> QED BY <1>6, <1>7, InvTypes, SameControls
        DEF Count, runVars, pauseVars, stopVars, turnVars

\* What is recorded and stamped is a run that has settled.
LEMMA RecordStep ==
    ASSUME IInv, NEW t \in Threads, Record(t)
    PROVE  IInv'
<1> DEFINE C == Calls(begun, control, table)
           r == Top(t).run
           o == Top(t).arg
<1>1. ~Idle(t) /\ Top(t).op = "record" BY DEF Record, At
<1>2. /\ Top(t) \in FrameSet /\ Top(t) \in C /\ r \in begun /\ r \in Runs
  BY <1>1, TopCall
<1>3. o \in Outcomes /\ (control[r].settled \/ r \notin table)
  BY <1>1, <1>2 DEF Calls, FrameSet
<1>4. stack' \in [Threads -> Seq(C)] BY <1>1, ContinueAbout DEF Record
<1>5. stamped' \in Seq(SettledRuns)
  <2>1. stamped \in Seq(SettledRuns) BY InvTypes
  <2>2. CASE r \in table
    <3>1. r \in SettledRuns BY <1>2, <1>3, <2>2 DEF SettledRuns
    <3>2. Append(stamped, r) \in Seq(SettledRuns) BY <2>1, <3>1
    <3>3. stamped' \in {stamped, Append(stamped, r)} BY DEF Record
    <3> QED BY <2>1, <3>2, <3>3
  <2>3. CASE r \notin table
    <3>1. stamped' = stamped BY <2>3 DEF Record
    <3> QED BY <2>1, <3>1
  <2> QED BY <2>2, <2>3
<1>6. status' \in [Runs -> Statuses]
  <2>1. o \in Statuses BY <1>3 DEF Statuses
  <2>2. status' = [status EXCEPT ![r] = o] BY DEF Record
  <2> QED BY <2>1, <2>2, InvTypes
<1>7. recorded' \in [Runs -> Seq(Outcomes)]
  <2>1. Append(recorded[r], o) \in Seq(Outcomes) BY <1>2, <1>3, InvTypes
  <2>2. recorded' = [recorded EXCEPT ![r] = Append(recorded[r], o)] BY DEF Record
  <2>3. recorded \in [Runs -> Seq(Outcomes)] BY InvTypes
  <2> HIDE DEF r, o
  <2> QED BY <2>1, <2>2, <2>3
<1>8. settling' \in Int /\ UNCHANGED <<table, begun, control, pauseVars, stopVars, turnVars>>
  BY InvTypes DEF Record
<1> QED BY <1>4, <1>5, <1>6, <1>7, <1>8, InvTypes, SameControls
        DEF pauseVars, stopVars, turnVars

\* Stop looking for runs and waiting for them.
LEMMA StopWaits ==
    ASSUME IInv, StopCalled \/ ListPaused \/ Drain \/ ListUnsettled \/ StopDone \/ StopAgain
    PROVE  IInv'
<1>1. Unsettled \subseteq begun /\ table \subseteq Runs BY InvTypes DEF Unsettled
<1>2. stop' \in [at : StopPlaces, left : SUBSET begun, clean : BOOLEAN, seen : SUBSET Runs]
  <2>1. CASE StopCalled BY <2>1, InvTypes DEF StopCalled, StopPlaces
  <2>2. CASE ListPaused BY <2>2, <1>1, InvTypes DEF ListPaused, StopPlaces
  <2>3. CASE Drain BY <2>3, InvTypes DEF Drain, StopPlaces
  <2>4. CASE ListUnsettled BY <2>4, <1>1, InvTypes DEF ListUnsettled, StopPlaces
  <2>5. CASE StopDone BY <2>5, InvTypes DEF StopDone, StopPlaces
  <2>6. CASE StopAgain BY <2>6, InvTypes DEF StopAgain, StopPlaces
  <2> QED BY <2>1, <2>2, <2>3, <2>4, <2>5, <2>6
<1>3. /\ UNCHANGED <<runVars, pauseVars, stack, endVars, turnVars>>
      /\ stopping' \in BOOLEAN
  BY InvTypes DEF StopCalled, ListPaused, Drain, ListUnsettled, StopDone, StopAgain
<1> QED BY <1>2, <1>3, InvTypes, SameControls DEF runVars, pauseVars, endVars, turnVars

(***************************************************************************)
(* Steps that change a run's control or the table                          *)
(***************************************************************************)
\* Runs only begin, are only ended, and do not come back to the table.
Onward == /\ begun \subseteq begun' /\ begun' \subseteq Runs /\ table' \subseteq begun'
          /\ control' \in [Runs -> Controls]
          /\ \A r \in begun : /\ Ended(control[r]) => Ended(control'[r])
                              /\ control[r].settled => control'[r].settled
                              /\ r \notin table => r \notin table'

\* In such a step the calls pending before it stay allowed.
LEMMA OlderCalls ==
    ASSUME IInv, Onward
    PROVE  stack \in [Threads -> Seq(Calls(begun', control', table'))]
<1>1. Calls(begun, control, table) \subseteq Calls(begun', control', table')
  BY CallsMonotonic DEF Onward
<1>2. Seq(Calls(begun, control, table)) \subseteq Seq(Calls(begun', control', table'))
  BY <1>1, SeqMonotonic
<1> QED BY <1>2, InvTypes

\* Continue, in such a step.
LEMMA ContinueOnward ==
    ASSUME IInv, Onward, NEW t \in Threads, ~Idle(t),
           NEW frames \in Seq(Calls(begun', control', table'))
    PROVE  Continue(t, frames) \in [Threads -> Seq(Calls(begun', control', table'))]
BY OlderCalls, ContinueCalls, TopCall DEF Continue

\* Such a step keeps the invariant if the calls it adds are allowed.
LEMMA OnwardStep ==
    ASSUME IInv, Onward, ControlInv',
           stack' \in [Threads -> Seq(Calls(begun', control', table'))],
           UNCHANGED <<pauseVars, endVars, stopping, turnVars>>,
           status' \in [Runs -> Statuses],
           stop' \in [at : StopPlaces, left : SUBSET begun, clean : BOOLEAN,
                      seen : SUBSET Runs]
    PROVE  IInv'
<1>1. stack' \in [Threads -> Seq(FrameSet)] BY CallsTyped
<1>2. TypeOK'
  BY <1>1 DEF IInv, TypeOK, Onward, pauseVars, endVars, turnVars
<1>3. StackInv' BY DEF StackInv
<1>4. PauseInv' BY DEF IInv, PauseInv, Onward, pauseVars
<1>5. StopInv' BY DEF StopInv, Onward
<1>6. StampedInv'
  <2>1. SettledRuns \subseteq SettledRuns' BY InvTypes DEF SettledRuns, Onward
  <2>2. Seq(SettledRuns) \subseteq Seq(SettledRuns') BY <2>1, SeqMonotonic
  <2> QED BY <2>2, InvTypes DEF StampedInv, endVars
<1> QED BY <1>2, <1>3, <1>4, <1>5, <1>6 DEF IInv

\* A run the engine gives up on is one it decided to end.
LEMMA MarkStoppedOnward ==
    ASSUME IInv, NEW r \in begun, MarkStopped(r), UNCHANGED <<table, begun>>
    PROVE  Onward /\ ControlInv' /\ Ended(control'[r])
<1>1. r \in Runs /\ control[r] \in Controls BY InvTypes
<1>2. control' \in [Runs -> Controls]
  BY <1>1, InvTypes DEF MarkStopped, Controls
<1>3. Onward /\ Ended(control'[r])
  BY <1>1, <1>2, InvTypes DEF MarkStopped, Onward, Ended, Controls
<1>4. ControlInv'
  BY <1>1, InvTypes DEF MarkStopped, IInv, ControlInv, Ended, Controls
<1> QED BY <1>3, <1>4

\* Giving up on a run leaves at most one more call, to abandon it.
LEMMA GiveUpOnward ==
    ASSUME IInv, NEW t \in Threads, NEW r \in begun, NEW rest,
           GiveUp(t, r, rest), UNCHANGED <<table, begun>>,
           rest \in Seq(Calls(begun, control, table))
    PROVE  /\ Onward /\ ControlInv'
           /\ stack' \in [Threads -> Seq(Calls(begun', control', table'))]
<1> DEFINE C == Calls(begun', control', table')
<1>1. Onward /\ ControlInv' /\ Ended(control'[r])
  BY MarkStoppedOnward DEF GiveUp
<1>2. r \in begun' /\ begun' \subseteq Runs BY <1>1 DEF Onward
<1>3. Frame("abandon", r, None) \in C BY <1>1, <1>2, CallsAbout
<1>4. rest \in Seq(C)
  <2>1. Calls(begun, control, table) \subseteq C BY <1>1, CallsMonotonic DEF Onward
  <2> QED BY <2>1, SeqMonotonic
<1>5. << Frame("abandon", r, None) >> \o rest \in Seq(C) BY <1>3, <1>4
<1>6. stack' \in [Threads -> Seq(C)]
  BY <1>1, <1>4, <1>5, OlderCalls DEF GiveUp
<1> QED BY <1>1, <1>6

\* Stop and the ordered queue of a stopping engine giving up on runs.
LEMMA GiveUpSteps ==
    ASSUME IInv, NEW t \in Threads, TurnRefused(t) \/ AbandonNext
    PROVE  IInv'
<1>1. CASE TurnRefused(t)
  <2>1. ~Idle(t) /\ Top(t).op = "turn" BY <1>1 DEF TurnRefused, At
  <2>2. Top(t).run \in begun BY <2>1, TopCall
  <2>3. Tail(stack[t]) \in Seq(Calls(begun, control, table))
    <3>1. stack[t] # << >> /\ stack[t] \in Seq(Calls(begun, control, table))
      BY <2>1, TopCall
    <3> QED BY <3>1
  <2>4. /\ Onward /\ ControlInv'
        /\ stack' \in [Threads -> Seq(Calls(begun', control', table'))]
    BY <1>1, <2>2, <2>3, GiveUpOnward DEF TurnRefused
  <2> QED BY <1>1, <2>4, OnwardStep, InvTypes DEF TurnRefused, stopVars
<1>2. CASE AbandonNext
  <2>1. PICK r \in stop.left :
           stop' = [stop EXCEPT !.left = @ \ {r}] /\ GiveUp(Stopper, r, << >>)
    BY <1>2 DEF AbandonNext
  <2>2. r \in begun /\ Stopper \in Threads BY InvTypes DEF Stopper, Threads
  <2>3. << >> \in Seq(Calls(begun, control, table)) OBVIOUS
  <2>4. /\ Onward /\ ControlInv'
        /\ stack' \in [Threads -> Seq(Calls(begun', control', table'))]
    BY <1>2, <2>1, <2>2, <2>3, GiveUpOnward DEF AbandonNext
  <2>5. stop' \in [at : StopPlaces, left : SUBSET begun, clean : BOOLEAN,
                   seen : SUBSET Runs]
    BY <2>1, InvTypes
  <2> QED BY <1>2, <2>4, <2>5, OnwardStep, InvTypes DEF AbandonNext
<1> QED BY <1>1, <1>2

\* A resumed run, or a parent released, that a stopping engine gives up on.
LEMMA StoppedSteps ==
    ASSUME IInv, NEW t \in Threads, ResumeWaitStopped(t) \/ AbandonParent(t)
    PROVE  IInv'
<1> DEFINE r == Top(t).run
<1>1. ~Idle(t) /\ Top(t).op \in {"resumeWait", "abandonParent"}
  BY DEF ResumeWaitStopped, AbandonParent, At
<1>2. r \in begun BY <1>1, TopCall
<1>3. CASE /\ AbandonParent(t) /\ r \notin table
  BY <1>1, <1>3, ContinueAbout, CallStep, InvTypes
     DEF AbandonParent, runVars, turnVars
<1>4. CASE ResumeWaitStopped(t) \/ (AbandonParent(t) /\ r \in table)
  <2> DEFINE C == Calls(begun', control', table')
  <2>1. Onward /\ ControlInv' /\ Ended(control'[r])
    BY <1>2, <1>4, MarkStoppedOnward DEF ResumeWaitStopped, AbandonParent
  <2>2. r \in begun' /\ begun' \subseteq Runs BY <1>2, <2>1 DEF Onward
  <2>3. Settle(r, "cancelled") \in Seq(C) BY <2>1, <2>2, SettleCalls DEF Outcomes
  <2>4. << >> \in Seq(C) OBVIOUS
  <2>5. IfHeld(r, Settle(r, "cancelled")) \in Seq(C) BY <2>3, <2>4 DEF IfHeld
  <2>6. stack' \in [Threads -> Seq(C)]
    BY <1>1, <1>4, <2>1, <2>3, <2>5, ContinueOnward DEF ResumeWaitStopped, AbandonParent
  <2>7. /\ UNCHANGED <<pauseVars, endVars, stopVars, turnVars>>
        /\ status' \in [Runs -> Statuses]
    BY <1>4, InvTypes DEF ResumeWaitStopped, AbandonParent
  <2> QED BY <2>1, <2>6, <2>7, OnwardStep, InvTypes DEF stopVars
<1> QED BY <1>3, <1>4

\* What a step that changes one control keeps of the others.
LEMMA OneControl ==
    ASSUME IInv, NEW r \in begun, NEW c \in Controls,
           control' = [control EXCEPT ![r] = c], UNCHANGED begun, table' \subseteq table,
           Ended(control[r]) => Ended(c), control[r].settled => c.settled,
           c.done => Ended(c),
           c.settled => /\ c.final \in Outcomes
                        /\ c.final = "cancelled" <=> c.cancelRequested
    PROVE  Onward /\ ControlInv' /\ control'[r] = c
<1>1. r \in Runs BY InvTypes
<1>2. control' \in [Runs -> Controls] /\ control'[r] = c BY <1>1, InvTypes
<1>3. Onward BY <1>1, <1>2, InvTypes DEF Onward
<1>4. ControlInv' BY <1>1, <1>2, InvTypes DEF IInv, ControlInv
<1> QED BY <1>2, <1>3, <1>4

\* The turn of a queued run comes.
LEMMA TurnStartsStep ==
    ASSUME IInv, NEW t \in Threads, TurnStarts(t)
    PROVE  IInv'
<1> DEFINE r == Top(t).run
           c == [control[r] EXCEPT !.queued = FALSE]
           C == Calls(begun', control', table')
<1>1. ~Idle(t) /\ Top(t).op = "turn" BY DEF TurnStarts, At
<1>2. r \in begun /\ r \in Runs /\ control[r] \in Controls BY <1>1, TopCall, InvTypes
<1>3. c \in Controls BY <1>2 DEF Controls
<1>4. control' = [control EXCEPT ![r] = c] BY DEF TurnStarts
<1>5. Onward /\ ControlInv'
  <2>1. /\ c.settled = control[r].settled /\ c.final = control[r].final
        /\ c.cancelRequested = control[r].cancelRequested
        /\ c.stopped = control[r].stopped /\ c.done = control[r].done
    BY <1>2 DEF Controls
  <2>2. Ended(c) = Ended(control[r]) BY <2>1 DEF Ended
  <2>3. /\ c.done => Ended(c)
        /\ c.settled => /\ c.final \in Outcomes
                        /\ c.final = "cancelled" <=> c.cancelRequested
    BY <1>2, <2>1, <2>2 DEF IInv, ControlInv
  <2> QED BY <1>2, <1>3, <1>4, <2>1, <2>2, <2>3, OneControl, InvTypes DEF TurnStarts
<1>6. r \in begun' /\ begun' \subseteq Runs BY <1>2, <1>5 DEF Onward
<1>7. /\ Frame("await", r, None) \in C /\ Frame("run", r, 1) \in C
      /\ Frame("signal", r, None) \in C
  BY <1>6, CallsAbout
<1>8. << Frame("await", r, None) >> \in Seq(C)
  BY <1>7
<1>9. << Frame("run", r, 1), Frame("signal", r, None) >> \in Seq(C)
  BY <1>7
<1>10. stack' \in [Threads -> Seq(C)]
  BY <1>1, <1>2, <1>5, <1>8, <1>9, ContinueOnward, SpawnCalls DEF TurnStarts
<1> QED BY <1>5, <1>10, OnwardStep, InvTypes DEF TurnStarts, stopVars

\* An accepted cancel is of a run that is open, and ends it.
LEMMA CancelledOnward ==
    ASSUME IInv, NEW r \in begun, ~control[r].settled,
           control' = [control EXCEPT ![r].cancelRequested = TRUE],
           UNCHANGED <<table, begun>>
    PROVE  Onward /\ ControlInv' /\ Ended(control'[r])
<1> DEFINE c == [control[r] EXCEPT !.cancelRequested = TRUE]
<1>1. r \in Runs /\ control[r] \in Controls BY InvTypes
<1>2. /\ c \in Controls /\ c.cancelRequested /\ ~c.settled
      /\ control' = [control EXCEPT ![r] = c]
  BY <1>1 DEF Controls
<1>3. Ended(c) BY <1>2 DEF Ended
<1> QED BY <1>2, <1>3, OneControl, InvTypes

\* A caller's cancel, and one passed on to a sub-workflow.
LEMMA CancelSteps ==
    ASSUME IInv, NEW t \in Threads,
           (\E r \in Cancels : Cancel(r)) \/ CancelChild(t)
    PROVE  IInv'
<1> DEFINE C == Calls(begun', control', table')
<1>1. CASE \E r \in Cancels : Cancel(r)
  <2>1. PICK r \in Cancels : Cancel(r) BY <1>1
  <2>2. r \in begun /\ ~control[r].settled
    BY <2>1, InvTypes DEF Cancel, Cancellable
  <2>3. Onward /\ ControlInv' /\ Ended(control'[r])
    BY <2>1, <2>2, CancelledOnward DEF Cancel
  <2>4. r \in begun' /\ begun' \subseteq Runs BY <2>2, <2>3 DEF Onward
  <2>5. Frame("abandon", r, "children") \in C BY <2>3, <2>4, CallsAbout
  <2>6. << Frame("abandon", r, "children") >> \in Seq(C) BY <2>5
  <2>7. stack' \in [Threads -> Seq(C)]
    BY <2>1, <2>3, <2>6, OlderCalls DEF Cancel
  <2> QED BY <2>1, <2>3, <2>7, OnwardStep, InvTypes DEF Cancel, stopVars
<1>2. CASE CancelChild(t)
  <2> DEFINE r == Top(t).run
  <2>1. ~Idle(t) /\ Top(t).op = "cancel" BY <1>2 DEF CancelChild, At
  <2>2. r \in begun BY <2>1, TopCall
  <2>3. CASE ~Cancellable(r)
    BY <1>2, <2>1, <2>3, ContinueAbout, CallStep, InvTypes
       DEF CancelChild, runVars, turnVars
  <2>4. CASE Cancellable(r)
    <3>1. Onward /\ ControlInv' /\ Ended(control'[r])
      BY <1>2, <2>2, <2>4, CancelledOnward DEF CancelChild, Cancellable
    <3>2. r \in begun' /\ begun' \subseteq Runs BY <2>2, <3>1 DEF Onward
    <3>3. Frame("abandon", r, "children") \in C BY <3>1, <3>2, CallsAbout
    <3>4. << Frame("abandon", r, "children") >> \in Seq(C) BY <3>3
    <3>5. stack' \in [Threads -> Seq(C)]
      <4>1. stack' = Continue(t, << Frame("abandon", r, "children") >>)
        BY <1>2, <2>4 DEF CancelChild
      <4> QED BY <2>1, <3>1, <3>4, <4>1, ContinueOnward
    <3>6. /\ UNCHANGED <<pauseVars, endVars, stopVars, turnVars>>
          /\ status' \in [Runs -> Statuses]
      BY <1>2, <2>4, InvTypes DEF CancelChild
    <3> QED BY <3>1, <3>5, <3>6, OnwardStep, InvTypes DEF stopVars
  <2> QED BY <2>3, <2>4
<1> QED BY <1>1, <1>2

\* Cancelling the context of a run somebody decided to end.
LEMMA AbandonStep ==
    ASSUME IInv, NEW t \in Threads, Abandon(t)
    PROVE  IInv'
<1> DEFINE r == Top(t).run
           c == [control[r] EXCEPT !.done = TRUE]
           C == Calls(begun', control', table')
<1>1. ~Idle(t) /\ Top(t).op = "abandon" BY DEF Abandon, At
<1>2. /\ Top(t) \in FrameSet /\ Top(t) \in Calls(begun, control, table)
      /\ r \in begun /\ r \in Runs /\ control[r] \in Controls
  BY <1>1, TopCall, InvTypes
<1>3. Ended(control[r]) /\ Top(t).arg \in {None, "children"}
  BY <1>1, <1>2 DEF Calls, FrameSet
<1>4. /\ c \in Controls /\ c.settled = control[r].settled
      /\ c.final = control[r].final /\ c.cancelRequested = control[r].cancelRequested
      /\ c.stopped = control[r].stopped
  BY <1>2 DEF Controls
<1>5. Ended(c) BY <1>3, <1>4 DEF Ended
<1>6. c.settled => /\ c.final \in Outcomes
                   /\ c.final = "cancelled" <=> c.cancelRequested
  BY <1>2, <1>4 DEF IInv, ControlInv
<1>7. Onward /\ ControlInv' /\ control'[r] = c
  BY <1>2, <1>4, <1>5, <1>6, OneControl, InvTypes DEF Abandon
<1>8. r \in begun' /\ begun' \subseteq Runs /\ Ended(control'[r])
  BY <1>2, <1>5, <1>7 DEF Onward
<1>9. Settle(r, "cancelled") \in Seq(C) BY <1>8, SettleCalls DEF Outcomes
<1>10. Frame("claimWait", r, Top(t).arg) \in C BY <1>3, <1>8, CallsAbout
<1>11. << Frame("claimWait", r, Top(t).arg) >> \in Seq(C) BY <1>10
<1>12. stack' \in [Threads -> Seq(C)]
  BY <1>1, <1>7, <1>9, <1>11, ContinueOnward DEF Abandon
<1> QED BY <1>7, <1>12, OnwardStep, InvTypes DEF Abandon, stopVars

\* The sweep only evicts runs that have settled.
LEMMA SweepStep ==
    ASSUME IInv, Sweep
    PROVE  IInv'
<1>1. PICK i \in Evictable :
         /\ table' = table \ {stamped[i]}
         /\ control' = [control EXCEPT ![stamped[i]].done = TRUE]
  BY DEF Sweep
<1> DEFINE r == stamped[i]
           c == [control[r] EXCEPT !.done = TRUE]
<1>2. r \in SettledRuns
  <2>1. i \in 1..Len(stamped) BY <1>1 DEF Evictable
  <2> QED BY <2>1, InvTypes
<1>3. r \in begun /\ r \in Runs /\ control[r].settled /\ control[r] \in Controls
  BY <1>2, InvTypes DEF SettledRuns
<1>4. /\ c \in Controls /\ c.settled = control[r].settled
      /\ c.final = control[r].final /\ c.cancelRequested = control[r].cancelRequested
  BY <1>3 DEF Controls
<1>5. Ended(c) BY <1>3, <1>4 DEF Ended
<1>6. c.settled => /\ c.final \in Outcomes
                   /\ c.final = "cancelled" <=> c.cancelRequested
  BY <1>3, <1>4 DEF IInv, ControlInv
<1>7. control' = [control EXCEPT ![r] = c] BY <1>1
<1>8. UNCHANGED <<begun, status, pauseVars, stack, endVars, stopVars, turnVars>>
  BY DEF Sweep
<1>9. Onward /\ ControlInv'
  BY <1>1, <1>3, <1>4, <1>5, <1>6, <1>7, <1>8, OneControl
<1>10. stack' \in [Threads -> Seq(Calls(begun', control', table'))]
  BY <1>8, <1>9, OlderCalls
<1> QED BY <1>8, <1>9, <1>10, OnwardStep, InvTypes DEF stopVars

\* claimSettle makes an accepted cancel, and nothing else, cancelled.
LEMMA DecidedOutcome ==
    ASSUME NEW c \in Controls, NEW o \in Outcomes \cup {EngineStopped},
           o = "cancelled" => c.cancelRequested \/ c.stopped
    PROVE  /\ Decided(c, o).final \in Outcomes /\ Decided(c, o).byStop \in BOOLEAN
           /\ Decided(c, o).final = "cancelled" <=> c.cancelRequested
BY DEF Decided, Outcome, Outcomes, EngineStopped, Controls

\* Deciding the outcome of a run, once.
LEMMA ClaimStep ==
    ASSUME IInv, NEW t \in Threads, Claim(t)
    PROVE  IInv'
<1> DEFINE r == Top(t).run
           o == Top(t).arg
           d == Decided(control[r], o)
<1>1. ~Idle(t) /\ Top(t).op = "claim" BY DEF Claim, At
<1>2. /\ Top(t) \in FrameSet /\ Top(t) \in Calls(begun, control, table)
      /\ r \in begun /\ r \in Runs /\ control[r] \in Controls
      /\ begun \subseteq Runs
  BY <1>1, TopCall, InvTypes
<1>3. o \in Outcomes \cup {EngineStopped} /\ (o = "cancelled" => Ended(control[r]))
  BY <1>1, <1>2 DEF Calls, FrameSet
<1>4. UNCHANGED <<table, begun, status, pauseVars, stamped, recorded, stopVars, turnVars>>
  BY DEF Claim
<1>5. CASE r \in table /\ control[r].settled
  <2>1. /\ settling' = settling - 1 /\ stack' = Continue(t, << >>)
        /\ UNCHANGED control
    BY <1>5 DEF Claim
  <2>2. stack' \in [Threads -> Seq(Calls(begun, control, table))]
    BY <1>1, <2>1, ContinueAbout
  <2>3. settling' \in Int BY <2>1, InvTypes
  <2> QED BY <1>4, <2>1, <2>2, <2>3, InvTypes, SameControls
          DEF pauseVars, stopVars, turnVars
<1>6. CASE r \in table /\ ~control[r].settled
  <2> DEFINE c == [control[r] EXCEPT !.settled = TRUE, !.final = d.final,
                                     !.byStop = d.byStop]
             C == Calls(begun', control', table')
  <2>1. /\ control' = [control EXCEPT ![r].settled = TRUE, ![r].final = d.final,
                                      ![r].byStop = d.byStop]
        /\ stack' = Continue(t, << Frame("record", r, d.final) >>)
        /\ UNCHANGED settling
    BY <1>6 DEF Claim
  <2>2. /\ d.final \in Outcomes /\ d.byStop \in BOOLEAN
        /\ d.final = "cancelled" <=> control[r].cancelRequested
    <3>1. o = "cancelled" => control[r].cancelRequested \/ control[r].stopped
      BY <1>3, <1>6 DEF Ended
    <3> QED BY <1>2, <1>3, <3>1, DecidedOutcome
  <2>3. control' = [control EXCEPT ![r] = c] BY <1>2, <2>1, InvTypes
  <2>4. /\ c \in Controls /\ c.settled /\ c.final = d.final
        /\ c.cancelRequested = control[r].cancelRequested
    <3> HIDE DEF d
    <3> QED BY <1>2, <2>2 DEF Controls
  <2>5. Ended(c) BY <2>4 DEF Ended
  <2>6. Onward /\ ControlInv' /\ control'[r] = c
    <3> HIDE DEF c, d
    <3> QED BY <1>2, <1>4, <2>2, <2>3, <2>4, <2>5, OneControl
  <2>7. r \in begun' /\ control'[r].settled BY <1>2, <2>4, <2>6 DEF Onward
  <2>8. Frame("record", r, d.final) \in C
    <3> HIDE DEF c, d
    <3> QED BY <1>2, <2>2, <2>7 DEF Calls, Frame, FrameSet
  <2>9. << Frame("record", r, d.final) >> \in Seq(C) BY <2>8
  <2>10. stack' \in [Threads -> Seq(C)]
    <3> HIDE DEF c, d
    <3> QED BY <1>1, <2>1, <2>6, <2>9, ContinueOnward
  <2>11. UNCHANGED <<pauseVars, endVars, stopping, turnVars, stop, status>>
    BY <1>4, <2>1 DEF endVars, stopVars
  <2> QED BY <2>6, <2>10, <2>11, OnwardStep, InvTypes
<1>7. CASE r \notin table
  <2>1. /\ stack' = Continue(t, << Frame("record", r, Outcome(o)) >>)
        /\ UNCHANGED <<control, settling>>
    BY <1>7 DEF Claim
  <2>2. Outcome(o) \in Outcomes BY <1>3 DEF Outcome, Outcomes
  <2>3. Frame("record", r, Outcome(o)) \in Calls(begun, control, table)
    BY <1>2, <1>7, <2>2 DEF Calls, Frame, FrameSet
  <2>4. << Frame("record", r, Outcome(o)) >> \in Seq(Calls(begun, control, table))
    BY <2>3
  <2>5. stack' \in [Threads -> Seq(Calls(begun, control, table))]
    BY <1>1, <2>1, <2>4, ContinueHere
  <2>6. UNCHANGED <<runVars, pauseVars, endVars, stopVars, turnVars>>
    BY <1>4, <2>1 DEF runVars, endVars
  <2> QED BY <2>5, <2>6, CallStep, InvTypes DEF turnVars
<1> QED BY <1>5, <1>6, <1>7

\* A run begins with a control nobody has touched.
LEMMA NewRunOnward ==
    ASSUME IInv, NEW r \in Runs \ begun, NEW q \in BOOLEAN,
           begun' = begun \cup {r}, table' = table \cup {r},
           control' = [control EXCEPT ![r] = NewControl(q)]
    PROVE  Onward /\ ControlInv'
<1>1. NewControl(q) \in Controls /\ ~NewControl(q).settled /\ ~NewControl(q).done
  BY DEF NewControl, Controls
<1>2. control' \in [Runs -> Controls] BY <1>1, InvTypes
<1>3. \A s \in begun : control'[s] = control[s] BY InvTypes
<1>4. Onward BY <1>2, <1>3, InvTypes DEF Onward
<1>5. ControlInv'
  <2>1. control'[r] = NewControl(q) /\ r \in begun' BY InvTypes
  <2>2. \A s \in Runs \ {r} : control'[s] = control[s] BY InvTypes
  <2>3. \A s \in begun' : s = r \/ (s \in Runs \ {r} /\ s \in begun)
    BY InvTypes
  <2> HIDE DEF NewControl
  <2> QED BY <1>1, <2>1, <2>2, <2>3 DEF IInv, ControlInv
<1> QED BY <1>4, <1>5

\* A trigger or a manual request begins a run and its goroutine.
LEMMA BeginStep ==
    ASSUME IInv, NEW r \in TopLevel, Begin(r)
    PROVE  IInv'
<1> DEFINE C == Calls(begun', control', table')
<1>1. r \in Runs \ begun BY RunsAssumption DEF Begin, Put
<1>2. Onward /\ ControlInv' BY <1>1, NewRunOnward DEF Begin, Put
<1>3. r \in begun' /\ begun' \subseteq Runs BY <1>2 DEF Begin, Put, Onward
<1>4. Frame("run", r, 1) \in C BY <1>3, CallsAbout
<1>5. stack' \in [Threads -> Seq(C)]
  BY <1>1, <1>2, <1>4, OlderCalls, SpawnHere DEF Begin
<1>6. status' \in [Runs -> Statuses] BY InvTypes DEF Begin, Put, Statuses
<1> QED BY <1>2, <1>5, <1>6, OnwardStep, InvTypes DEF Begin, stopVars

\* The runs of an event are queued in their order, and then take their turns.
LEMMA EnqueueStep ==
    ASSUME IInv, NEW t \in Threads, Enqueue(t)
    PROVE  IInv'
<1> DEFINE r == Top(t).run
           i == Top(t).arg
           C == Calls(begun', control', table')
           next == Frame("enqueue", Queue[i + 1], i + 1)
<1>1. ~Idle(t) /\ Top(t).op = "enqueue" BY DEF Enqueue, At
<1>2. Top(t) \in FrameSet /\ Top(t) \in Calls(begun, control, table)
  BY <1>1, TopCall
<1>3. /\ i \in 1..Len(Queue) /\ r = Queue[i]
      /\ \A j \in 1..(i - 1) : Queue[j] \in begun
  BY <1>1, <1>2 DEF Calls, FrameSet
<1>4. r \in Runs \ begun BY <1>3, QueueTyped DEF Enqueue, Put
<1>5. Onward /\ ControlInv' BY <1>4, NewRunOnward DEF Enqueue, Put
<1>6. begun' \subseteq Runs BY <1>5 DEF Onward
<1>7. \A j \in 1..i : Queue[j] \in begun'
  <2> TAKE j \in 1..i
  <2>1. j \in 1..(i - 1) \/ j = i BY <1>3, QueueTyped
  <2> QED BY <1>3, <2>1 DEF Enqueue, Put
<1>8. stack' \in [Threads -> Seq(C)]
  <2>1. CASE i < Len(Queue)
    <3>1. i + 1 \in 1..Len(Queue) /\ (i + 1) - 1 = i BY <1>3, <2>1, QueueTyped
    <3>2. Queue[i + 1] \in Queued BY <3>1, QueueTyped
    <3>3. next \in C BY <1>7, <3>1, <3>2 DEF Calls, Frame, FrameSet
    <3>4. << next >> \in Seq(C) BY <3>3
    <3>5. stack' = Continue(t, << next >>) BY <2>1 DEF Enqueue
    <3> QED BY <1>1, <1>5, <3>4, <3>5, ContinueOnward
  <2>2. CASE ~(i < Len(Queue))
    <3>1. i = Len(Queue) BY <1>3, <2>2, QueueTyped
    <3>2. \A j \in 1..Len(Queue) : Frame("turn", Queue[j], None) \in C
      BY <1>6, <1>7, <3>1, CallsAbout
    <3>3. Turns \in Seq(C) BY <3>2, QueueTyped DEF Turns
    <3>4. stack' = Continue(t, Turns) BY <2>2 DEF Enqueue
    <3> QED BY <1>1, <1>5, <3>3, <3>4, ContinueOnward
  <2> QED BY <2>1, <2>2
<1>9. status' \in [Runs -> Statuses] BY InvTypes DEF Enqueue, Put, Statuses
<1> QED BY <1>5, <1>8, <1>9, OnwardStep, InvTypes DEF Enqueue, stopVars

\* A run starting a sub-workflow, to wait for it or not.
LEMMA StartChildSteps ==
    ASSUME IInv, NEW t \in Threads, SubWorkflowReached(t) \/ SubWorkflowDetached(t)
    PROVE  IInv'
<1> DEFINE r == Top(t).run
           n == Top(t).arg
           C == Calls(begun', control', table')
           Registers(c) == << Frame("register", r, [child |-> c, at |-> n]) >>
           GoesOn == << Frame("run", r, n + 1) >>
<1>1. ~Idle(t) /\ Top(t).op = "run"
  BY DEF SubWorkflowReached, SubWorkflowDetached, AtStep, At
<1>2. Top(t) \in FrameSet /\ r \in begun /\ r \in Runs BY <1>1, TopCall
<1>3. n \in Nat /\ n + 1 \in Nat BY <1>1, <1>2 DEF FrameSet
<1>4. PICK c \in SubRuns :
         /\ StartChild(t, c, Registers(c)) \/ StartChild(t, c, GoesOn)
         /\ status' \in [Runs -> Statuses]
  BY <1>2, InvTypes DEF SubWorkflowReached, SubWorkflowDetached, Statuses, SubRuns
<1>5. c \in Runs \ begun BY <1>4 DEF StartChild, SubRuns
<1>6. Onward /\ ControlInv'
  BY <1>4, <1>5, NewRunOnward DEF StartChild
<1>7. c \in begun' /\ r \in begun' /\ begun' \subseteq Runs
  BY <1>2, <1>4, <1>6 DEF StartChild, Onward
<1>8. /\ Frame("register", r, [child |-> c, at |-> n]) \in C
      /\ Frame("run", r, n + 1) \in C /\ Frame("run", c, 1) \in C
  BY <1>3, <1>7, CallsAbout
<1>9. Registers(c) \in Seq(C) /\ GoesOn \in Seq(C) BY <1>8
<1>10. stack' \in [Threads -> Seq(C)]
  <2>1. /\ Continue(t, Registers(c)) \in [Threads -> Seq(C)]
        /\ Continue(t, GoesOn) \in [Threads -> Seq(C)]
    BY <1>1, <1>6, <1>9, ContinueOnward
  <2> DEFINE Started(st) == Spawn(st, c, << Frame("run", c, 1) >>)
  <2>2. /\ Started(Continue(t, Registers(c))) \in [Threads -> Seq(C)]
        /\ Started(Continue(t, GoesOn)) \in [Threads -> Seq(C)]
    BY <1>5, <1>8, <2>1, SpawnHere
  <2>3. stack' \in {Started(Continue(t, Registers(c))), Started(Continue(t, GoesOn))}
    BY <1>4 DEF StartChild
  <2> QED BY <2>2, <2>3
<1> QED BY <1>4, <1>6, <1>10, OnwardStep, InvTypes DEF StartChild, stopVars

(***************************************************************************)
(* The theorems                                                            *)
(***************************************************************************)
\* An engine that has just started satisfies the invariant.
LEMMA InitInv == Init => IInv
<1> SUFFICES ASSUME Init PROVE IInv OBVIOUS
<1>1. NewControl(FALSE) \in Controls /\ ~NewControl(FALSE).done /\ ~NewControl(FALSE).settled
  BY DEF NewControl, Controls
<1>2. TypeOK
  <2>1. << >> \in Seq(FrameSet) /\ << >> \in Seq(Runs) /\ << >> \in Seq(Outcomes)
    OBVIOUS
  <2>2. /\ control \in [Runs -> Controls] /\ status \in [Runs -> Statuses]
        /\ recorded \in [Runs -> Seq(Outcomes)]
    BY <1>1, <2>1 DEF Init, Statuses
  <2>3. stack \in [Threads -> Seq(FrameSet)] /\ stamped \in Seq(Runs)
    BY <2>1 DEF Init
  <2>4. stop \in [at : StopPlaces, left : SUBSET Runs, clean : BOOLEAN,
                  seen : SUBSET Runs]
    BY DEF Init, StopPlaces
  <2>5. /\ table = {} /\ begun = {} /\ armed = {} /\ waiters = {}
        /\ returned = {} /\ overran = {}
    BY DEF Init
  <2>6. settling \in Int
    BY DEF Init
  <2>7. stopping \in BOOLEAN
    BY DEF Init
  <2> QED BY <2>2, <2>3, <2>4, <2>5, <2>6, <2>7 DEF TypeOK
<1>3. StackInv /\ StampedInv BY DEF Init, StackInv, StampedInv
<1>4. ControlInv BY <1>1 DEF Init, ControlInv
<1>5. PauseInv /\ StopInv BY DEF Init, PauseInv, StopInv
<1> QED BY <1>2, <1>3, <1>4, <1>5 DEF IInv

\* What a thread does of its own accord keeps it.
LEMMA ThreadInv ==
    ASSUME IInv, NEW t \in Threads, ThreadStep(t)
    PROVE  IInv'
<1>1. CASE Enqueue(t) BY <1>1, EnqueueStep
<1>2. CASE TurnRefused(t) BY <1>2, GiveUpSteps
<1>3. CASE TurnStarts(t) BY <1>3, TurnStartsStep
<1>4. CASE TurnSkipped(t) \/ TurnEnds(t) \/ Signal(t) BY <1>4, QueueSteps
<1>5. CASE \/ StopIfCancelled(t) \/ RunCompletes(t) \/ RunFails(t) \/ TaskSkipped(t)
           \/ ActionStarts(t) \/ ActionAbandoned(t)
  BY <1>5, TaskSteps
<1>6. CASE WaitReached(t) \/ ArmRefused(t) \/ ArmWait(t) \/ ResumeWait(t) \/ Reenter(t)
  BY <1>6, WaitSteps
<1>7. CASE ResumeWaitStopped(t) \/ AbandonParent(t) BY <1>7, StoppedSteps
<1>8. CASE SubWorkflowReached(t) \/ SubWorkflowDetached(t) BY <1>8, StartChildSteps
<1>9. CASE RegisterRefused(t) \/ Register(t) BY <1>9, RegisterSteps
<1>10. CASE ReleaseNobody(t) \/ Release(t) BY <1>10, ReleaseSteps
<1>11. CASE ResumeParent(t) BY <1>11, ResumeParentStep
<1>12. CASE CancelChild(t) BY <1>12, CancelSteps
<1>13. CASE Abandon(t) BY <1>13, AbandonStep
<1>14. CASE ClaimWait(t) \/ ClaimWaiter(t) BY <1>14, ClaimPauseSteps
<1>15. CASE Count(t) BY <1>15, CountStep
<1>16. CASE Claim(t) BY <1>16, ClaimStep
<1>17. CASE Record(t) BY <1>17, RecordStep
<1> QED
  BY <1>1, <1>2, <1>3, <1>4, <1>5, <1>6, <1>7, <1>8, <1>9, <1>10, <1>11, <1>12,
     <1>13, <1>14, <1>15, <1>16, <1>17
     DEF ThreadStep

\* Every step keeps it.
LEMMA NextInv == IInv /\ [Next]_vars => IInv'
<1> SUFFICES ASSUME IInv, [Next]_vars PROVE IInv' OBVIOUS
<1>1. Stopper \in Threads BY DEF Stopper, Threads
<1>2. CASE \E t \in Threads : ThreadStep(t) BY <1>2, ThreadInv
<1>3. CASE StopStep
  BY <1>1, <1>3, StopWaits, GiveUpSteps DEF StopStep
<1>4. CASE Environment
  <2>1. CASE \E r \in TopLevel : Begin(r) BY <2>1, BeginStep
  <2>2. CASE \E r \in Cancels : Cancel(r) BY <1>1, <2>2, CancelSteps
  <2>3. CASE OrderedEvent BY <1>1, <2>3, QueueSteps
  <2>4. CASE \E w \in armed : WaitEnds(w) BY <2>4, WaitEndsStep
  <2>5. CASE \E t \in Threads : ActionReturns(t) BY <2>5, TaskSteps
  <2>6. CASE StopCalled BY <2>6, StopWaits
  <2>7. CASE Sweep BY <2>7, SweepStep
  <2> QED BY <1>4, <2>1, <2>2, <2>3, <2>4, <2>5, <2>6, <2>7 DEF Environment
<1>5. CASE UNCHANGED vars
  BY <1>5 DEF vars, IInv, TypeOK, StackInv, ControlInv, PauseInv, StopInv, StampedInv,
              SettledRuns, Frames
<1> QED BY <1>2, <1>3, <1>4, <1>5 DEF Next

\* The invariant holds throughout: among the rest, no call is pending about a
\* run that has not begun, and a call that would end a run as cancelled is
\* pending only for a run a caller or Stop has decided to end.
THEOREM Invariance == Spec => []IInv
BY InitInv, NextInv, PTL DEF Spec

\* The state keeps its shape, however many runs there are and whatever their
\* definitions: no step of a goroutine reads a run that is not there.
THEOREM TypeCorrect == Spec => []TypeOK
<1>1. IInv => TypeOK BY DEF IInv
<1> QED BY <1>1, Invariance, PTL

\* claimSettle: a run settles as cancelled if and only if a cancel of it was
\* accepted, whichever of its goroutine, a caller, its parent's cancel and Stop
\* ends it, and in whatever order they come.
THEOREM CancelHonoured == Spec => []CancelledIffAccepted
<1>1. IInv => CancelledIffAccepted BY DEF IInv, ControlInv, CancelledIffAccepted
<1> QED BY <1>1, Invariance, PTL

(***************************************************************************)
(* The engine keeps the promise of RunOutcome                              *)
(***************************************************************************)
\* What a run has come to, and the runs a cancel was accepted for, as
\* RunOutcome sees them.
Fate(r)  == IF r \notin begun THEN "absent"
            ELSE IF control[r].settled THEN control[r].final ELSE "open"
Accepted == {r \in Runs : control[r].cancelRequested}

\* A step that changes neither is a stutter of RunOutcome.
LEMMA SameFates ==
    ASSUME begun' = begun,
           \A r \in Runs : /\ control'[r].settled = control[r].settled
                           /\ control'[r].final = control[r].final
                           /\ control'[r].cancelRequested = control[r].cancelRequested
    PROVE  UNCHANGED Promise!vars
<1>1. UNCHANGED [r \in Runs |-> IF r \notin begun THEN "absent"
                                ELSE IF control[r].settled THEN control[r].final
                                ELSE "open"]
  OBVIOUS
<1>2. UNCHANGED {r \in Runs : control[r].cancelRequested} OBVIOUS
<1> QED BY <1>1, <1>2 DEF Promise!vars

\* Most steps leave the runs and their controls alone ...
LEMMA QuietSteps ==
    ASSUME NEW t \in Threads,
           \/ TurnSkipped(t) \/ TurnEnds(t) \/ Signal(t)
           \/ StopIfCancelled(t) \/ RunCompletes(t) \/ RunFails(t) \/ TaskSkipped(t)
           \/ ActionStarts(t) \/ ActionReturns(t) \/ ActionAbandoned(t)
           \/ WaitReached(t) \/ ArmRefused(t) \/ ArmWait(t)
           \/ ResumeWait(t) \/ Reenter(t)
           \/ RegisterRefused(t) \/ Register(t)
           \/ ReleaseNobody(t) \/ Release(t) \/ ResumeParent(t)
           \/ ClaimWait(t) \/ ClaimWaiter(t) \/ Count(t) \/ Record(t)
           \/ OrderedEvent \/ (\E w \in armed : WaitEnds(w))
           \/ StopCalled \/ ListPaused \/ Drain \/ ListUnsettled \/ StopDone \/ StopAgain
    PROVE  UNCHANGED <<begun, control>>
BY DEF TurnSkipped, TurnEnds, Signal, StopIfCancelled, RunCompletes, RunFails,
       TaskSkipped, ActionStarts, ActionReturns, ActionAbandoned, WaitReached,
       ArmRefused, ArmWait, ResumeWait, Reenter, RegisterRefused, Register,
       ReleaseNobody, Release, ResumeParent, ClaimWait, ClaimWaiter, Count, Record,
       OrderedEvent, WaitEnds, StopCalled, ListPaused, Drain, ListUnsettled, StopDone,
       StopAgain, runVars

\* ... and some mark a run without deciding anything about it.
LEMMA MarkSteps ==
    ASSUME IInv, NEW t \in Threads,
           \/ TurnRefused(t) \/ TurnStarts(t) \/ ResumeWaitStopped(t)
           \/ AbandonParent(t) \/ Abandon(t) \/ AbandonNext \/ Sweep
    PROVE  UNCHANGED Promise!vars
<1>1. \A r \in Runs : control[r] \in Controls BY InvTypes
<1>2. CASE \E r : MarkStopped(r) /\ UNCHANGED begun
  BY <1>1, <1>2, InvTypes, SameFates DEF MarkStopped, Controls
<1>3. CASE \/ TurnRefused(t) \/ ResumeWaitStopped(t) \/ AbandonNext
           \/ AbandonParent(t) /\ Top(t).run \in table
  BY <1>2, <1>3 DEF TurnRefused, ResumeWaitStopped, AbandonParent, AbandonNext, GiveUp
<1>4. CASE AbandonParent(t) /\ Top(t).run \notin table
  BY <1>4, SameFates DEF AbandonParent
<1>5. CASE TurnStarts(t)
  BY <1>1, <1>5, InvTypes, SameFates DEF TurnStarts, Controls
<1>6. CASE Abandon(t)
  BY <1>1, <1>6, InvTypes, SameFates DEF Abandon, Controls
<1>7. CASE Sweep
  <2>1. PICK r : control' = [control EXCEPT ![r].done = TRUE] /\ UNCHANGED begun
    BY <1>7 DEF Sweep
  <2> QED BY <1>1, <2>1, InvTypes, SameFates DEF Controls
<1> QED BY <1>3, <1>4, <1>5, <1>6, <1>7

\* A run that begins is open.
LEMMA BeginsOne ==
    ASSUME IInv, NEW r \in Runs \ begun, NEW q \in BOOLEAN,
           begun' = begun \cup {r},
           control' = [control EXCEPT ![r] = NewControl(q)]
    PROVE  Promise!Begin(r)
<1>1. /\ control'[r] = NewControl(q) /\ control[r] = NewControl(FALSE)
      /\ \A s \in Runs \ {r} : control'[s] = control[s]
  BY InvTypes DEF IInv, ControlInv
<1>2. ~NewControl(q).settled /\ ~NewControl(q).cancelRequested
  BY DEF NewControl
<1>3. ~NewControl(FALSE).cancelRequested BY DEF NewControl
<1>4. Accepted' = Accepted BY <1>1, <1>2, <1>3 DEF Accepted
<1>5. Fate(r) = "absent" BY DEF Fate
<1>6. [s \in Runs |-> Fate(s)]' = [[s \in Runs |-> Fate(s)] EXCEPT ![r] = "open"]
  <2>1. Fate(r)' = "open" BY <1>1, <1>2 DEF Fate
  <2>2. \A s \in Runs \ {r} : Fate(s)' = Fate(s) BY <1>1 DEF Fate
  <2> QED BY <2>1, <2>2
<1> QED BY <1>4, <1>5, <1>6 DEF Promise!Begin, Fate, Accepted

\* A cancel accepted is RunOutcome's.
LEMMA AcceptsOne ==
    ASSUME IInv, NEW r, Cancellable(r),
           control' = [control EXCEPT ![r].cancelRequested = TRUE], UNCHANGED begun
    PROVE  r \in Runs /\ Promise!AcceptCancel(r)
<1>1. r \in begun /\ r \in Runs /\ ~control[r].settled
  BY InvTypes DEF Cancellable
<1>2. \A s \in Runs : control[s] \in Controls BY InvTypes
<1>3. Fate(r) = "open" BY <1>1 DEF Fate
<1>4. Accepted' = Accepted \cup {r} BY <1>1, <1>2, InvTypes DEF Accepted, Controls
<1>5. [s \in Runs |-> Fate(s)]' = [s \in Runs |-> Fate(s)]
  BY <1>1, <1>2, InvTypes DEF Fate, Controls
<1> QED BY <1>1, <1>3, <1>4, <1>5 DEF Promise!AcceptCancel, Fate, Accepted

\* So is the claim that decides a run; any other claim stutters.
LEMMA ClaimDecides ==
    ASSUME IInv, NEW t \in Threads, Claim(t)
    PROVE  Promise!Next \/ UNCHANGED Promise!vars
<1>1. ~Idle(t) /\ Top(t).op = "claim" BY DEF Claim, At
<1>2. /\ Top(t) \in FrameSet /\ Top(t) \in Calls(begun, control, table)
      /\ Top(t).run \in begun /\ begun \subseteq Runs
  BY <1>1, TopCall
<1> PICK r \in begun : r = Top(t).run BY <1>2
<1> DEFINE o == Top(t).arg
           d == Decided(control[r], o)
<1>0. r \in Runs /\ control[r] \in Controls BY <1>2, InvTypes
<1>3. CASE UNCHANGED control
  BY <1>3, SameFates DEF Claim
<1>4. CASE /\ ~control[r].settled
           /\ control' = [control EXCEPT ![r].settled = TRUE, ![r].final = d.final,
                                         ![r].byStop = d.byStop]
  <2>1. d.final \in Outcomes /\ (d.final = "cancelled" <=> control[r].cancelRequested)
    <3>1. /\ o \in Outcomes \cup {EngineStopped}
          /\ o = "cancelled" => control[r].cancelRequested \/ control[r].stopped
      BY <1>1, <1>0, <1>2, <1>4 DEF Calls, FrameSet, Ended
    <3> QED BY <1>0, <1>2, <3>1, DecidedOutcome
  <2>2. /\ control'[r].settled /\ control'[r].final = d.final
        /\ control'[r].cancelRequested = control[r].cancelRequested
        /\ \A s \in Runs \ {r} : control'[s] = control[s]
    <3> HIDE DEF d
    <3> QED BY <1>0, <1>2, <1>4, InvTypes DEF Controls
  <2>3. begun' = begun BY DEF Claim
  <2>4. Fate(r) = "open" BY <1>0, <1>2, <1>4 DEF Fate
  <2>5. Accepted' = Accepted BY <2>2 DEF Accepted
  <2>6. [s \in Runs |-> Fate(s)]' = [[s \in Runs |-> Fate(s)] EXCEPT ![r] = d.final]
    <3> HIDE DEF d
    <3> QED BY <1>0, <1>2, <2>2, <2>3 DEF Fate
  <2>7. (d.final = "cancelled") <=> (r \in Accepted) BY <1>0, <1>2, <2>1 DEF Accepted
  <2>8. Promise!Decide(r)
    <3> HIDE DEF d
    <3> QED BY <1>0, <1>2, <2>1, <2>4, <2>5, <2>6, <2>7
            DEF Promise!Decide, Promise!Outcomes, Outcomes, Fate, Accepted
  <2> QED BY <1>0, <1>2, <2>8 DEF Promise!Next
<1> QED BY <1>3, <1>4 DEF Claim

\* Beginning a run, of any kind, is RunOutcome's Begin.
LEMMA BeginSteps ==
    ASSUME IInv, NEW t \in Threads,
           \/ \E r \in TopLevel : Begin(r)
           \/ Enqueue(t) \/ SubWorkflowReached(t) \/ SubWorkflowDetached(t)
    PROVE  Promise!Next
<1>1. ASSUME NEW r \in Runs \ begun, NEW q \in BOOLEAN,
             begun' = begun \cup {r},
             control' = [control EXCEPT ![r] = NewControl(q)]
      PROVE  Promise!Next
  BY <1>1, BeginsOne DEF Promise!Next
<1>2. CASE \E r \in TopLevel : Begin(r)
  BY <1>1, <1>2, RunsAssumption DEF Begin, Put
<1>3. CASE Enqueue(t)
  <2>1. ~Idle(t) /\ Top(t).op = "enqueue" BY <1>3 DEF Enqueue, At
  <2>2. Top(t) \in FrameSet BY <2>1, TopCall
  <2>3. Top(t).run \in Runs
    <3>1. Top(t).run \in Queued BY <2>1, <2>2 DEF FrameSet
    <3>2. Queued \subseteq Runs BY QueueTyped DEF Queued
    <3> QED BY <3>1, <3>2
  <2>4. PICK r \in Runs : r = Top(t).run BY <2>3
  <2> QED BY <1>1, <1>3, <2>4 DEF Enqueue, Put
<1>4. CASE SubWorkflowReached(t) \/ SubWorkflowDetached(t)
  <2>1. PICK c \in SubRuns \ begun : /\ begun' = begun \cup {c}
                                     /\ control' = [control EXCEPT ![c] = NewControl(FALSE)]
    BY <1>4 DEF SubWorkflowReached, SubWorkflowDetached, StartChild
  <2> QED BY <1>1, <2>1 DEF SubRuns
<1> QED BY <1>2, <1>3, <1>4

\* Accepting a cancel, of a caller or passed on, is RunOutcome's.
LEMMA AcceptSteps ==
    ASSUME IInv, NEW t \in Threads,
           (\E r \in Cancels : Cancel(r)) \/ CancelChild(t)
    PROVE  Promise!Next \/ UNCHANGED Promise!vars
<1>1. ASSUME NEW r, Cancellable(r), UNCHANGED begun,
             control' = [control EXCEPT ![r].cancelRequested = TRUE]
      PROVE  Promise!Next
  BY <1>1, AcceptsOne DEF Promise!Next
<1>2. CASE \E r \in Cancels : Cancel(r)
  BY <1>1, <1>2 DEF Cancel
<1>3. CASE CancelChild(t)
  <2>1. PICK r : r = Top(t).run OBVIOUS
  <2>2. CASE Cancellable(r) BY <1>1, <1>3, <2>1, <2>2 DEF CancelChild
  <2>3. CASE ~Cancellable(r) BY <1>3, <2>1, <2>3, SameFates DEF CancelChild
  <2> QED BY <2>2, <2>3
<1> QED BY <1>2, <1>3

\* An engine that has just started promises nothing yet.
LEMMA PromiseInit == Init => Promise!Init
BY DEF Init, Promise!Init, NewControl

\* Every step of the engine is one of RunOutcome, or changes nothing it shows.
LEMMA PromiseNext == IInv /\ [Next]_vars => [Promise!Next]_(Promise!vars)
<1> SUFFICES ASSUME IInv, [Next]_vars
             PROVE  Promise!Next \/ UNCHANGED Promise!vars
  OBVIOUS
<1>1. Stopper \in Threads BY DEF Stopper, Threads
<1>2. ASSUME UNCHANGED <<begun, control>>
      PROVE  UNCHANGED Promise!vars
  BY <1>2, SameFates
<1>3. ASSUME NEW t \in Threads, ThreadStep(t)
      PROVE  Promise!Next \/ UNCHANGED Promise!vars
  <2>1. CASE Enqueue(t) \/ SubWorkflowReached(t) \/ SubWorkflowDetached(t)
    BY <2>1, BeginSteps
  <2>2. CASE CancelChild(t) BY <2>2, AcceptSteps
  <2>3. CASE Claim(t) BY <2>3, ClaimDecides
  <2>4. CASE \/ TurnRefused(t) \/ TurnStarts(t) \/ ResumeWaitStopped(t)
             \/ AbandonParent(t) \/ Abandon(t)
    BY <2>4, MarkSteps
  <2>5. CASE ~(\/ Enqueue(t) \/ SubWorkflowReached(t) \/ SubWorkflowDetached(t)
               \/ CancelChild(t) \/ Claim(t) \/ TurnRefused(t) \/ TurnStarts(t)
               \/ ResumeWaitStopped(t) \/ AbandonParent(t) \/ Abandon(t))
    BY <1>2, <1>3, <2>5, QuietSteps DEF ThreadStep
  <2> QED BY <2>1, <2>2, <2>3, <2>4, <2>5
<1>4. CASE StopStep BY <1>1, <1>2, <1>4, QuietSteps, MarkSteps DEF StopStep
<1>5. CASE Environment
  <2>1. CASE \E r \in TopLevel : Begin(r) BY <1>1, <2>1, BeginSteps
  <2>2. CASE \E r \in Cancels : Cancel(r) BY <1>1, <2>2, AcceptSteps
  <2>3. CASE \/ OrderedEvent \/ (\E w \in armed : WaitEnds(w)) \/ StopCalled
             \/ \E t \in Threads : ActionReturns(t)
    BY <1>1, <1>2, <2>3, QuietSteps
  <2>4. CASE Sweep BY <1>1, <2>4, MarkSteps
  <2> QED BY <1>5, <2>1, <2>2, <2>3, <2>4 DEF Environment
<1>6. CASE UNCHANGED vars BY <1>2, <1>6 DEF vars
<1> QED BY <1>3, <1>4, <1>5, <1>6 DEF Next

\* The engine, with all its goroutines, waits, registrations, queue and Stop,
\* implements RunOutcome: a run is decided once, for good, and as cancelled
\* exactly when a cancel was accepted while it was open.
THEOREM PromiseKept == Spec => KeepsPromise
BY PromiseInit, PromiseNext, Invariance, PTL DEF Spec, KeepsPromise, Promise!Spec
===============================================================================
