------------------------- MODULE EngineOutcomesProofs -------------------------
(* That a run in the engine's hands stays in somebody's hands until it settles, *)
(* and that what it settles as is recorded once and stands, for any number of   *)
(* runs and any definitions, as long as the table's sweep spares the runs that  *)
(* somebody is still working on.                                                *)
EXTENDS EngineOwnersProofs

(***************************************************************************)
(* The inductive invariant                                                 *)
(***************************************************************************)
\* A step evicts no run that a pending call is about: what the sweep does except
\* when the table is over its cap.
Spared == \A r \in table \ table' : ~InUse(r)

\* The calls there can be when the table holds the runs D and the controls are C:
\* about runs it holds, queue turns aside, and recording what the run settled as.
Proper(D, C) ==
    {f \in FrameSet :
        /\ f.op \notin {"enqueue", "turn"} => f.run \in D
        /\ f.op \in {"register", "resumeParent"} => f.arg.child \in D
        /\ f.op = "record" => C[f.run].settled /\ f.arg = C[f.run].final}

\* Every call is about a run in the table, and so is every registration.
Held == /\ stack \in [Threads -> Seq(Proper(table, control))]
        /\ \A w \in waiters : w.child \in table /\ w.parent \in table

\* A run that is neither queued nor settled has an owner.
StillOwned == \A r \in Runs : Open(r) => Drives(r) # 0 \/ Armed(r) \/ Waiting(r)

\* No two runs wait for the same sub-workflow.
OneParent == \A c, p, q \in Runs : Awaits(c, p) /\ Awaits(c, q) => p = q

\* At most one call records a run's outcome, and none is left once it is recorded.
RecordedOnce ==
    \A r \in Runs :
        /\ Records(r) <= 1
        /\ recorded[r] # << >> => /\ Records(r) = 0 /\ status[r] = control[r].final
                                  /\ recorded[r] = << control[r].final >>

\* Only what is recorded is stamped and evicted.
StampsRecorded == /\ \A i \in 1..Len(stamped) : stamped[i] \in Recorded
                  /\ begun \ table \subseteq Recorded

KInv == Held /\ StillOwned /\ OneParent /\ RecordedOnce /\ StampsRecorded

(***************************************************************************)
(* What a step keeps                                                       *)
(***************************************************************************)
\* The calls thread t may go on with: about runs in the table by then, and a
\* registration only on a sub-workflow its run has just started.
Given(t) ==
    {f \in FrameSet :
        /\ f.op # "record"
        /\ f.op \notin {"enqueue", "turn"} => f.run \in table'
        /\ f.op = "resumeParent" => f.arg.child \in table'
        /\ f.op = "register" => f.run = Top(t).run /\ f.arg.child \in table' \ begun}

\* The table loses no run, and what is settled stays so.
Firm == /\ table \subseteq table'
        /\ \A q \in Runs : control[q].settled =>
              control'[q].settled /\ control'[q].final = control[q].final

\* Registrations made by a step are those that were about to be made.
Registers == \A w \in waiters' \ waiters :
                w.child \in table' /\ w.parent \in table' /\ Awaits(w.child, w.parent)

\* The outcome of a run that is recorded, and what is known of it, stay.
Quiet == /\ UNCHANGED <<recorded, stamped>>
         /\ \A q \in Runs : q \in Recorded => status'[q] = status[q]
         /\ begun' \ table' \subseteq begun \ table

\* Of the runs A, whose owner the step may change, each has one after it; the others
\* have the owner they had.
Handed(A, t, frames, more) ==
    /\ Idle(t) \/ Top(t).run \in A \/ Top(t).op \notin DriveOps
    /\ \A q \in Runs \ A : Open(q)' =>
          Open(q) /\ (Armed(q) => Armed(q)') /\ (Waiting(q) => Waiting(q)')
    /\ \A q \in Runs : q \in A /\ Open(q)' =>
          \/ Armed(q)' \/ Waiting(q)'
          \/ Tally(frames, {q}, DriveOps) # 0 \/ Tally(more, {q}, DriveOps) # 0

LEMMA HeldKept ==
    ASSUME IInv, Held, NEW t \in Threads, NEW u \in Threads, NEW frames, NEW more,
           Moved(t, frames, u, more), frames \in Seq(Given(t)), more \in Seq(Given(t)),
           Firm, Registers
    PROVE  Held'
<1> DEFINE P == Proper(table', control')
<1>1. Proper(table, control) \subseteq P /\ Given(t) \subseteq P
  BY DEF Proper, Given, Firm, FrameSet
<1>2. Seq(Proper(table, control)) \subseteq Seq(P) /\ Seq(Given(t)) \subseteq Seq(P)
  BY <1>1, SeqMonotonic
<1>3. stack \in [Threads -> Seq(P)] /\ frames \in Seq(P) /\ more \in Seq(P)
  BY <1>2 DEF Held
<1> HIDE DEF P
<1>4. stack' \in [Threads -> Seq(P)]
  BY <1>3, MovedInto
<1>5. \A w \in waiters' : w.child \in table' /\ w.parent \in table'
  BY DEF Held, Firm, Registers
<1> QED
  BY <1>4, <1>5 DEF Held, P

LEMMA StillOwnedKept ==
    ASSUME IInv, StillOwned, NEW t \in Threads, NEW u \in Threads, NEW frames, NEW more,
           Moved(t, frames, u, more), NEW A,
           Handed(A, t, frames, more)
    PROVE  StillOwned'
<1>0. stack \in Stacks
  BY StacksTyped
<1> SUFFICES ASSUME NEW q \in Runs, Open(q)', ~Armed(q)', ~Waiting(q)'
             PROVE  Drives(q)' # 0
  BY DEF StillOwned
<1>1. /\ Drives(q) \in Nat /\ Drives(q)' \in Nat
      /\ Drives(q)' = ((Drives(q) - Out(t, {q}, DriveOps)) + Tally(frames, {q}, DriveOps))
                         + Tally(more, {q}, DriveOps)
  BY <1>0, DrivesMoved
<1>2. /\ Tally(frames, {q}, DriveOps) \in Nat /\ Tally(more, {q}, DriveOps) \in Nat
      /\ Out(t, {q}, DriveOps) \in {0, 1} /\ Out(t, {q}, DriveOps) <= Drives(q)
  BY <1>0, MovedCounts DEF Drives
<1>3. CASE q \in A
  BY <1>1, <1>2, <1>3 DEF Handed
<1>4. CASE q \notin A
  <2>1. Drives(q) # 0
    BY <1>4 DEF StillOwned, Handed
  <2>2. Out(t, {q}, DriveOps) = 0
    BY <1>4 DEF Out, Counts, Handed
  <2> QED
    BY <1>1, <1>2, <2>1, <2>2
<1> QED
  BY <1>3, <1>4

\* A step of thread t makes a run wait for another only if it starts that one.
LEMMA AwaitsKept ==
    ASSUME IInv, Held, NEW t \in Threads, NEW u \in Threads, NEW frames, NEW more,
           Moved(t, frames, u, more), frames \in Seq(Given(t)), more \in Seq(Given(t)),
           Registers, NEW c \in Runs, NEW p \in Runs, Awaits(c, p)'
    PROVE  Awaits(c, p) \/ (c \notin begun /\ p = Top(t).run)
<1> DEFINE S == {f \in FrameSet : f.op = "register" =>
                    \/ Awaits(f.arg.child, f.run)
                    \/ f.arg.child \notin begun /\ f.run = Top(t).run}
<1>1. Given(t) \subseteq S
  BY DEF Given
<1>2. frames \in Seq(S) /\ more \in Seq(S)
  BY <1>1, SeqMonotonic
<1>3. stack \in [Threads -> Seq(S)]
  <2>1. stack \in [Threads -> Seq(FrameSet)]
    BY DEF IInv, TypeOK
  <2>2. ASSUME NEW v \in Threads, NEW i \in 1..Len(stack[v]) PROVE stack[v][i] \in S
    <3>1. PICK f \in FrameSet : f = stack[v][i]
      BY <2>1
    <3>2. f.op = "register" => Awaits(f.arg.child, f.run)
      BY <3>1 DEF Awaits
    <3> QED
      BY <3>1, <3>2
  <2> HIDE DEF S
  <2>3. ASSUME NEW v \in Threads PROVE stack[v] \in Seq(S)
    <3>1. stack[v] \in Seq(FrameSet) /\ \A i \in 1..Len(stack[v]) : stack[v][i] \in S
      BY <2>1, <2>2
    <3> QED
      BY <3>1
  <2> QED
    BY <2>1, <2>3
<1>4. CASE \E w \in waiters' : w.child = c /\ w.parent = p
  BY <1>4 DEF Registers, Awaits, Registered
<1>5. CASE \E v \in Threads : \E i \in 1..Len(stack'[v]) :
              stack'[v][i].op = "register" /\ stack'[v][i].run = p /\ stack'[v][i].arg.child = c
  <2> HIDE DEF S
  <2>1. stack' \in [Threads -> Seq(S)]
    BY <1>2, <1>3, MovedInto
  <2>2. PICK f \in S : f.op = "register" /\ f.run = p /\ f.arg.child = c
    BY <1>5, <2>1
  <2> QED
    BY <2>2 DEF S
<1> QED
  BY <1>4, <1>5 DEF Awaits, Registered

LEMMA OneParentKept ==
    ASSUME IInv, Held, OneParent, NEW t \in Threads, NEW u \in Threads, NEW frames, NEW more,
           Moved(t, frames, u, more), frames \in Seq(Given(t)), more \in Seq(Given(t)),
           Registers
    PROVE  OneParent'
<1>1. \A c, p \in Runs : Awaits(c, p)' => Awaits(c, p) \/ (c \notin begun /\ p = Top(t).run)
  BY AwaitsKept
<1>2. \A c, p \in Runs : Awaits(c, p) => c \in begun
  <2> SUFFICES ASSUME NEW c \in Runs, NEW p \in Runs, Awaits(c, p) PROVE c \in table
    BY DEF IInv, TypeOK
  <2>1. CASE Registered(c, p)
    BY <2>1 DEF Registered, Held
  <2>2. CASE \E v \in Threads : \E i \in 1..Len(stack[v]) :
                stack[v][i].op = "register" /\ stack[v][i].run = p /\ stack[v][i].arg.child = c
    <3>1. PICK f \in Proper(table, control) : f.op = "register" /\ f.arg.child = c
      BY <2>2 DEF Held
    <3> QED
      BY <3>1 DEF Proper
  <2> QED
    BY <2>1, <2>2 DEF Awaits
<1> QED
  BY <1>1, <1>2 DEF OneParent

\* Calls a thread may go on with record nothing.
LEMMA GivenFree ==
    ASSUME NEW t, NEW s \in Seq(Given(t))
    PROVE  Free(s, {"record"})
BY DEF Given, Free

\* A step that neither records an outcome nor claims one keeps the invariant, if
\* it leaves with an owner the runs A whose owner it changes.
LEMMA Keeps ==
    ASSUME IInv, JInv, KInv, NEW t \in Threads, NEW u \in Threads, NEW frames, NEW more,
           Moved(t, frames, u, more), frames \in Seq(Given(t)), more \in Seq(Given(t)),
           Firm, Registers, Quiet, Idle(t) \/ Top(t).op # "record", NEW A,
           Handed(A, t, frames, more)
    PROVE  KInv'
<1>1. Held' /\ OneParent'
  BY HeldKept, OneParentKept DEF KInv
<1>2. StillOwned'
  BY StillOwnedKept DEF KInv
<1>3. RecordedOnce'
  <2>1. stack \in Stacks /\ Free(frames, {"record"}) /\ Free(more, {"record"})
    BY StacksTyped, GivenFree
  <2>2. \A R : Number(stack', R, {"record"}) = Number(stack, R, {"record"})
    <3>1. Idle(t) \/ Top(t).op \notin {"record"}
      OBVIOUS
    <3>2. PICK ops : ops = {"record"}
      OBVIOUS
    <3>3. Free(frames, ops) /\ Free(more, ops) /\ (Idle(t) \/ Top(t).op \notin ops)
      BY <2>1, <3>1, <3>2
    <3>4. \A some \in SUBSET ops : \A R :
             /\ Tally(frames, R, some) = 0 /\ Tally(more, R, some) = 0 /\ Out(t, R, some) = 0
             /\ Number(stack', R, some) = Number(stack, R, some)
      BY <2>1, <3>3, MovedSame
    <3> QED
      BY <3>2, <3>4
  <2>3. \A q : Records(q)' = Records(q)
    BY <2>2 DEF Records
  <2>4. \A q \in Runs : recorded[q] # << >> =>
           /\ status'[q] = status[q] /\ control'[q].final = control[q].final
    BY DEF Quiet, Firm, Recorded, JInv, SettlesCounted
  <2>5. recorded' = recorded
    BY DEF Quiet
  <2> QED
    BY <2>3, <2>4, <2>5 DEF RecordedOnce, KInv
<1>4. StampsRecorded'
  BY DEF StampsRecorded, KInv, Quiet, Recorded
<1> QED
  BY <1>1, <1>2, <1>3, <1>4 DEF KInv

(***************************************************************************)
(* Calls a step goes on with                                               *)
(***************************************************************************)
LEMMA GivenCalls ==
    ASSUME NEW t, NEW r \in Runs, r \in table'
    PROVE  /\ << >> \in Seq(Given(t))
           /\ \A op \in {"run", "action", "arm", "resumeWait", "reenter"}, n \in Nat :
                 << Frame(op, r, n) >> \in Seq(Given(t))
           /\ \A op \in {"await", "signal", "release", "abandonParent", "cancel"} :
                 << Frame(op, r, None) >> \in Seq(Given(t))
           /\ \A op \in {"abandon", "claimWait", "claimWaiter"}, a \in {None, "children"} :
                 << Frame(op, r, a) >> \in Seq(Given(t))
           /\ \A o \in Outcomes \cup {EngineStopped} :
                 /\ << Frame("claim", r, o) >> \in Seq(Given(t))
                 /\ Settle(r, o) \in Seq(Given(t))
                 /\ \A c \in Runs : c \in table' =>
                       << Frame("cancel", c, None) >> \o Settle(r, o) \in Seq(Given(t))
           /\ \A c \in Runs, n \in Nat : c \in table' =>
                 << Frame("resumeParent", r, [child |-> c, at |-> n]) >> \in Seq(Given(t))
<1>1. \A f \in Given(t) : << f >> \in Seq(Given(t))
  OBVIOUS
<1>2. \A f, g \in Given(t) : << f, g >> \in Seq(Given(t))
  OBVIOUS
<1>3. /\ \A op \in {"run", "action", "arm", "resumeWait", "reenter"}, n \in Nat :
            Frame(op, r, n) \in Given(t)
      /\ \A op \in {"await", "signal", "release", "abandonParent"} : Frame(op, r, None) \in Given(t)
      /\ \A c \in Runs : c \in table' => Frame("cancel", c, None) \in Given(t)
  BY DEF Given, Frame, FrameSet, None
<1>4. \A op \in {"abandon", "claimWait", "claimWaiter"}, a \in {None, "children"} :
         Frame(op, r, a) \in Given(t)
  BY DEF Given, Frame, FrameSet, None
<1>5. \A op \in {"count", "claim"}, o \in Outcomes \cup {EngineStopped} : Frame(op, r, o) \in Given(t)
  BY DEF Given, Frame, FrameSet
<1>6. \A c \in Runs, n \in Nat : c \in table' =>
         Frame("resumeParent", r, [child |-> c, at |-> n]) \in Given(t)
  BY DEF Given, Frame, FrameSet
<1>7. ASSUME NEW o \in Outcomes \cup {EngineStopped}
      PROVE  /\ Settle(r, o) \in Seq(Given(t))
             /\ \A c \in Runs : c \in table' =>
                   << Frame("cancel", c, None) >> \o Settle(r, o) \in Seq(Given(t))
  <2>1. Settle(r, o) \in Seq(Given(t))
    BY <1>2, <1>3, <1>5 DEF Settle
  <2>2. ASSUME NEW c \in Runs, c \in table' PROVE << Frame("cancel", c, None) >> \in Seq(Given(t))
    BY <1>1, <1>3, <2>2
  <2>3. \A a, b \in Seq(Given(t)) : a \o b \in Seq(Given(t))
    OBVIOUS
  <2> QED
    BY <2>1, <2>2, <2>3
<1>8. << >> \in Seq(Given(t))
  OBVIOUS
<1> QED
  BY <1>1, <1>3, <1>4, <1>5, <1>6, <1>7, <1>8

\* What is marked on a run's control says nothing of its outcome.
LEMMA MarksOutcome ==
    ASSUME IInv, NEW r \in Runs,
           MarkStopped(r) \/ control' = [control EXCEPT ![r].cancelRequested = TRUE]
                          \/ control' = [control EXCEPT ![r].done = TRUE] \/ UNCHANGED control
    PROVE  \A q \in Runs : /\ control'[q].queued = control[q].queued
                           /\ control'[q].settled = control[q].settled
                           /\ control'[q].final = control[q].final
<1>0. control \in [Runs -> Controls]
  BY DEF IInv, TypeOK
<1>1. CASE MarkStopped(r)
  BY <1>0, <1>1 DEF MarkStopped, Controls
<1>2. CASE control' = [control EXCEPT ![r].cancelRequested = TRUE]
  BY <1>0, <1>2 DEF Controls
<1>3. CASE control' = [control EXCEPT ![r].done = TRUE]
  BY <1>0, <1>3 DEF Controls
<1> QED
  BY <1>1, <1>2, <1>3

\* The same runs, in the same state but for marks.
Alike == /\ UNCHANGED <<table, begun, recorded, stamped>>
         /\ \A q \in Runs : /\ control'[q].queued = control[q].queued
                            /\ control'[q].settled = control[q].settled
                            /\ control'[q].final = control[q].final

LEMMA AlikeFirm ==
    ASSUME Alike
    PROVE  Firm /\ \A q \in Runs : Open(q)' <=> Open(q)
BY DEF Alike, Firm, Open

\* Whoever takes a run further passes it on, in the table and settled as little as
\* before.
LEMMA PassesOn ==
    ASSUME IInv, JInv, KInv, NEW t \in Threads, ~Idle(t), Top(t).op \in LiveOps,
           NEW r, Top(t).run = r, NEW frames, Carries(r, frames), frames \in Seq(Given(t)),
           stack' = Continue(t, frames),
           UNCHANGED <<table, begun, pauseVars, stamped, recorded>>,
           UNCHANGED control \/ MarkStopped(r),
           \A q \in Runs \ {r} : status'[q] = status[q]
    PROVE  KInv'
<1>1. r \in Runs /\ ~control[r].settled
  BY DriverOwns
<1>2. Moved(t, frames, t, << >>)
  BY ContinueMoves DEF Carries
<1>3. Alike
  BY <1>1, MarksOutcome DEF Alike
<1>4. Quiet
  BY <1>1 DEF Quiet, JInv, SettlesCounted, Recorded
<1>5. Registers
  BY DEF Registers, pauseVars
<1>6. Handed({r}, t, frames, << >>)
  <2>1. \A q \in Runs : (Armed(q)' <=> Armed(q)) /\ (Waiting(q)' <=> Waiting(q))
    BY DEF Armed, Waiting, pauseVars
  <2>2. \A q \in Runs : q \in {r} => Tally(frames, {q}, DriveOps) # 0
    BY DEF Carries, One
  <2> QED
    BY <1>3, <2>1, <2>2, AlikeFirm DEF Handed
<1>7. << >> \in Seq(Given(t)) /\ Top(t).op # "record"
  BY DEF LiveOps, DriveOps
<1> QED
  BY <1>2, <1>3, <1>4, <1>5, <1>6, <1>7, AlikeFirm, Keeps

LEMMA TaskOutcomes ==
    ASSUME IInv, JInv, KInv, NEW t \in Threads,
           \/ StopIfCancelled(t) \/ RunCompletes(t) \/ RunFails(t) \/ TaskSkipped(t)
           \/ ActionStarts(t) \/ ActionReturns(t) \/ ActionAbandoned(t)
    PROVE  KInv'
<1>1. ~Idle(t) /\ Top(t).op \in {"run", "action"} /\ Top(t).op \in LiveOps
  BY DEF StopIfCancelled, RunCompletes, RunFails, TaskSkipped, ActionStarts, ActionReturns,
         ActionAbandoned, AtStep, At, LiveOps, DriveOps
<1>2. PICK r \in Runs : r = Top(t).run /\ r \in table
  BY <1>1, TopOwner
<1>3. Top(t).arg \in Nat
  BY <1>1, TopOwner
<1>4. UNCHANGED <<runVars, pauseVars, endVars, stopVars, turnVars>>
  BY DEF StopIfCancelled, RunCompletes, RunFails, TaskSkipped, ActionStarts, ActionReturns,
         ActionAbandoned
<1>5. \/ \E o \in Outcomes : stack' = Continue(t, Settle(r, o))
      \/ \E op \in {"run", "action"}, n \in Nat : stack' = Continue(t, << Frame(op, r, n) >>)
  BY <1>2, <1>3 DEF StopIfCancelled, RunCompletes, RunFails, TaskSkipped, ActionStarts,
         ActionReturns, ActionAbandoned, Outcomes
<1>6. UNCHANGED <<table, begun, control, status, pauseVars, stamped, recorded>> /\ r \in table'
  BY <1>2, <1>4 DEF runVars, endVars
<1>7. PICK frames : /\ Carries(r, frames) /\ stack' = Continue(t, frames)
                    /\ frames \in Seq(Given(t))
  <2>1. CASE \E o \in Outcomes : stack' = Continue(t, Settle(r, o))
    BY <1>6, <2>1, CarriesCalls, GivenCalls
  <2>2. CASE \E op \in {"run", "action"}, n \in Nat : stack' = Continue(t, << Frame(op, r, n) >>)
    BY <1>6, <2>2, CarriesCalls, GivenCalls
  <2> QED
    BY <1>5, <2>1, <2>2
<1> QED
  BY <1>1, <1>2, <1>6, <1>7, PassesOn

LEMMA WaitOutcomes ==
    ASSUME IInv, JInv, KInv, NEW t \in Threads,
           \/ WaitReached(t) \/ ArmRefused(t) \/ ResumeWaitStopped(t) \/ ResumeWait(t) \/ Reenter(t)
    PROVE  KInv'
<1>1. ~Idle(t) /\ Top(t).op \in {"run", "arm", "resumeWait", "reenter"} /\ Top(t).op \in LiveOps
  BY DEF WaitReached, ArmRefused, ResumeWaitStopped, ResumeWait, Reenter, AtStep, At, LiveOps,
         DriveOps
<1>2. PICK r \in Runs : r = Top(t).run /\ r \in table
  BY <1>1, TopOwner
<1>3. Top(t).arg \in Nat /\ status \in [Runs -> Statuses]
  BY <1>1, TopOwner DEF IInv, TypeOK
<1>4. /\ UNCHANGED <<table, begun, pauseVars, endVars, stopVars, turnVars>>
      /\ UNCHANGED control \/ MarkStopped(r)
      /\ \A q \in Runs \ {r} : status'[q] = status[q]
  BY <1>2, <1>3 DEF WaitReached, ArmRefused, ResumeWaitStopped, ResumeWait, Reenter, runVars
<1>5. \/ \E o \in Outcomes \cup {EngineStopped} : stack' = Continue(t, Settle(r, o))
      \/ \E op \in {"run", "arm", "reenter"}, n \in Nat : stack' = Continue(t, << Frame(op, r, n) >>)
  BY <1>2, <1>3 DEF WaitReached, ArmRefused, ResumeWaitStopped, ResumeWait, Reenter, Outcomes,
         IfHeld
<1>6. UNCHANGED <<table, begun, pauseVars, stamped, recorded>> /\ r \in table'
  BY <1>2, <1>4 DEF endVars
<1>7. PICK frames : /\ Carries(r, frames) /\ stack' = Continue(t, frames)
                    /\ frames \in Seq(Given(t))
  <2>1. CASE \E o \in Outcomes \cup {EngineStopped} : stack' = Continue(t, Settle(r, o))
    BY <1>6, <2>1, CarriesCalls, GivenCalls
  <2>2. CASE \E op \in {"run", "arm", "reenter"}, n \in Nat : stack' = Continue(t, << Frame(op, r, n) >>)
    BY <1>6, <2>2, CarriesCalls, GivenCalls
  <2> QED
    BY <1>5, <2>1, <2>2
<1> QED
  BY <1>1, <1>2, <1>4, <1>6, <1>7, PassesOn

\* What a thread about to make a call may count on.
LEMMA TopProper ==
    ASSUME KInv, NEW t \in Threads, ~Idle(t)
    PROVE  Top(t) \in Proper(table, control)
<1>1. stack[t] \in Seq(Proper(table, control)) /\ stack[t] # << >>
  BY DEF KInv, Held, Idle
<1> QED
  BY <1>1, TopIsCall DEF Top

LEMMA ParentOutcomes ==
    ASSUME IInv, JInv, KInv, NEW t \in Threads,
           RegisterRefused(t) \/ AbandonParent(t) \/ ResumeParent(t)
    PROVE  KInv'
<1>1. /\ ~Idle(t) /\ Top(t).op \in {"register", "abandonParent", "resumeParent"}
      /\ Top(t).op \in LiveOps
  BY DEF RegisterRefused, AbandonParent, ResumeParent, At, LiveOps, DriveOps
<1>2. PICK r \in Runs : r = Top(t).run /\ r \in table
  BY <1>1, TopOwner
<1>3. Top(t).op \in {"register", "resumeParent"} =>
         Top(t).arg.child \in Runs /\ Top(t).arg.child \in table /\ Top(t).arg.at \in Nat
  BY <1>1, TopOwner, TopProper DEF Proper
<1>4. /\ UNCHANGED <<table, begun, pauseVars, endVars, stopVars, turnVars>>
      /\ UNCHANGED control \/ MarkStopped(r)
      /\ \A q \in Runs \ {r} : status'[q] = status[q]
  <2>1. status \in [Runs -> Statuses]
    BY DEF IInv, TypeOK
  <2> QED
    BY <1>2, <2>1 DEF RegisterRefused, AbandonParent, ResumeParent, runVars
<1>5. \/ \E o \in Outcomes : stack' = Continue(t, Settle(r, o))
      \/ \E n \in Nat : stack' = Continue(t, << Frame("run", r, n) >>)
      \/ \E c \in Runs : /\ c \in table
                         /\ stack' = Continue(t, << Frame("cancel", c, None) >> \o Settle(r, "cancelled"))
  <2>1. CASE RegisterRefused(t)
    BY <1>2, <1>3, <2>1 DEF RegisterRefused, At
  <2>2. CASE AbandonParent(t)
    BY <1>2, <2>2 DEF AbandonParent, Outcomes
  <2>3. CASE ResumeParent(t)
    BY <1>2, <1>3, <2>3 DEF ResumeParent, At, Outcomes, IfHeld
  <2> QED
    BY <2>1, <2>2, <2>3
<1>6. UNCHANGED <<table, begun, pauseVars, stamped, recorded>> /\ r \in table'
  BY <1>2, <1>4 DEF endVars
<1>7. PICK frames : /\ Carries(r, frames) /\ stack' = Continue(t, frames)
                    /\ frames \in Seq(Given(t))
  <2>0. "cancelled" \in Outcomes
    BY DEF Outcomes
  <2>1. CASE \E o \in Outcomes : stack' = Continue(t, Settle(r, o))
    BY <1>6, <2>1, CarriesCalls, GivenCalls
  <2>2. CASE \E n \in Nat : stack' = Continue(t, << Frame("run", r, n) >>)
    BY <1>6, <2>2, CarriesCalls, GivenCalls
  <2>3. CASE \E c \in Runs :
                /\ c \in table
                /\ stack' = Continue(t, << Frame("cancel", c, None) >> \o Settle(r, "cancelled"))
    <3>1. PICK c \in Runs :
             /\ c \in table'
             /\ stack' = Continue(t, << Frame("cancel", c, None) >> \o Settle(r, "cancelled"))
      BY <1>6, <2>3
    <3>2. Carries(r, << Frame("cancel", c, None) >> \o Settle(r, "cancelled"))
      BY <2>0, CarriesCalls
    <3>3. << Frame("cancel", c, None) >> \o Settle(r, "cancelled") \in Seq(Given(t))
      BY <1>6, <2>0, <3>1, GivenCalls
    <3> QED
      BY <3>1, <3>2, <3>3
  <2> QED
    BY <1>5, <2>1, <2>2, <2>3
<1> QED
  BY <1>1, <1>2, <1>4, <1>6, <1>7, PassesOn

(***************************************************************************)
(* Sub-workflows and pauses                                                *)
(***************************************************************************)
LEMMA SubOutcomes ==
    ASSUME IInv, JInv, KInv, NEW t \in Threads, SubWorkflowReached(t) \/ SubWorkflowDetached(t)
    PROVE  KInv'
<1>0. stack \in Stacks /\ status \in [Runs -> Statuses] /\ control \in [Runs -> Controls]
  BY StacksTyped DEF IInv, TypeOK
<1>1. ~Idle(t) /\ Top(t).op = "run" /\ Top(t).op \in LiveOps
  BY DEF SubWorkflowReached, SubWorkflowDetached, AtStep, At, LiveOps, DriveOps
<1>2. PICK r \in Runs : r = Top(t).run /\ r \in table
  BY <1>1, TopOwner
<1>3. Top(t).arg \in Nat /\ ~control[r].settled
  BY <1>1, <1>2, TopOwner, DriverOwns
<1>4. PICK c \in SubRuns : \E frames :
         /\ StartChild(t, c, frames)
         /\ \/ frames = << Frame("register", r, [child |-> c, at |-> Top(t).arg]) >>
            \/ frames = << Frame("run", r, Top(t).arg + 1) >>
         /\ \A q \in Runs \ {r, c} : status'[q] = status[q]
  <2>1. CASE SubWorkflowReached(t)
    BY <1>0, <1>2, <2>1 DEF SubWorkflowReached
  <2>2. CASE SubWorkflowDetached(t)
    BY <1>0, <1>2, <2>2 DEF SubWorkflowDetached
  <2> QED
    BY <2>1, <2>2
<1>5. PICK frames :
         /\ StartChild(t, c, frames)
         /\ \/ frames = << Frame("register", r, [child |-> c, at |-> Top(t).arg]) >>
            \/ frames = << Frame("run", r, Top(t).arg + 1) >>
         /\ \A q \in Runs \ {r, c} : status'[q] = status[q]
  BY <1>4
<1>6. /\ c \in Runs /\ c \notin begun /\ table' = table \cup {c} /\ begun' = begun \cup {c}
      /\ control' = [control EXCEPT ![c] = NewControl(FALSE)]
      /\ stack' = Spawn(Continue(t, frames), c, << Frame("run", c, 1) >>)
      /\ UNCHANGED <<pauseVars, stamped, recorded>>
  BY <1>5 DEF StartChild, SubRuns, endVars
<1>7. Carries(r, frames) /\ frames \in Seq(Given(t))
  <2>1. CASE frames = << Frame("register", r, [child |-> c, at |-> Top(t).arg]) >>
    <3>1. c \notin Queued
      BY <1>5 DEF SubRuns
    <3>2. Frame("register", r, [child |-> c, at |-> Top(t).arg]) \in Given(t)
      BY <1>2, <1>3, <1>6 DEF Given, Frame, FrameSet
    <3>3. \A f \in Given(t) : << f >> \in Seq(Given(t))
      OBVIOUS
    <3>4. Carries(r, frames)
      BY <1>3, <1>6, <2>1, <3>1, CarriesPair
    <3> QED
      BY <2>1, <3>2, <3>3, <3>4
  <2>2. CASE frames = << Frame("run", r, Top(t).arg + 1) >>
    <3>1. Top(t).arg + 1 \in Nat /\ r \in table'
      BY <1>2, <1>3, <1>6
    <3> QED
      BY <2>2, <3>1, CarriesCalls, GivenCalls
  <2> QED
    BY <1>5, <2>1, <2>2
<1> DEFINE more == << Frame("run", c, 1) >>
<1>8. Carries(c, more) /\ more \in Seq(Given(t))
  BY <1>6, CarriesCalls, GivenCalls
<1>9. more \in Calling /\ stack' = Spawn(Continue(t, frames), c, more)
  BY <1>6, <1>8 DEF Carries
<1> HIDE DEF more
<1>10. t \notin {<<c, 1>>, <<c, 2>>} /\ Idle(<<c, 2>>)
  <2>1. stack[<<c, 1>>] = << >> /\ stack[<<c, 2>>] = << >>
    BY <1>6 DEF JInv, Goroutines, Goroutine
  <2> QED
    BY <1>1, <2>1 DEF Idle
<1>11. PICK k \in {1, 2} : Idle(<<c, k>>) /\ Moved(t, frames, <<c, k>>, more)
  BY <1>0, <1>1, <1>6, <1>7, <1>9, <1>10, SpawnMoves DEF Carries
<1>12. <<c, k>> \in Threads
  BY <1>6, OwnThread
<1>13. ~control[c].settled /\ c \notin table
  BY <1>6, UnbegunPauses DEF NewControl, IInv, TypeOK
<1>14. /\ \A q \in Runs \ {c} : control'[q] = control[q]
       /\ Firm
  BY <1>0, <1>6, <1>13 DEF Firm
<1>15. Quiet
  BY <1>3, <1>5, <1>6, <1>13 DEF Quiet, JInv, SettlesCounted, Recorded
<1>16. Registers
  BY <1>6 DEF Registers, pauseVars
<1>17. Handed({r, c}, t, frames, more)
  <2>1. \A q \in Runs : (Armed(q)' <=> Armed(q)) /\ (Waiting(q)' <=> Waiting(q))
    BY <1>6 DEF Armed, Waiting, pauseVars
  <2>2. Tally(frames, {r}, DriveOps) # 0 /\ Tally(more, {c}, DriveOps) # 0
    BY <1>2, <1>6, <1>7, <1>8 DEF Carries, One
  <2>3. \A q \in Runs \ {r, c} : Open(q)' => Open(q)
    BY <1>6, <1>14 DEF Open
  <2> QED
    BY <1>2, <2>1, <2>2, <2>3 DEF Handed
<1> QED
  BY <1>1, <1>7, <1>8, <1>11, <1>12, <1>14, <1>15, <1>16, <1>17, Keeps

LEMMA PauseOutcomes ==
    ASSUME IInv, JInv, KInv, NEW t \in Threads, ArmWait(t) \/ Register(t)
    PROVE  KInv'
<1>0. stack \in Stacks /\ stack[t] \in Calling
  BY StacksTyped
<1>1. ~Idle(t) /\ Top(t).op \in {"arm", "register"} /\ Top(t).op \in LiveOps
  BY DEF ArmWait, Register, At, LiveOps, DriveOps
<1>2. PICK r \in Runs : r = Top(t).run /\ r \in table
  BY <1>1, TopOwner
<1>3. /\ stack' = Continue(t, << >>) /\ UNCHANGED <<runVars, endVars>>
      /\ armed \subseteq armed' /\ waiters \subseteq waiters'
      /\ Armed(r)' \/ Waiting(r)'
  <2>1. CASE ArmWait(t)
    <3>1. PICK w : w = [run |-> r, at |-> Top(t).arg]
      OBVIOUS
    <3>2. armed' = armed \cup {w} /\ w.run = r /\ UNCHANGED waiters
      BY <1>2, <2>1, <3>1 DEF ArmWait
    <3> QED
      BY <2>1, <3>2 DEF ArmWait, Armed
  <2>2. CASE Register(t)
    <3>1. PICK w : w = [child |-> Top(t).arg.child, parent |-> r, at |-> Top(t).arg.at]
      OBVIOUS
    <3>2. waiters' = waiters \cup {w} /\ w.parent = r /\ UNCHANGED armed
      BY <1>2, <2>2, <3>1 DEF Register
    <3> QED
      BY <2>2, <3>2 DEF Register, Waiting
  <2> QED
    BY <2>1, <2>2
<1>4. Moved(t, << >>, t, << >>)
  BY <1>1, <1>3, ContinueMoves, NoneMore
<1>5. Alike /\ Quiet
  BY <1>3 DEF Alike, Quiet, runVars, endVars
<1>6. Registers
  <2>1. CASE ArmWait(t)
    BY <2>1 DEF ArmWait, Registers
  <2>2. CASE Register(t)
    <3>1. /\ Top(t).op = "register" /\ Top(t).arg.child \in table
          /\ waiters' = waiters \cup {[child |-> Top(t).arg.child, parent |-> r, at |-> Top(t).arg.at]}
      BY <1>1, <1>2, <2>2, TopProper DEF Register, At, Proper
    <3>2. 1 \in 1..Len(stack[t]) /\ stack[t][1] = Top(t)
      BY <1>0, <1>1 DEF Calling, Top, Idle
    <3>3. Awaits(Top(t).arg.child, r)
      BY <1>2, <3>1, <3>2 DEF Awaits
    <3> QED
      BY <1>2, <1>5, <3>1, <3>3 DEF Registers, Alike
  <2> QED
    BY <2>1, <2>2
<1>7. Handed({r}, t, << >>, << >>)
  <2>1. \A q \in Runs : (Armed(q) => Armed(q)') /\ (Waiting(q) => Waiting(q)')
    BY <1>3 DEF Armed, Waiting
  <2> QED
    BY <1>2, <1>3, <1>5, <2>1, AlikeFirm DEF Handed
<1>8. << >> \in Seq(Given(t)) /\ Top(t).op # "record"
  BY <1>1
<1> QED
  BY <1>4, <1>5, <1>6, <1>7, <1>8, AlikeFirm, Keeps

(***************************************************************************)
(* Runs taken from their pause                                             *)
(***************************************************************************)
\* Only run r is taken from its pause.
TakenFrom(r) ==
    /\ armed' \subseteq armed /\ waiters' \subseteq waiters
    /\ \A w \in armed \ armed' : w.run = r
    /\ \A w \in waiters \ waiters' : w.parent = r

\* Whoever takes a paused run out of its wait or registration drives it from then
\* on, and takes no other.
LEMMA TakesOn ==
    ASSUME IInv, JInv, KInv, NEW t \in Threads, NEW u \in Threads, NEW frames, NEW more,
           Moved(t, frames, u, more), frames \in Seq(Given(t)), more \in Seq(Given(t)),
           Idle(t) \/ Top(t).op \in {"release", "claimWait", "claimWaiter"},
           NEW r \in Runs,
           Tally(frames, {r}, DriveOps) # 0 \/ Tally(more, {r}, DriveOps) # 0,
           TakenFrom(r),
           UNCHANGED <<runVars, endVars>>
    PROVE  KInv'
<1>1. Alike /\ Quiet
  BY DEF Alike, Quiet, runVars, endVars
<1>2. Registers
  BY DEF Registers, TakenFrom
<1>3. Handed({r}, t, frames, more)
  <2>1. Idle(t) \/ Top(t).op \notin DriveOps
    BY DEF DriveOps
  <2>2. \A q \in Runs \ {r} : (Armed(q) => Armed(q)') /\ (Waiting(q) => Waiting(q)')
    BY DEF Armed, Waiting, TakenFrom
  <2> QED
    BY <1>1, <2>1, <2>2, AlikeFirm DEF Handed
<1> QED
  BY <1>1, <1>2, <1>3, AlikeFirm, Keeps

LEMMA WaitEndsOutcomes ==
    ASSUME IInv, JInv, KInv, NEW w \in armed, WaitEnds(w)
    PROVE  KInv'
<1>0. stack \in Stacks /\ w.at \in Nat
  BY StacksTyped DEF IInv, TypeOK
<1>1. PICK r \in begun : r = w.run
  BY DEF IInv, PauseInv
<1>2. Armed(r)
  BY <1>1 DEF Armed
<1>3. r \in Runs /\ r \in table /\ Idle(<<r, 2>>)
  <2>1. r \in Runs /\ r \in table /\ Bare(2, stack[<<r, 2>>])
    BY <1>2, PausedRests
  <2> QED
    BY <2>1 DEF Bare, Idle
<1> DEFINE f == Frame("resumeWait", r, w.at)
<1>4. /\ stack' = Spawn(stack, r, << f >>) /\ armed' = armed \ {w} /\ waiters' = waiters
      /\ UNCHANGED <<runVars, endVars>>
  BY <1>1 DEF WaitEnds
<1>5. Carries(r, << f >>) /\ r \in table'
  BY <1>0, <1>3, <1>4, CarriesCalls DEF runVars
<1>6. \A t \in Threads : << f >> \in Seq(Given(t)) /\ << >> \in Seq(Given(t))
  BY <1>0, <1>3, <1>5, GivenCalls
<1>7. Tally(<< f >>, {r}, DriveOps) # 0 /\ << f >> \in Calling
  BY <1>3, <1>5 DEF Carries, One
<1> HIDE DEF f
<1>8. PICK k \in {1, 2} : Idle(<<r, k>>) /\ Moved(<<r, k>>, << f >>, <<r, k>>, << >>)
  BY <1>0, <1>3, <1>4, <1>7, SpawnStarts
<1>9. <<r, k>> \in Threads
  BY <1>3, OwnThread
<1>10. TakenFrom(r)
  BY <1>1, <1>4 DEF TakenFrom
<1> QED
  BY <1>3, <1>4, <1>6, <1>7, <1>8, <1>9, <1>10, TakesOn

LEMMA ReleaseOutcomes ==
    ASSUME IInv, JInv, KInv, NEW t \in Threads, Release(t)
    PROVE  KInv'
<1>0. stack \in Stacks /\ ~Idle(t) /\ Top(t).op = "release"
  BY StacksTyped DEF Release, At
<1>1. PICK c \in Runs : c = Top(t).run
  BY <1>0, TopCall
<1>2. PICK w \in WaitersOn(c) :
         stack' = IF control[c].byStop
                  THEN Continue(t, << Frame("abandonParent", w.parent, None) >>)
                  ELSE ResumeWaiter(t, w)
  BY <1>1 DEF Release
<1>3. /\ waiters' = waiters \ WaitersOn(c) /\ armed' = armed
      /\ UNCHANGED <<runVars, endVars>>
  BY <1>1 DEF Release
<1>4. w \in waiters /\ w.child = c /\ w.at \in Nat /\ c \notin Queued /\ c \in table'
  BY <1>3 DEF WaitersOn, IInv, TypeOK, JInv, ReleasedAfter, KInv, Held, runVars
<1>5. PICK r \in begun : r = w.parent
  BY <1>4 DEF IInv, PauseInv
<1>6. Waiting(r)
  BY <1>4, <1>5 DEF Waiting
<1>7. r \in Runs /\ r \in table'
  BY <1>3, <1>6, PausedRests DEF runVars
<1>8. t \notin {<<r, 1>>, <<r, 2>>} /\ Idle(<<r, 2>>)
  BY <1>0, <1>6, PausedApart
<1>9. \A x \in waiters \ waiters' : x.parent = r
  <2>1. ASSUME NEW x \in waiters, x.child = c PROVE x.parent = r
    <3>1. x.parent \in Runs /\ Awaits(c, x.parent) /\ Awaits(c, r)
      BY <1>4, <1>5, <2>1 DEF Awaits, Registered, IInv, TypeOK
    <3> QED
      BY <1>7, <3>1 DEF KInv, OneParent
  <2> QED
    BY <1>3, <2>1 DEF WaitersOn
<1>10. TakenFrom(r)
  BY <1>3, <1>9 DEF TakenFrom
<1>11. << >> \in Seq(Given(t))
  OBVIOUS
<1>12. CASE control[c].byStop
  <2> DEFINE f == Frame("abandonParent", r, None)
  <2>1. stack' = Continue(t, << f >>)
    BY <1>2, <1>5, <1>12
  <2>2. Carries(r, << f >>) /\ << f >> \in Seq(Given(t))
    BY <1>7, CarriesCalls, GivenCalls
  <2> HIDE DEF f
  <2>3. Tally(<< f >>, {r}, DriveOps) # 0 /\ << f >> \in Calling
    BY <1>7, <2>2 DEF Carries, One
  <2>4. Moved(t, << f >>, t, << >>)
    BY <1>0, <2>1, <2>3, ContinueMoves
  <2> QED
    BY <1>0, <1>3, <1>7, <1>10, <1>11, <2>2, <2>3, <2>4, TakesOn
<1>13. CASE ~control[c].byStop
  <2> DEFINE f == Frame("resumeParent", r, [child |-> c, at |-> w.at])
  <2>1. stack' = Spawn(Continue(t, << >>), r, << f >>)
    BY <1>2, <1>4, <1>5, <1>13 DEF ResumeWaiter
  <2>2. Carries(r, << f >>) /\ << f >> \in Seq(Given(t))
    <3>1. c \in Recorded \ ByStop
      BY <1>0, <1>1, <1>4, <1>13, ReleaseRecorded DEF At, ByStop
    <3> QED
      BY <1>1, <1>4, <1>7, <3>1, CarriesPair, GivenCalls
  <2> HIDE DEF f
  <2>3. Tally(<< f >>, {r}, DriveOps) # 0 /\ << f >> \in Calling
    BY <1>7, <2>2 DEF Carries, One
  <2>4. PICK k \in {1, 2} : Moved(t, << >>, <<r, k>>, << f >>)
    BY <1>0, <1>7, <1>8, <2>1, <2>3, SpawnMoves, NoneMore
  <2>5. PICK u \in Threads : Moved(t, << >>, u, << f >>)
    BY <1>7, <2>4, OwnThread
  <2>6. PICK frames, more : frames = << >> /\ more = << f >>
    OBVIOUS
  <2>7. /\ Moved(t, frames, u, more) /\ frames \in Seq(Given(t)) /\ more \in Seq(Given(t))
        /\ Tally(more, {r}, DriveOps) # 0
    BY <1>11, <2>2, <2>3, <2>5, <2>6
  <2>8. /\ Idle(t) \/ Top(t).op \in {"release", "claimWait", "claimWaiter"}
        /\ Tally(frames, {r}, DriveOps) # 0 \/ Tally(more, {r}, DriveOps) # 0
        /\ r \in Runs /\ UNCHANGED <<runVars, endVars>>
    BY <1>0, <1>3, <1>7, <2>7
  <2> QED
    BY <1>10, <2>7, <2>8, TakesOn
<1> QED
  BY <1>12, <1>13

LEMMA ClaimWaitOutcomes ==
    ASSUME IInv, JInv, KInv, NEW t \in Threads, ClaimWait(t), Armed(Top(t).run)
    PROVE  KInv'
<1>0. ~Idle(t) /\ Top(t).op = "claimWait"
  BY DEF ClaimWait, At
<1>1. PICK r \in begun : r = Top(t).run
  BY <1>0, TopCall
<1>2. Armed(r)
  BY <1>1
<1>3. /\ armed' = armed \ {w \in armed : w.run = r} /\ waiters' = waiters
      /\ stack' = Continue(t, Settle(r, "cancelled"))
      /\ UNCHANGED <<runVars, endVars>>
  BY <1>1, <1>2 DEF ClaimWait, Armed
<1>4. r \in Runs /\ r \in table'
  BY <1>2, <1>3, PausedRests DEF runVars
<1> DEFINE frames == Settle(r, "cancelled")
<1>5. Carries(r, frames) /\ frames \in Seq(Given(t)) /\ << >> \in Seq(Given(t))
  BY <1>4, CarriesCalls, GivenCalls DEF Outcomes
<1> HIDE DEF frames
<1>6. Tally(frames, {r}, DriveOps) # 0
  BY <1>4, <1>5 DEF Carries, One
<1>7. Moved(t, frames, t, << >>)
  BY <1>0, <1>3, <1>5, ContinueMoves DEF Carries, frames
<1>8. TakenFrom(r)
  BY <1>3 DEF TakenFrom
<1> QED
  BY <1>0, <1>3, <1>4, <1>5, <1>6, <1>7, <1>8, TakesOn

LEMMA ClaimWaiterOutcomes ==
    ASSUME IInv, JInv, KInv, NEW t \in Threads, ClaimWaiter(t), Waiting(Top(t).run)
    PROVE  KInv'
<1>0. ~Idle(t) /\ Top(t).op = "claimWaiter"
  BY DEF ClaimWaiter, At
<1>1. PICK r \in begun : r = Top(t).run
  BY <1>0, TopCall
<1>2. Waiting(r)
  BY <1>1
<1>3. /\ waiters' = waiters \ {w \in waiters : w.parent = r} /\ armed' = armed
      /\ UNCHANGED <<runVars, endVars>>
  BY <1>1 DEF ClaimWaiter
<1>4. r \in Runs /\ r \in table'
  BY <1>2, <1>3, PausedRests DEF runVars
<1>5. \/ stack' = Continue(t, << >> \o Settle(r, "cancelled"))
      \/ \E c \in Runs : /\ c \in table'
                         /\ stack' = Continue(t, << Frame("cancel", c, None) >> \o Settle(r, "cancelled"))
  <2>1. PICK w \in waiters :
           stack' = Continue(t, (IF Top(t).arg = "children"
                                 THEN << Frame("cancel", w.child, None) >>
                                 ELSE << >>) \o Settle(r, "cancelled"))
    BY <1>1, <1>2 DEF ClaimWaiter, Waiting
  <2>2. w.child \in Runs /\ w.child \in table'
    BY <1>3 DEF IInv, TypeOK, KInv, Held, runVars
  <2> QED
    BY <2>1, <2>2
<1>6. PICK frames : /\ stack' = Continue(t, frames) /\ Carries(r, frames)
                    /\ frames \in Seq(Given(t))
  <2>0. "cancelled" \in Outcomes
    BY DEF Outcomes
  <2>1. ASSUME NEW c \in Runs, c \in table'
        PROVE  LET s == << Frame("cancel", c, None) >> \o Settle(r, "cancelled")
               IN  Carries(r, s) /\ s \in Seq(Given(t))
    BY <1>4, <2>0, <2>1, CarriesCalls, GivenCalls
  <2>2. << >> \o Settle(r, "cancelled") = Settle(r, "cancelled")
    BY DEF Settle
  <2>3. Carries(r, Settle(r, "cancelled")) /\ Settle(r, "cancelled") \in Seq(Given(t))
    BY <1>4, <2>0, CarriesCalls, GivenCalls
  <2> QED
    BY <1>5, <2>1, <2>2, <2>3
<1>7. Tally(frames, {r}, DriveOps) # 0 /\ << >> \in Seq(Given(t))
  BY <1>4, <1>6 DEF Carries, One
<1>8. Moved(t, frames, t, << >>)
  BY <1>0, <1>6, ContinueMoves DEF Carries
<1>9. TakenFrom(r)
  BY <1>3 DEF TakenFrom
<1> QED
  BY <1>0, <1>3, <1>4, <1>6, <1>7, <1>8, <1>9, TakesOn

(***************************************************************************)
(* Cancelling and abandoning                                               *)
(***************************************************************************)
\* A call that takes no run further and no run from its pause.
LEMMA AsideOn ==
    ASSUME IInv, JInv, KInv, NEW t \in Threads, NEW frames, Moved(t, frames, t, << >>),
           frames \in Seq(Given(t)), Idle(t) \/ Top(t).op \notin DriveOps \cup {"record"},
           UNCHANGED <<table, begun, status, pauseVars, stamped, recorded>>,
           \A q \in Runs : /\ control'[q].queued = control[q].queued
                           /\ control'[q].settled = control[q].settled
                           /\ control'[q].final = control[q].final
    PROVE  KInv'
<1>1. Alike /\ Quiet /\ Registers
  BY DEF Alike, Quiet, Registers, pauseVars
<1>2. Handed({}, t, frames, << >>)
  <2>1. \A q \in Runs : (Armed(q)' <=> Armed(q)) /\ (Waiting(q)' <=> Waiting(q))
    BY DEF Armed, Waiting, pauseVars
  <2>2. Idle(t) \/ Top(t).op \notin DriveOps
    OBVIOUS
  <2> QED
    BY <1>1, <2>1, <2>2, AlikeFirm DEF Handed
<1>3. << >> \in Seq(Given(t)) /\ (Idle(t) \/ Top(t).op # "record")
  OBVIOUS
<1> QED
  BY <1>1, <1>2, <1>3, AlikeFirm, Keeps

LEMMA ReleaseNobodyOutcomes ==
    ASSUME IInv, JInv, KInv, NEW t \in Threads, ReleaseNobody(t)
    PROVE  KInv'
<1>1. ~Idle(t) /\ Top(t).op = "release" /\ stack' = Continue(t, << >>)
  BY DEF ReleaseNobody, At
<1>2. Top(t).run \in table
  BY <1>1, TopProper DEF Proper
<1>3. UNCHANGED <<runVars, pauseVars, endVars>>
  BY <1>2 DEF ReleaseNobody, pauseVars
<1>4. Moved(t, << >>, t, << >>)
  BY <1>1, ContinueMoves, NoneMore
<1>5. << >> \in Seq(Given(t)) /\ Top(t).op \notin DriveOps \cup {"record"}
  BY <1>1 DEF DriveOps
<1> QED
  BY <1>3, <1>4, <1>5, AsideOn DEF runVars, endVars

\* An idle thread is given calls.
LEMMA IdleMoves ==
    ASSUME NEW t \in Threads, Idle(t), NEW frames \in Calling,
           stack' = [stack EXCEPT ![t] = frames]
    PROVE  Moved(t, frames, t, << >>)
<1>1. Below(t) = << >> /\ frames \o << >> = frames /\ << >> \in Calling
  BY DEF Below, Rest, Idle, Calling
<1> QED
  BY <1>1 DEF Moved

\* A thread gives up on a run that is in the table, or leaves it alone.
LEMMA AbandonCall ==
    ASSUME NEW t, NEW r \in Runs, r \in table', NEW a \in {None, "children"}
    PROVE  LET s == << Frame("abandon", r, a) >> IN s \in Seq(Given(t)) /\ s \in Calling
BY GivenCalls, FreeCalls

LEMMA CancelOutcomes ==
    ASSUME IInv, JInv, KInv, NEW r \in Cancels, Cancel(r)
    PROVE  KInv'
<1>1. r \in Runs /\ r \in table' /\ API \in Threads /\ Idle(API)
  BY RunsAssumption, QueuerIs DEF Cancel, Cancellable
<1> DEFINE frames == << Frame("abandon", r, "children") >>
<1>2. frames \in Calling /\ frames \in Seq(Given(API))
  BY <1>1, AbandonCall
<1>3. /\ stack' = [stack EXCEPT ![API] = frames]
      /\ control' = [control EXCEPT ![r].cancelRequested = TRUE]
      /\ UNCHANGED <<table, begun, status, pauseVars, stamped, recorded>>
  BY DEF Cancel, endVars
<1> HIDE DEF frames
<1>4. Moved(API, frames, API, << >>)
  BY <1>1, <1>2, <1>3, IdleMoves
<1> QED
  BY <1>1, <1>2, <1>3, <1>4, MarksOutcome, AsideOn

LEMMA CancelChildOutcomes ==
    ASSUME IInv, JInv, KInv, NEW t \in Threads, CancelChild(t)
    PROVE  KInv'
<1>1. ~Idle(t) /\ Top(t).op = "cancel" /\ Top(t).op \notin DriveOps \cup {"record"}
  BY DEF CancelChild, At, DriveOps
<1>2. PICK r \in Runs : r = Top(t).run /\ r \in table
  BY <1>1, TopCall, TopProper DEF Proper
<1>3. UNCHANGED <<table, begun, status, pauseVars, stamped, recorded>> /\ r \in table'
  BY <1>2 DEF CancelChild, endVars
<1>4. /\ control' = [control EXCEPT ![r].cancelRequested = TRUE] \/ UNCHANGED control
      /\ \/ stack' = Continue(t, << Frame("abandon", r, "children") >>)
         \/ stack' = Continue(t, << >>)
  BY <1>2 DEF CancelChild
<1>5. PICK frames \in Calling : stack' = Continue(t, frames) /\ frames \in Seq(Given(t))
  BY <1>3, <1>4, AbandonCall, GivenCalls, NoneMore
<1>6. Moved(t, frames, t, << >>)
  BY <1>1, <1>5, ContinueMoves
<1> QED
  BY <1>1, <1>3, <1>4, <1>5, <1>6, MarksOutcome, AsideOn

LEMMA AbandonOutcomes ==
    ASSUME IInv, JInv, KInv, NEW t \in Threads, Abandon(t)
    PROVE  KInv'
<1>1. ~Idle(t) /\ Top(t).op = "abandon" /\ Top(t).op \notin DriveOps \cup {"record"}
  BY DEF Abandon, At, DriveOps
<1>2. PICK r \in Runs : r = Top(t).run /\ r \in table
  BY <1>1, TopCall, TopProper DEF Proper
<1>3. Top(t).arg \in {None, "children"} /\ "cancelled" \in Outcomes
  <2>1. Top(t) \in FrameSet
    BY <1>1, TopCall
  <2> QED
    BY <1>1, <2>1 DEF FrameSet, Outcomes
<1>4. UNCHANGED <<table, begun, status, pauseVars, stamped, recorded>> /\ r \in table'
  BY <1>2 DEF Abandon, endVars
<1>5. control' = [control EXCEPT ![r].done = TRUE]
  BY <1>2 DEF Abandon
<1>6. PICK frames \in Calling : stack' = Continue(t, frames) /\ frames \in Seq(Given(t))
  <2>1. \/ stack' = Continue(t, Settle(r, "cancelled"))
        \/ stack' = Continue(t, << Frame("claimWait", r, Top(t).arg) >>)
    BY <1>2 DEF Abandon
  <2>2. Settle(r, "cancelled") \in Calling /\ Settle(r, "cancelled") \in Seq(Given(t))
    BY <1>3, <1>4, GivenCalls, FineSettle
  <2>3. /\ << Frame("claimWait", r, Top(t).arg) >> \in Calling
        /\ << Frame("claimWait", r, Top(t).arg) >> \in Seq(Given(t))
    BY <1>3, <1>4, GivenCalls, FreeCalls
  <2> QED
    BY <2>1, <2>2, <2>3
<1>7. Moved(t, frames, t, << >>)
  BY <1>1, <1>6, ContinueMoves
<1> QED
  BY <1>1, <1>4, <1>5, <1>6, <1>7, MarksOutcome, AsideOn

LEMMA ClaimNothingOutcomes ==
    ASSUME IInv, JInv, KInv, NEW t \in Threads,
           \/ ClaimWait(t) /\ ~Armed(Top(t).run)
           \/ ClaimWaiter(t) /\ ~Waiting(Top(t).run)
    PROVE  KInv'
<1>1. /\ ~Idle(t) /\ Top(t).op \in {"claimWait", "claimWaiter"}
      /\ Top(t).op \notin DriveOps \cup {"record"}
  BY DEF ClaimWait, ClaimWaiter, At, DriveOps
<1>2. PICK r \in Runs : r = Top(t).run /\ r \in table
  BY <1>1, TopCall, TopProper DEF Proper
<1>3. Top(t).arg \in {None, "children"}
  <2>1. Top(t) \in FrameSet
    BY <1>1, TopCall
  <2> QED
    BY <1>1, <2>1 DEF FrameSet
<1>4. UNCHANGED <<runVars, pauseVars, endVars>> /\ r \in table'
  BY <1>2 DEF ClaimWait, ClaimWaiter, Armed, Waiting, pauseVars, runVars
<1>5. \/ stack' = Continue(t, << Frame("claimWaiter", r, Top(t).arg) >>)
      \/ stack' = Continue(t, << >>)
  BY <1>2 DEF ClaimWait, ClaimWaiter, Armed, Waiting
<1>6. PICK frames \in Calling : stack' = Continue(t, frames) /\ frames \in Seq(Given(t))
  <2>1. /\ << Frame("claimWaiter", r, Top(t).arg) >> \in Calling
        /\ << Frame("claimWaiter", r, Top(t).arg) >> \in Seq(Given(t))
    BY <1>3, <1>4, GivenCalls, FreeCalls
  <2> QED
    BY <1>2, <1>4, <1>5, <2>1, GivenCalls, NoneMore
<1>7. Moved(t, frames, t, << >>)
  BY <1>1, <1>6, ContinueMoves
<1> QED
  BY <1>1, <1>4, <1>6, <1>7, AsideOn DEF runVars, endVars

LEMMA AbandonNextOutcomes ==
    ASSUME IInv, JInv, KInv, AbandonNext
    PROVE  KInv'
<1>1. Stopper \in Threads /\ Idle(Stopper)
  BY QueuerIs DEF AbandonNext
<1>2. PICK r \in stop.left : GiveUp(Stopper, r, << >>)
  BY DEF AbandonNext
<1>3. r \in begun /\ r \in Runs /\ MarkStopped(r)
  BY <1>2 DEF IInv, StopInv, TypeOK, GiveUp
<1>4. UNCHANGED <<table, begun, status, pauseVars, stamped, recorded>>
  BY DEF AbandonNext, endVars
<1>5. PICK frames \in Calling : /\ stack' = [stack EXCEPT ![Stopper] = frames]
                                /\ frames \in Seq(Given(Stopper))
  <2> DEFINE s == << Frame("abandon", r, None) >>
  <2>1. CASE control[r].stopped \/ control[r].settled
    <3>1. stack' = [stack EXCEPT ![Stopper] = << >>]
      BY <1>2, <2>1 DEF GiveUp
    <3>2. << >> \in Seq(Given(Stopper))
      OBVIOUS
    <3> QED
      BY <3>1, <3>2, NoneMore
  <2>2. CASE ~(control[r].stopped \/ control[r].settled)
    <3>1. r \in table'
      BY <1>3, <1>4, <2>2 DEF JInv, EvictedSettled
    <3>2. s \in Calling /\ s \in Seq(Given(Stopper))
      BY <1>3, <3>1, AbandonCall
    <3>3. stack' = [stack EXCEPT ![Stopper] = s \o << >>]
      BY <1>2, <2>2 DEF GiveUp
    <3>4. \A q \in Seq(FrameSet) : q \o << >> = q
      OBVIOUS
    <3> HIDE DEF s
    <3> QED
      BY <3>2, <3>3, <3>4 DEF Calling
  <2> QED
    BY <2>1, <2>2
<1>6. Moved(Stopper, frames, Stopper, << >>)
  BY <1>1, <1>5, IdleMoves
<1> QED
  BY <1>1, <1>3, <1>4, <1>5, <1>6, MarksOutcome, AsideOn

(***************************************************************************)
(* The ordered queue, and runs that begin                                  *)
(***************************************************************************)
LEMMA TurnOutcomes ==
    ASSUME IInv, JInv, KInv, NEW t \in Threads, TurnEnds(t) \/ TurnSkipped(t) \/ Signal(t)
    PROVE  KInv'
<1>1. ~Idle(t) /\ Top(t).op \in {"await", "turn", "signal"} /\ stack' = Continue(t, << >>)
  BY DEF TurnEnds, TurnSkipped, Signal, At
<1>2. UNCHANGED <<runVars, pauseVars, endVars>>
  BY DEF TurnEnds, TurnSkipped, Signal
<1>3. Moved(t, << >>, t, << >>)
  BY <1>1, ContinueMoves, NoneMore
<1>4. << >> \in Seq(Given(t)) /\ Top(t).op \notin DriveOps \cup {"record"}
  BY <1>1 DEF DriveOps
<1> QED
  BY <1>2, <1>3, <1>4, AsideOn DEF runVars, endVars

LEMMA OrderedOutcomes ==
    ASSUME IInv, JInv, KInv, OrderedEvent
    PROVE  KInv'
<1>1. Queuer \in Threads /\ Idle(Queuer) /\ 1 \in 1..Len(Queue)
  BY RunsAssumption, QueuerIs DEF OrderedEvent
<1>2. PICK f : f = Frame("enqueue", Queue[1], 1)
  OBVIOUS
<1>3. f \in FrameSet /\ f.op = "enqueue"
  BY <1>1, <1>2 DEF Frame, FrameSet, Queued
<1>4. f \in Given(Queuer)
  BY <1>3 DEF Given
<1>5. << f >> \in Calling /\ << f >> \in Seq(Given(Queuer))
  BY <1>3, <1>4 DEF Calling
<1>6. /\ stack' = [stack EXCEPT ![Queuer] = << f >>]
      /\ UNCHANGED <<runVars, pauseVars, endVars>>
  BY <1>2 DEF OrderedEvent
<1>7. Moved(Queuer, << f >>, Queuer, << >>)
  BY <1>1, <1>5, <1>6, IdleMoves
<1> QED
  BY <1>1, <1>5, <1>6, <1>7, AsideOn DEF runVars, endVars

LEMMA TurnRefusedOutcomes ==
    ASSUME IInv, JInv, KInv, NEW t \in Threads, TurnRefused(t)
    PROVE  KInv'
<1>1. ~Idle(t) /\ Top(t).op = "turn" /\ Top(t).op \notin DriveOps \cup {"record"}
  BY DEF TurnRefused, At, DriveOps
<1>2. PICK r \in Runs : r = Top(t).run /\ r \in begun
  BY <1>1, TopCall DEF IInv, TypeOK
<1>3. MarkStopped(r) /\ UNCHANGED <<table, begun, status, pauseVars, stamped, recorded>>
  BY <1>2 DEF TurnRefused, GiveUp, endVars
<1>4. PICK frames \in Calling : /\ stack' = [stack EXCEPT ![t] = frames \o Below(t)]
                                /\ frames \in Seq(Given(t))
  <2>1. Below(t) = Tail(stack[t]) /\ Below(t) \in Seq(FrameSet)
    BY <1>1, StacksTyped, BelowTally DEF Below, Rest, Idle, Calling
  <2> DEFINE s == << Frame("abandon", r, None) >>
             b == Below(t)
  <2>2. stack' = [stack EXCEPT ![t] = IF control[r].stopped \/ control[r].settled
                                      THEN b ELSE s \o b]
    BY <1>2, <2>1 DEF TurnRefused, GiveUp
  <2>3. b \in Seq(FrameSet)
    BY <2>1
  <2> HIDE DEF b
  <2>4. CASE control[r].stopped \/ control[r].settled
    <3>1. << >> \o b = b /\ << >> \in Seq(Given(t))
      BY <2>3
    <3>2. stack' = [stack EXCEPT ![t] = << >> \o b]
      BY <2>2, <2>4, <3>1
    <3> QED
      BY <3>1, <3>2, NoneMore DEF b
  <2>5. CASE ~(control[r].stopped \/ control[r].settled)
    <3>1. r \in table'
      BY <1>2, <1>3, <2>5 DEF JInv, EvictedSettled
    <3>2. s \in Calling /\ s \in Seq(Given(t))
      BY <1>2, <3>1, AbandonCall
    <3>3. stack' = [stack EXCEPT ![t] = s \o b]
      BY <2>2, <2>5
    <3> HIDE DEF s
    <3> QED
      BY <3>2, <3>3 DEF b
  <2> QED
    BY <2>4, <2>5
<1>5. Moved(t, frames, t, << >>)
  BY <1>4, NoneMore DEF Moved
<1> QED
  BY <1>1, <1>2, <1>3, <1>4, <1>5, MarksOutcome, AsideOn

\* A queued run has no goroutine until its turn.
LEMMA TurnQueued ==
    ASSUME IInv, JInv, NEW t \in Threads, At(t, "turn")
    PROVE  /\ t = Queuer /\ Top(t).run \in Runs /\ control[Top(t).run].queued
           /\ Top(t).run \in begun
           /\ Idle(<<Top(t).run, 1>>) /\ Idle(<<Top(t).run, 2>>)
<1>1. t = Queuer /\ Top(t).run \in Runs
  <2>1. "turn" \in QueueOps
    BY DEF QueueOps
  <2> QED
    BY <2>1, QueueTop
<1>2. PICK r \in Runs : r = Top(t).run
  BY <1>1
<1>3. stack \in Stacks /\ ~Idle(t) /\ Top(t).op \in {"turn"}
  BY StacksTyped DEF At
<1>4. Turned(r) >= 1 /\ Turned(r) \in Nat
  BY <1>2, <1>3, TopOut, NumberNat DEF Turned
<1>5. control[r].queued
  <2>1. Turned(r) = 1
    BY <1>4 DEF JInv, TurnsOnce
  <2> QED
    BY <2>1 DEF JInv, TurnsOnce
<1>6. r \in begun
  BY <1>5 DEF IInv, ControlInv, NewControl
<1>7. Idle(<<r, 1>>) /\ Idle(<<r, 2>>)
  BY <1>5 DEF JInv, Goroutines, Goroutine, Idle
<1> QED
  BY <1>1, <1>2, <1>5, <1>6, <1>7

LEMMA TurnStartsOutcomes ==
    ASSUME IInv, JInv, KInv, NEW t \in Threads, TurnStarts(t)
    PROVE  KInv'
<1>1. At(t, "turn") /\ ~Idle(t) /\ Top(t).op = "turn" /\ Top(t).op \notin DriveOps
  BY DEF TurnStarts, At, DriveOps
<1>2. PICK r \in Runs : /\ r = Top(t).run /\ r \in begun /\ t = Queuer
                        /\ Idle(<<r, 1>>)
  BY <1>1, TurnQueued
<1>3. PICK f : f = Frame("await", r, None)
  OBVIOUS
<1>4. PICK more : more = << Frame("run", r, 1), Frame("signal", r, None) >>
  OBVIOUS
<1>5. /\ ~control[r].settled /\ control' = [control EXCEPT ![r].queued = FALSE]
      /\ stack' = Spawn(Continue(t, << f >>), r, more)
      /\ UNCHANGED <<table, begun, status, pauseVars, endVars>>
  BY <1>2, <1>3, <1>4 DEF TurnStarts
<1>6. r \in table /\ r \in table'
  BY <1>2, <1>5 DEF JInv, EvictedSettled
<1>7. << f >> \in Calling /\ << f >> \in Seq(Given(t))
  <2>1. f \in FrameSet
    BY <1>3 DEF Frame, FrameSet, None
  <2>2. << f >> \in Seq(Given(t))
    BY <1>3, <1>6, GivenCalls
  <2> QED
    BY <2>1, <2>2 DEF Calling
<1>8. /\ more \in Calling /\ more \in Seq(Given(t))
      /\ Tally(more, {r}, DriveOps) # 0
  <2>1. PICK g : g = Frame("run", r, 1)
    OBVIOUS
  <2>2. PICK h : h = Frame("signal", r, None)
    OBVIOUS
  <2>3. /\ g \in FrameSet /\ h \in FrameSet /\ g.op = "run" /\ g.run = r
        /\ h.op = "signal" /\ h.run = r
    BY <2>1, <2>2 DEF Frame, FrameSet, None
  <2>4. g \in Given(t) /\ h \in Given(t)
    BY <1>6, <2>3 DEF Given
  <2>5. more = << g, h >>
    BY <1>4, <2>1, <2>2
  <2>6. more \in Calling /\ more \in Seq(Given(t)) /\ 1 \in 1..Len(more) /\ more[1] = g
    BY <2>3, <2>4, <2>5 DEF Calling
  <2>7. "run" \in DriveOps
    BY DEF DriveOps
  <2> QED
    BY <2>3, <2>6, <2>7, TallyNone
<1>9. Moved(t, << f >>, <<r, 1>>, more) /\ <<r, 1>> \in Threads
  BY <1>1, <1>2, <1>5, <1>7, <1>8, StacksTyped, ThreadsDiffer, OwnThread, SpawnMoves
<1>10. /\ \A q \in Runs : /\ control'[q].settled = control[q].settled
                          /\ control'[q].final = control[q].final
       /\ \A q \in Runs \ {r} : control'[q] = control[q]
  BY <1>5 DEF IInv, TypeOK, Controls
<1>11. Firm /\ Registers /\ Quiet
  BY <1>5, <1>10 DEF Firm, Registers, Quiet, pauseVars, endVars
<1>12. Handed({r}, t, << f >>, more)
  <2>1. \A q \in Runs : (Armed(q)' <=> Armed(q)) /\ (Waiting(q)' <=> Waiting(q))
    BY <1>5 DEF Armed, Waiting, pauseVars
  <2>2. \A q \in Runs \ {r} : Open(q)' => Open(q)
    BY <1>5, <1>10 DEF Open
  <2>3. \A q \in Runs : q \in {r} => Tally(more, {q}, DriveOps) # 0
    BY <1>8
  <2> QED
    BY <1>1, <2>1, <2>2, <2>3 DEF Handed
<1> QED
  BY <1>1, <1>7, <1>8, <1>9, <1>11, <1>12, Keeps

\* A run that is put in the table changes nothing for the others.
LEMMA PutOutcomes ==
    ASSUME IInv, JInv, NEW r \in Runs, NEW queued \in BOOLEAN, Put(r, queued),
           UNCHANGED <<pauseVars, endVars>>
    PROVE  /\ Firm /\ Registers /\ Quiet /\ r \in table' /\ r \notin begun
           /\ \A q \in Runs : (Armed(q)' <=> Armed(q)) /\ (Waiting(q)' <=> Waiting(q))
           /\ \A q \in Runs \ {r} : Open(q)' => Open(q)
           /\ queued => ~Open(r)'
<1>1. control \in [Runs -> Controls] /\ status \in [Runs -> Statuses] /\ r \notin begun
  BY DEF IInv, TypeOK, Put
<1>2. control[r] = NewControl(FALSE)
  BY <1>1, UnbegunPauses
<1>3. ~control[r].settled /\ control'[r] = NewControl(queued)
      /\ \A q \in Runs \ {r} : control'[q] = control[q] /\ status'[q] = status[q]
  BY <1>1, <1>2 DEF Put, NewControl
<1>4. table' = table \cup {r} /\ begun' = begun \cup {r}
  BY DEF Put
<1>5. r \notin Recorded
  BY <1>3 DEF Recorded, JInv, SettlesCounted
<1>6. Firm /\ Registers /\ Quiet
  BY <1>3, <1>4, <1>5 DEF Firm, Registers, Quiet, pauseVars, endVars
<1>7. \A q \in Runs : (Armed(q)' <=> Armed(q)) /\ (Waiting(q)' <=> Waiting(q))
  BY DEF Armed, Waiting, pauseVars
<1>8. (\A q \in Runs \ {r} : Open(q)' => Open(q)) /\ (queued => ~Open(r)')
  BY <1>3, <1>4 DEF Open, NewControl
<1> QED
  BY <1>1, <1>4, <1>6, <1>7, <1>8

LEMMA EnqueueOutcomes ==
    ASSUME IInv, JInv, KInv, NEW t \in Threads, Enqueue(t)
    PROVE  KInv'
<1>1. At(t, "enqueue") /\ ~Idle(t) /\ Top(t).op = "enqueue" /\ Top(t).op \notin DriveOps
  BY DEF Enqueue, At, DriveOps
<1>2. PICK r \in Runs : r = Top(t).run
  <2>1. "enqueue" \in QueueOps
    BY DEF QueueOps
  <2> QED
    BY <1>1, <2>1, QueueTop
<1>3. PICK i \in 1..Len(Queue) : i = Top(t).arg
  <2>1. Top(t) \in FrameSet
    BY <1>1, TopCall
  <2> QED
    BY <1>1, <2>1 DEF FrameSet
<1>4. Put(r, TRUE) /\ UNCHANGED <<pauseVars, endVars>>
  BY <1>2 DEF Enqueue
<1>5. stack' = Continue(t, IF i < Len(Queue)
                           THEN << Frame("enqueue", Queue[i + 1], i + 1) >> ELSE Turns)
  BY <1>3 DEF Enqueue
<1>6. PICK frames \in Calling : stack' = Continue(t, frames) /\ frames \in Seq(Given(t))
  <2>1. CASE i < Len(Queue)
    <3>1. PICK f : f = Frame("enqueue", Queue[i + 1], i + 1)
      OBVIOUS
    <3>2. i + 1 \in 1..Len(Queue)
      BY <1>3, <2>1, RunsAssumption
    <3>3. << f >> \in Calling /\ f.op = "enqueue" /\ f \in FrameSet
      BY <3>1, <3>2, EnqueueCall DEF Frame, FrameSet, Queued, Asks
    <3>4. f \in Given(t)
      BY <3>3 DEF Given
    <3>5. << f >> \in Seq(Given(t))
      BY <3>4
    <3> QED
      BY <1>5, <2>1, <3>1, <3>3, <3>5
  <2>2. CASE ~(i < Len(Queue))
    <3>1. Turns \in Calling
      BY TurnCalls DEF Asks
    <3>2. Len(Queue) \in Nat /\ \A j \in 1..Len(Queue) : Queue[j] \in Runs
      BY RunsAssumption
    <3>3. \A j \in 1..Len(Queue) : Frame("turn", Queue[j], None) \in Given(t)
      BY <3>2 DEF Frame, FrameSet, Given, None
    <3>4. Turns \in Seq(Given(t))
      BY <3>2, <3>3 DEF Turns
    <3> QED
      BY <1>5, <2>2, <3>1, <3>4
  <2> QED
    BY <2>1, <2>2
<1>7. Moved(t, frames, t, << >>) /\ << >> \in Seq(Given(t))
  BY <1>1, <1>6, ContinueMoves
<1>8. Firm /\ Registers /\ Quiet
  BY <1>4, PutOutcomes
<1>9. Handed({}, t, frames, << >>)
  <2>1. /\ \A q \in Runs : (Armed(q)' <=> Armed(q)) /\ (Waiting(q)' <=> Waiting(q))
        /\ \A q \in Runs : Open(q)' => Open(q)
    BY <1>4, PutOutcomes
  <2> QED
    BY <1>1, <2>1 DEF Handed
<1> QED
  BY <1>1, <1>6, <1>7, <1>8, <1>9, Keeps

LEMMA BeginOutcomes ==
    ASSUME IInv, JInv, KInv, NEW r \in TopLevel, Begin(r)
    PROVE  KInv'
<1>1. r \in Runs /\ Put(r, FALSE) /\ UNCHANGED <<pauseVars, endVars>>
  BY RunsAssumption DEF Begin
<1>2. /\ Firm /\ Registers /\ Quiet /\ r \in table' /\ r \notin begun
      /\ \A q \in Runs : (Armed(q)' <=> Armed(q)) /\ (Waiting(q)' <=> Waiting(q))
      /\ \A q \in Runs \ {r} : Open(q)' => Open(q)
  BY <1>1, PutOutcomes
<1>3. PICK u \in Threads : u = <<r, 1>> /\ Idle(u)
  BY <1>1, <1>2, OwnThread DEF JInv, Goroutines, Goroutine, Idle
<1>4. PICK frames : frames = << Frame("run", r, 1) >>
  OBVIOUS
<1>5. /\ frames \in Calling /\ frames \in Seq(Given(u)) /\ << >> \in Seq(Given(u))
      /\ Tally(frames, {r}, DriveOps) # 0
  <2>1. Carries(r, frames)
    BY <1>1, <1>4, CarriesCalls
  <2>2. frames \in Seq(Given(u)) /\ << >> \in Seq(Given(u))
    BY <1>1, <1>2, <1>4, GivenCalls
  <2> QED
    BY <1>1, <2>1, <2>2 DEF Carries, One
<1>6. stack' = Spawn(stack, r, frames)
  BY <1>4 DEF Begin
<1>7. Moved(u, frames, u, << >>)
  BY <1>1, <1>3, <1>5, <1>6, StacksTyped, SpawnStarts
<1>8. Handed({r}, u, frames, << >>)
  BY <1>2, <1>3, <1>5 DEF Handed
<1> QED
  BY <1>2, <1>3, <1>5, <1>7, <1>8, Keeps

(***************************************************************************)
(* Settling                                                                *)
(***************************************************************************)
LEMMA CountOutcomes ==
    ASSUME IInv, JInv, KInv, NEW t \in Threads, Count(t)
    PROVE  KInv'
<1>1. ~Idle(t) /\ Top(t).op = "count"
  BY DEF Count, At
<1>2. Top(t) \in Proper(table, control) /\ Top(t) \in FrameSet
  BY <1>1, TopProper, TopCall
<1>3. PICK r \in Runs : r = Top(t).run /\ r \in table
  BY <1>1, <1>2, TopCall DEF Proper, IInv, TypeOK
<1>4. PICK o \in Outcomes \cup {EngineStopped} : o = Top(t).arg
  BY <1>1, <1>2 DEF FrameSet
<1>5. PICK f : f = Frame("claim", r, o)
  OBVIOUS
<1>6. /\ stack' = Continue(t, << f >>)
      /\ UNCHANGED <<table, begun, control, status, pauseVars, stamped, recorded>>
  BY <1>3, <1>4, <1>5 DEF Count, runVars
<1>7. /\ << f >> \in Seq(Given(t)) /\ << >> \in Seq(Given(t)) /\ << f >> \in Calling
      /\ Tally(<< f >>, {r}, DriveOps) # 0
  <2>1. f \in FrameSet
    BY <1>3, <1>4, <1>5 DEF Frame, FrameSet
  <2>2. << f >> \in Seq(Given(t)) /\ << >> \in Seq(Given(t))
    BY <1>3, <1>5, <1>6, GivenCalls
  <2>3. Tally(<< f >>, {r}, DriveOps) = 1
    BY <1>5, FrameCounts DEF DriveOps
  <2> QED
    BY <2>1, <2>2, <2>3 DEF Calling
<1>8. Moved(t, << f >>, t, << >>)
  BY <1>1, <1>6, <1>7, ContinueMoves
<1>9. Alike /\ Quiet /\ Registers
  BY <1>6 DEF Alike, Quiet, Registers, pauseVars
<1>10. Handed({r}, t, << f >>, << >>)
  <2>1. \A q \in Runs : (Armed(q)' <=> Armed(q)) /\ (Waiting(q)' <=> Waiting(q))
    BY <1>6 DEF Armed, Waiting, pauseVars
  <2>2. \A q \in Runs : q \in {r} => Tally(<< f >>, {q}, DriveOps) # 0
    BY <1>7
  <2> QED
    BY <1>3, <1>9, <2>1, <2>2, AlikeFirm DEF Handed
<1> QED
  BY <1>1, <1>7, <1>8, <1>9, <1>10, AlikeFirm, Keeps

\* The outcome was claimed before.
LEMMA ClaimedOutcomes ==
    ASSUME IInv, JInv, KInv, NEW t \in Threads, Claim(t), control[Top(t).run].settled
    PROVE  KInv'
<1>1. ~Idle(t) /\ Top(t).op = "claim"
  BY DEF Claim, At
<1>2. PICK r \in Runs : r = Top(t).run /\ r \in table /\ control[r].settled
  BY <1>1, TopProper, TopCall DEF Proper, IInv, TypeOK
<1>3. /\ stack' = Continue(t, << >>)
      /\ UNCHANGED <<table, begun, control, status, pauseVars, stamped, recorded>>
  BY <1>2 DEF Claim
<1>4. Moved(t, << >>, t, << >>) /\ << >> \in Seq(Given(t))
  BY <1>1, <1>3, NoneMore, ContinueMoves
<1>5. Alike /\ Quiet /\ Registers
  BY <1>3 DEF Alike, Quiet, Registers, pauseVars
<1>6. Handed({r}, t, << >>, << >>)
  <2>1. \A q \in Runs : (Armed(q)' <=> Armed(q)) /\ (Waiting(q)' <=> Waiting(q))
    BY <1>3 DEF Armed, Waiting, pauseVars
  <2>2. ~Open(r)
    BY <1>2 DEF Open
  <2> QED
    BY <1>2, <1>5, <2>1, <2>2, AlikeFirm DEF Handed
<1> QED
  BY <1>1, <1>4, <1>5, <1>6, AlikeFirm, Keeps

\* Nobody records the outcome of a run that is not settled.
LEMMA UnsettledRecords ==
    ASSUME IInv, KInv, NEW r \in Runs, ~control[r].settled
    PROVE  Records(r) = 0
<1> SUFFICES ASSUME NEW v \in Threads, NEW i \in 1..Len(stack[v])
             PROVE  stack[v][i].run \notin {r} \/ stack[v][i].op \notin {"record"}
  BY StacksTyped, NumberNone DEF Records
<1>1. PICK f \in Proper(table, control) : f = stack[v][i]
  BY DEF KInv, Held
<1>2. f.op = "record" => control[f.run].settled
  BY <1>1 DEF Proper
<1> QED
  BY <1>1, <1>2

\* A step that goes on with no registration makes no run wait for another.
LEMMA AwaitsSame ==
    ASSUME IInv, NEW t \in Threads, NEW f \in FrameSet, f.op # "register",
           Moved(t, << f >>, t, << >>), waiters' = waiters, NEW c \in Runs, NEW p \in Runs,
           Awaits(c, p)'
    PROVE  Awaits(c, p)
<1> DEFINE S == {g \in FrameSet : g.op = "register" => Awaits(g.arg.child, g.run)}
<1>1. << f >> \in Seq(S) /\ << >> \in Seq(S)
  <2>1. f \in S
    OBVIOUS
  <2> HIDE DEF S
  <2> QED
    BY <2>1
<1>2. stack \in [Threads -> Seq(S)]
  <2>1. stack \in [Threads -> Seq(FrameSet)]
    BY DEF IInv, TypeOK
  <2>2. ASSUME NEW v \in Threads, NEW i \in 1..Len(stack[v]) PROVE stack[v][i] \in S
    <3>1. PICK g \in FrameSet : g = stack[v][i]
      BY <2>1
    <3>2. g.op = "register" => Awaits(g.arg.child, g.run)
      BY <3>1 DEF Awaits
    <3> QED
      BY <3>1, <3>2
  <2> HIDE DEF S
  <2>3. ASSUME NEW v \in Threads PROVE stack[v] \in Seq(S)
    <3>1. stack[v] \in Seq(FrameSet) /\ \A i \in 1..Len(stack[v]) : stack[v][i] \in S
      BY <2>1, <2>2
    <3> QED
      BY <3>1
  <2> QED
    BY <2>1, <2>3
<1>3. CASE \E w \in waiters' : w.child = c /\ w.parent = p
  BY <1>3 DEF Awaits, Registered
<1>4. CASE \E v \in Threads : \E i \in 1..Len(stack'[v]) :
              stack'[v][i].op = "register" /\ stack'[v][i].run = p /\ stack'[v][i].arg.child = c
  <2> HIDE DEF S
  <2>1. stack' \in [Threads -> Seq(S)]
    BY <1>1, <1>2, MovedInto
  <2>2. PICK g \in S : g.op = "register" /\ g.run = p /\ g.arg.child = c
    BY <1>4, <2>1
  <2> QED
    BY <2>2 DEF S
<1> QED
  BY <1>3, <1>4 DEF Awaits, Registered

\* The outcome is claimed.
LEMMA ClaimOutcomes ==
    ASSUME IInv, JInv, KInv, NEW t \in Threads, Claim(t), ~control[Top(t).run].settled
    PROVE  KInv'
<1>1. ~Idle(t) /\ Top(t).op = "claim" /\ stack \in Stacks /\ control \in [Runs -> Controls]
  BY StacksTyped DEF Claim, At, IInv, TypeOK
<1>2. PICK r \in Runs : r = Top(t).run /\ r \in table /\ r \in begun /\ ~control[r].settled
  BY <1>1, TopProper, TopCall DEF Proper, IInv, TypeOK
<1>3. PICK d : d = Decided(control[r], Top(t).arg)
  OBVIOUS
<1>4. d.final \in Outcomes
  <2>1. /\ Top(t) \in FrameSet /\ Top(t) \in Calls(begun, control, table)
    BY <1>1, TopCall
  <2>2. /\ Top(t).arg \in Outcomes \cup {EngineStopped}
        /\ Top(t).arg = "cancelled" => control[r].cancelRequested \/ control[r].stopped
    BY <1>1, <1>2, <2>1 DEF Calls, FrameSet, Ended
  <2> QED
    BY <1>1, <1>2, <1>3, <2>2, DecidedOutcome
<1>5. PICK f : f = Frame("record", r, d.final)
  OBVIOUS
<1>6. /\ control' = [control EXCEPT ![r].settled = TRUE, ![r].final = d.final,
                                    ![r].byStop = d.byStop]
      /\ stack' = Continue(t, << f >>)
      /\ UNCHANGED <<table, begun, status, pauseVars, stamped, recorded>>
  BY <1>2, <1>3, <1>5 DEF Claim
<1>7. /\ control'[r].settled /\ control'[r].final = d.final
      /\ \A q \in Runs \ {r} : control'[q] = control[q]
  BY <1>1, <1>2, <1>6 DEF Controls
<1>8. /\ f \in FrameSet /\ f.op = "record" /\ f.run = r /\ f.arg = d.final
  BY <1>4, <1>5 DEF Frame, FrameSet
<1>9. Moved(t, << f >>, t, << >>)
  <2>1. << f >> \in Calling
    BY <1>8 DEF Calling
  <2> QED
    BY <1>1, <1>6, <2>1, ContinueMoves
<1>10. Held'
  <2> DEFINE P == Proper(table', control')
  <2>1. Proper(table, control) \subseteq P
    BY <1>2, <1>6, <1>7 DEF Proper, FrameSet
  <2>2. f \in P
    BY <1>2, <1>6, <1>7, <1>8 DEF Proper
  <2>3. Seq(Proper(table, control)) \subseteq Seq(P)
    BY <2>1, SeqMonotonic
  <2>4. stack \in [Threads -> Seq(P)]
    BY <2>3 DEF KInv, Held
  <2> HIDE DEF P
  <2>5. << f >> \in Seq(P) /\ << >> \in Seq(P)
    BY <2>2
  <2>6. stack' \in [Threads -> Seq(P)]
    BY <1>9, <2>4, <2>5, MovedInto
  <2>7. \A w \in waiters' : w.child \in table' /\ w.parent \in table'
    BY <1>6 DEF KInv, Held, pauseVars
  <2> QED
    BY <2>6, <2>7 DEF Held, P
<1>11. StillOwned'
  <2>1. \A q \in Runs : (Armed(q)' <=> Armed(q)) /\ (Waiting(q)' <=> Waiting(q))
    BY <1>6 DEF Armed, Waiting, pauseVars
  <2>2. ~Open(r)' /\ \A q \in Runs \ {r} : Open(q)' => Open(q)
    BY <1>6, <1>7 DEF Open
  <2>3. Handed({r}, t, << f >>, << >>)
    BY <1>2, <2>1, <2>2 DEF Handed
  <2> QED
    BY <1>9, <2>3, StillOwnedKept DEF KInv
<1>12. OneParent'
  <2>1. waiters' = waiters
    BY <1>6 DEF pauseVars
  <2>2. \A c, p \in Runs : Awaits(c, p)' => Awaits(c, p)
    BY <1>8, <1>9, <2>1, AwaitsSame
  <2> QED
    BY <2>2 DEF KInv, OneParent
<1>13. RecordedOnce'
  <2>1. \A R, ops : Tally(<< f >>, R, ops) = IF r \in R /\ "record" \in ops THEN 1 ELSE 0
    BY <1>8, OneTally DEF Counts
  <2>2. /\ \A q \in Runs \ {r} : Records(q)' = Records(q)
        /\ Records(r)' = Records(r) + 1
    BY <1>1, <1>2, <1>9, <2>1, ClaimCounts
  <2>3. Records(r) = 0
    BY <1>2, UnsettledRecords
  <2>4. Records(r)' = 1
    BY <2>2, <2>3
  <2>5. recorded'[r] = << >>
    BY <1>2, <1>6 DEF JInv, SettlesCounted
  <2>6. ASSUME NEW q \in Runs \ {r}
        PROVE  /\ Records(q)' <= 1
               /\ recorded'[q] # << >> => /\ Records(q)' = 0 /\ status'[q] = control'[q].final
                                          /\ recorded'[q] = << control'[q].final >>
    BY <1>6, <1>7, <2>2 DEF KInv, RecordedOnce
  <2>7. Records(r)' <= 1
    BY <2>4
  <2> QED
    BY <2>5, <2>6, <2>7 DEF RecordedOnce
<1>14. StampsRecorded'
  BY <1>6 DEF KInv, StampsRecorded, Recorded
<1> QED
  BY <1>10, <1>11, <1>12, <1>13, <1>14 DEF KInv

\* The outcome is recorded.
LEMMA RecordOutcomes ==
    ASSUME IInv, JInv, KInv, NEW t \in Threads, Record(t)
    PROVE  KInv'
<1>1. ~Idle(t) /\ Top(t).op = "record" /\ stack \in Stacks
  BY StacksTyped DEF Record, At
<1>2. PICK r \in Runs : /\ r = Top(t).run /\ r \in table /\ control[r].settled
                        /\ Top(t).arg = control[r].final
  BY <1>1, TopProper, TopCall DEF Proper, IInv, TypeOK
<1>3. control[r].final \in Outcomes
  <2>1. Top(t) \in FrameSet
    BY <1>1, TopCall
  <2> QED
    BY <1>1, <1>2, <2>1 DEF FrameSet
<1>4. /\ status' = [status EXCEPT ![r] = control[r].final]
      /\ stamped' = IF r \in table /\ ~Stamped(r) THEN Append(stamped, r) ELSE stamped
      /\ recorded' = [recorded EXCEPT ![r] = Append(@, control[r].final)]
      /\ stack' = Continue(t, << >>)
      /\ UNCHANGED <<table, begun, control, pauseVars>>
  BY <1>2 DEF Record
<1>5. Moved(t, << >>, t, << >>) /\ << >> \in Seq(Given(t))
  BY <1>1, <1>4, NoneMore, ContinueMoves
<1>6. Held' /\ OneParent'
  <2>1. Firm /\ Registers
    BY <1>4 DEF Firm, Registers, pauseVars
  <2> QED
    BY <1>5, <2>1, HeldKept, OneParentKept DEF KInv
<1>7. StillOwned'
  <2>1. \A q \in Runs : (Armed(q)' <=> Armed(q)) /\ (Waiting(q)' <=> Waiting(q))
    BY <1>4 DEF Armed, Waiting, pauseVars
  <2>2. \A q \in Runs : Open(q)' => Open(q)
    BY <1>4 DEF Open
  <2>3. Handed({}, t, << >>, << >>)
    BY <1>1, <2>1, <2>2 DEF Handed, DriveOps
  <2> QED
    BY <1>5, <2>3, StillOwnedKept DEF KInv
<1>8. /\ Records(r) >= 1 /\ Records(r) <= 1 /\ recorded[r] = << >>
  <2>1. Records(r) >= 1 /\ Records(r) \in Nat
    BY <1>1, <1>2, TopOut, NumberNat DEF Records
  <2> QED
    BY <2>1 DEF KInv, RecordedOnce
<1>9. Records(r)' = 0 /\ \A q \in Runs \ {r} : Records(q)' = Records(q)
  <2>1. ASSUME NEW q
        PROVE  /\ Records(q) \in Nat
               /\ Records(q)' = ((Records(q) - Out(t, {q}, {"record"}))
                                    + Tally(<< >>, {q}, {"record"})) + Tally(<< >>, {q}, {"record"})
    BY <1>1, <1>5, MovedCounts DEF Records
  <2>2. \A q : Tally(<< >>, {q}, {"record"}) = 0
    BY EmptyTally
  <2>3. Out(t, {r}, {"record"}) = 1 /\ \A q \in Runs \ {r} : Out(t, {q}, {"record"}) = 0
    BY <1>1, <1>2 DEF Out, Counts
  <2>4. Records(r)' = 0
    <3>1. /\ Records(r) \in Nat
          /\ Records(r)' = ((Records(r) - 1) + 0) + 0
      BY <2>1, <2>2, <2>3
    <3> QED
      BY <1>8, <3>1
  <2>5. ASSUME NEW q \in Runs \ {r} PROVE Records(q)' = Records(q)
    <3>1. /\ Records(q) \in Nat
          /\ Records(q)' = ((Records(q) - 0) + 0) + 0
      BY <2>1, <2>2, <2>3
    <3> QED
      BY <3>1
  <2> QED
    BY <2>4, <2>5
<1>10. /\ recorded'[r] = << control[r].final >> /\ status'[r] = control[r].final
       /\ \A q \in Runs \ {r} : recorded'[q] = recorded[q] /\ status'[q] = status[q]
  <2>1. recorded \in [Runs -> Seq(Outcomes)] /\ status \in [Runs -> Statuses]
    BY DEF IInv, TypeOK
  <2>2. Append(<< >>, control[r].final) = << control[r].final >>
    OBVIOUS
  <2>3. recorded'[r] = Append(recorded[r], control[r].final)
    BY <1>4, <2>1
  <2>4. recorded'[r] = << control[r].final >>
    BY <1>8, <2>2, <2>3
  <2> QED
    BY <1>4, <2>1, <2>4
<1>11. RecordedOnce'
  <2>1. control'[r].final = control[r].final /\ Records(r)' <= 1
    BY <1>4, <1>9
  <2>2. ASSUME NEW q \in Runs \ {r}
        PROVE  /\ Records(q)' <= 1
               /\ recorded'[q] # << >> => /\ Records(q)' = 0 /\ status'[q] = control'[q].final
                                          /\ recorded'[q] = << control'[q].final >>
    BY <1>4, <1>9, <1>10 DEF KInv, RecordedOnce
  <2> QED
    BY <1>9, <1>10, <2>1, <2>2 DEF RecordedOnce
<1>12. StampsRecorded'
  <2>1. Recorded \subseteq Recorded' /\ r \in Recorded'
    <3>1. << control[r].final >> # << >>
      OBVIOUS
    <3> QED
      BY <1>10, <3>1 DEF Recorded
  <2>2. PICK D : D = Recorded'
    OBVIOUS
  <2>3. stamped \in Seq(D)
    <3>1. stamped \in Seq(Runs)
      BY DEF IInv, TypeOK
    <3>2. \A i \in 1..Len(stamped) : stamped[i] \in D
      BY <2>1, <2>2 DEF KInv, StampsRecorded
    <3> QED
      BY <3>1, <3>2
  <2>4. stamped' \in Seq(D)
    <3>1. Append(stamped, r) \in Seq(D)
      BY <2>1, <2>2, <2>3
    <3> QED
      BY <1>4, <2>3, <3>1
  <2>5. \A i \in 1..Len(stamped') : stamped'[i] \in D
    BY <2>4
  <2> QED
    BY <1>4, <2>1, <2>2, <2>5 DEF KInv, StampsRecorded
<1> QED
  BY <1>6, <1>7, <1>11, <1>12 DEF KInv

(***************************************************************************)
(* Evicting runs                                                           *)
(***************************************************************************)
LEMMA SweepOutcomes ==
    ASSUME IInv, JInv, KInv, Sweep, Spared
    PROVE  KInv'
<1>1. PICK i \in Evictable : /\ table' = table \ {stamped[i]}
                             /\ control' = [control EXCEPT ![stamped[i]].done = TRUE]
  BY DEF Sweep
<1>2. PICK r \in Runs : r = stamped[i] /\ r \in Recorded /\ r \in table /\ ~Pinned(r)
  BY <1>1 DEF Evictable, KInv, StampsRecorded, Recorded
<1>3. ~InUse(r)
  BY <1>1, <1>2 DEF Spared
<1>4. UNCHANGED <<begun, status, pauseVars, stack, endVars>> /\ table' = table \ {r}
  BY <1>1, <1>2 DEF Sweep
<1>5. \A q \in Runs : /\ control'[q].queued = control[q].queued
                      /\ control'[q].settled = control[q].settled
                      /\ control'[q].final = control[q].final
  BY <1>1, <1>2, MarksOutcome
<1>6. Held'
  <2> DEFINE P == Proper(table', control')
  <2>1. ASSUME NEW v \in Threads, NEW j \in 1..Len(stack[v]) PROVE stack[v][j] \in P
    <3>1. PICK f \in Proper(table, control) : f = stack[v][j]
      BY DEF KInv, Held
    <3>2. ~Mentions(f, r)
      BY <1>3, <3>1 DEF InUse
    <3>3. f \in P
      BY <1>4, <1>5, <3>2 DEF Proper, Mentions, FrameSet
    <3> QED
      BY <3>1, <3>3
  <2> HIDE DEF P
  <2>2. stack \in [Threads -> Seq(FrameSet)]
    BY DEF IInv, TypeOK
  <2>3. \A v \in Threads : stack[v] \in Seq(P)
    BY <2>1, <2>2
  <2>4. stack' \in [Threads -> Seq(P)]
    BY <1>4, <2>2, <2>3
  <2>5. \A w \in waiters' : w.child \in table' /\ w.parent \in table'
    BY <1>2, <1>4 DEF KInv, Held, Pinned, pauseVars
  <2> QED
    BY <2>4, <2>5 DEF Held, P
<1>7. StillOwned'
  <2>1. \A q : (Armed(q)' <=> Armed(q)) /\ (Waiting(q)' <=> Waiting(q)) /\ Drives(q)' = Drives(q)
    BY <1>4 DEF Armed, Waiting, pauseVars, Drives
  <2>2. \A q \in Runs : Open(q)' => Open(q)
    BY <1>4, <1>5 DEF Open
  <2> QED
    BY <2>1, <2>2 DEF KInv, StillOwned
<1>8. OneParent'
  <2>1. \A c, p : Awaits(c, p)' <=> Awaits(c, p)
    BY <1>4 DEF Awaits, Registered, pauseVars
  <2> QED
    BY <2>1 DEF KInv, OneParent
<1>9. RecordedOnce'
  <2>1. \A q : Records(q)' = Records(q)
    BY <1>4 DEF Records
  <2> QED
    BY <1>4, <1>5, <2>1 DEF KInv, RecordedOnce, endVars
<1>10. StampsRecorded'
  <2>1. Recorded' = Recorded /\ stamped' = stamped
    BY <1>4 DEF Recorded, endVars
  <2> QED
    BY <1>2, <1>4, <2>1 DEF KInv, StampsRecorded
<1> QED
  BY <1>6, <1>7, <1>8, <1>9, <1>10 DEF KInv

\* A step of Stop that abandons nobody.
LEMMA StandsStill ==
    ASSUME KInv, UNCHANGED <<runVars, pauseVars, stack, endVars>>
    PROVE  KInv'
<1>1. Held'
  BY DEF KInv, Held, Proper, runVars, pauseVars
<1>2. StillOwned'
  <2>1. \A q : /\ (Armed(q)' <=> Armed(q)) /\ (Waiting(q)' <=> Waiting(q))
               /\ Drives(q)' = Drives(q) /\ (Open(q)' <=> Open(q))
    BY DEF Armed, Waiting, pauseVars, Drives, Open, runVars
  <2> QED
    BY <2>1 DEF KInv, StillOwned
<1>3. OneParent'
  <2>1. \A c, p : Awaits(c, p)' <=> Awaits(c, p)
    BY DEF Awaits, Registered, pauseVars
  <2> QED
    BY <2>1 DEF KInv, OneParent
<1>4. RecordedOnce'
  <2>1. \A q : Records(q)' = Records(q)
    BY DEF Records
  <2> QED
    BY <2>1 DEF KInv, RecordedOnce, endVars, runVars
<1>5. StampsRecorded'
  BY DEF KInv, StampsRecorded, Recorded, endVars, runVars
<1> QED
  BY <1>1, <1>2, <1>3, <1>4, <1>5 DEF KInv

(***************************************************************************)
(* The theorems                                                            *)
(***************************************************************************)
LEMMA InitOutcomes == Init => KInv
<1> SUFFICES ASSUME Init PROVE KInv
  OBVIOUS
<1>1. /\ stack = [t \in Threads |-> << >>] /\ begun = {} /\ waiters = {} /\ stamped = << >>
      /\ \A r \in Runs : recorded[r] = << >>
  BY DEF Init
<1>2. Held
  <2>1. << >> \in Seq(Proper(table, control))
    OBVIOUS
  <2> QED
    BY <1>1, <2>1 DEF Held
<1>3. StillOwned
  BY <1>1 DEF StillOwned, Open
<1>4. OneParent
  <2>1. \A t \in Threads : Len(stack[t]) = 0
    BY <1>1
  <2>2. \A c, p : ~Awaits(c, p)
    BY <1>1, <2>1 DEF Awaits, Registered
  <2> QED
    BY <2>2 DEF OneParent
<1>5. RecordedOnce
  <2>1. stack \in Stacks /\ \A t \in Threads : Len(stack[t]) = 0
    BY <1>1 DEF Stacks, Calling
  <2>2. \A r \in Runs : Records(r) = 0
    BY <2>1, NumberNone DEF Records
  <2> QED
    BY <1>1, <2>2 DEF RecordedOnce
<1>6. StampsRecorded
  BY <1>1 DEF StampsRecorded
<1> QED
  BY <1>2, <1>3, <1>4, <1>5, <1>6 DEF KInv

LEMMA ThreadOutcomes ==
    ASSUME IInv, JInv, KInv, NEW t \in Threads, ThreadStep(t)
    PROVE  KInv'
<1>1. CASE Enqueue(t)
  BY <1>1, EnqueueOutcomes
<1>2. CASE TurnRefused(t)
  BY <1>2, TurnRefusedOutcomes
<1>3. CASE TurnSkipped(t) \/ TurnEnds(t) \/ Signal(t)
  BY <1>3, TurnOutcomes
<1>4. CASE TurnStarts(t)
  BY <1>4, TurnStartsOutcomes
<1>5. CASE \/ StopIfCancelled(t) \/ RunCompletes(t) \/ RunFails(t) \/ TaskSkipped(t)
           \/ ActionStarts(t) \/ ActionAbandoned(t)
  BY <1>5, TaskOutcomes
<1>6. CASE \/ WaitReached(t) \/ ArmRefused(t) \/ ResumeWaitStopped(t) \/ ResumeWait(t)
           \/ Reenter(t)
  BY <1>6, WaitOutcomes
<1>7. CASE ArmWait(t) \/ Register(t)
  BY <1>7, PauseOutcomes
<1>8. CASE SubWorkflowReached(t) \/ SubWorkflowDetached(t)
  BY <1>8, SubOutcomes
<1>9. CASE RegisterRefused(t) \/ AbandonParent(t) \/ ResumeParent(t)
  BY <1>9, ParentOutcomes
<1>10. CASE ReleaseNobody(t)
  BY <1>10, ReleaseNobodyOutcomes
<1>11. CASE Release(t)
  BY <1>11, ReleaseOutcomes
<1>12. CASE CancelChild(t)
  BY <1>12, CancelChildOutcomes
<1>13. CASE Abandon(t)
  BY <1>13, AbandonOutcomes
<1>14. CASE ClaimWait(t)
  BY <1>14, ClaimWaitOutcomes, ClaimNothingOutcomes
<1>15. CASE ClaimWaiter(t)
  BY <1>15, ClaimWaiterOutcomes, ClaimNothingOutcomes
<1>16. CASE Count(t)
  BY <1>16, CountOutcomes
<1>17. CASE Claim(t)
  BY <1>17, ClaimedOutcomes, ClaimOutcomes
<1>18. CASE Record(t)
  BY <1>18, RecordOutcomes
<1> QED
  BY <1>1, <1>2, <1>3, <1>4, <1>5, <1>6, <1>7, <1>8, <1>9, <1>10, <1>11, <1>12, <1>13, <1>14,
     <1>15, <1>16, <1>17, <1>18 DEF ThreadStep

LEMMA NextOutcomes == IInv /\ JInv /\ KInv /\ [Next]_vars /\ [Spared]_vars => KInv'
<1> SUFFICES ASSUME IInv, JInv, KInv, [Next]_vars, [Spared]_vars PROVE KInv'
  OBVIOUS
<1>1. ASSUME NEW t \in Threads, ThreadStep(t) PROVE KInv'
  BY <1>1, ThreadOutcomes
<1>2. CASE AbandonNext
  BY <1>2, AbandonNextOutcomes
<1>3. CASE StopCalled \/ ListPaused \/ Drain \/ ListUnsettled \/ StopDone \/ StopAgain
  <2>1. UNCHANGED <<runVars, pauseVars, stack, endVars>>
    BY <1>3 DEF StopCalled, ListPaused, Drain, ListUnsettled, StopDone, StopAgain
  <2> QED
    BY <2>1, StandsStill
<1>4. ASSUME NEW r \in TopLevel, Begin(r) PROVE KInv'
  BY <1>4, BeginOutcomes
<1>5. ASSUME NEW r \in Cancels, Cancel(r) PROVE KInv'
  BY <1>5, CancelOutcomes
<1>6. CASE OrderedEvent
  BY <1>6, OrderedOutcomes
<1>7. ASSUME NEW w \in armed, WaitEnds(w) PROVE KInv'
  BY <1>7, WaitEndsOutcomes
<1>8. ASSUME NEW t \in Threads, ActionReturns(t) PROVE KInv'
  BY <1>8, TaskOutcomes
<1>9. CASE Sweep
  <2>1. Spared
    BY DEF Spared, vars
  <2> QED
    BY <1>9, <2>1, SweepOutcomes
<1>10. CASE UNCHANGED vars
  <2>1. UNCHANGED <<runVars, pauseVars, stack, endVars>>
    BY <1>10 DEF vars, runVars, pauseVars, endVars
  <2> QED
    BY <2>1, StandsStill
<1> QED
  BY <1>1, <1>2, <1>3, <1>4, <1>5, <1>6, <1>7, <1>8, <1>9, <1>10 DEF Next, Environment, StopStep

\* KInv is an invariant of the engine as long as the sweep takes no run from under a
\* call: retention is minutes, and only a table over its cap evicts sooner.
THEOREM OutcomesInvariance == Spec /\ [][Spared]_vars => []KInv
<1>1. Spec => []IInv /\ []JInv /\ [][Next]_vars
  BY Invariance, OwnersInvariance, PTL DEF Spec
<1>2. KInv /\ []IInv /\ []JInv /\ [][Next]_vars /\ [][Spared]_vars => []KInv
  BY NextOutcomes, PTL
<1> QED
  BY <1>1, <1>2, InitOutcomes, PTL DEF Spec

\* The table holds no more settled runs than retention allows, so that the sweep
\* (evictSettled) goes by their age alone.
WithinCap == Cardinality({s \in table : Stamped(s)}) <= MaxSettledRuns

LEMMA SweepSpares == IInv /\ WithinCap /\ [Next]_vars => [Spared]_vars
<1> SUFFICES ASSUME IInv, WithinCap, Next, NEW r \in table \ table' PROVE ~InUse(r)
  BY DEF Spared
<1>1. ASSUME NEW t \in Threads, ThreadStep(t) PROVE table \subseteq table'
  <2>1. CASE Enqueue(t) \/ SubWorkflowReached(t) \/ SubWorkflowDetached(t)
    BY <2>1 DEF Enqueue, SubWorkflowReached, SubWorkflowDetached, StartChild, Put
  <2>2. CASE \/ TurnRefused(t) \/ TurnSkipped(t) \/ TurnStarts(t) \/ TurnEnds(t) \/ Signal(t)
             \/ StopIfCancelled(t) \/ RunCompletes(t) \/ RunFails(t) \/ TaskSkipped(t)
             \/ ActionStarts(t) \/ ActionAbandoned(t)
    BY <2>2 DEF TurnRefused, TurnSkipped, TurnStarts, TurnEnds, Signal, StopIfCancelled,
                RunCompletes, RunFails, TaskSkipped, ActionStarts, ActionAbandoned, runVars
  <2>3. CASE \/ WaitReached(t) \/ ArmRefused(t) \/ ArmWait(t) \/ ResumeWaitStopped(t)
             \/ ResumeWait(t) \/ Reenter(t) \/ RegisterRefused(t) \/ Register(t)
    BY <2>3 DEF WaitReached, ArmRefused, ArmWait, ResumeWaitStopped, ResumeWait, Reenter,
                RegisterRefused, Register, runVars
  <2>4. CASE \/ ReleaseNobody(t) \/ Release(t) \/ AbandonParent(t) \/ ResumeParent(t)
             \/ CancelChild(t) \/ Abandon(t) \/ ClaimWait(t) \/ ClaimWaiter(t)
             \/ Count(t) \/ Claim(t) \/ Record(t)
    BY <2>4 DEF ReleaseNobody, Release, AbandonParent, ResumeParent, CancelChild, Abandon,
                ClaimWait, ClaimWaiter, Count, Claim, Record, runVars
  <2> QED
    BY <1>1, <2>1, <2>2, <2>3, <2>4 DEF ThreadStep
<1>2. CASE StopStep
  BY <1>2 DEF StopStep, ListPaused, AbandonNext, Drain, ListUnsettled, StopDone, StopAgain,
              runVars
<1>3. CASE /\ Environment /\ ~Sweep
  <2>1. ASSUME NEW q \in TopLevel, Begin(q) PROVE table \subseteq table'
    BY <2>1 DEF Begin, Put
  <2>2. ASSUME NEW q \in Cancels, Cancel(q) PROVE table \subseteq table'
    BY <2>2 DEF Cancel
  <2>3. ASSUME NEW w \in armed, WaitEnds(w) PROVE table \subseteq table'
    BY <2>3 DEF WaitEnds, runVars
  <2>4. ASSUME NEW t \in Threads, ActionReturns(t) PROVE table \subseteq table'
    BY <2>4 DEF ActionReturns, runVars
  <2>5. CASE OrderedEvent \/ StopCalled
    BY <2>5 DEF OrderedEvent, StopCalled, runVars
  <2> QED
    BY <1>3, <2>1, <2>2, <2>3, <2>4, <2>5 DEF Environment
<1>4. CASE Sweep
  <2>1. Cardinality({s \in table : Stamped(s)}) \in Nat
    <3>1. {s \in table : Stamped(s)} \in SUBSET Runs
      BY DEF IInv, TypeOK
    <3> QED
      BY <3>1, RunsAssumption, FS_Subset, FS_CardinalityType
  <2>2. ~(Cardinality({s \in table : Stamped(s)}) > MaxSettledRuns)
    BY <2>1, RetentionAssumption DEF WithinCap
  <2>3. PICK i \in Evictable : ~InUse(stamped[i]) /\ table' = table \ {stamped[i]}
    BY <1>4, <2>2 DEF Sweep
  <2> QED
    BY <2>3
<1> QED
  BY <1>1, <1>2, <1>3, <1>4 DEF Next

\* "Whoever removes it owns the resume" (armWaitLocked): a run that is neither queued
\* nor settled always has exactly one owner, so none is left hanging by a resume, a
\* cancel or a release that found nobody (checkSubWorkflowCompletion).
THEOREM OwnerAlways == Spec /\ [][Spared]_vars => []SoleOwner
<1>1. IInv /\ JInv /\ KInv /\ AtMostOneOwner => SoleOwner
  <2> SUFFICES ASSUME IInv, JInv, KInv, AtMostOneOwner,
                      NEW r \in begun, ~control[r].settled, ~control[r].queued
               PROVE  Cardinality(Frames(r, DriveOps)) + Cardinality({w \in armed : w.run = r})
                        + Cardinality({w \in waiters : w.parent = r}) = 1
    BY DEF SoleOwner
  <2>1. Cardinality(Frames(r, DriveOps)) = Drives(r) /\ Drives(r) \in Nat
    BY FramesCounted, StacksTyped, NumberNat DEF Drives, Number
  <2>2. Cardinality({w \in armed : w.run = r}) = One(Armed(r))
    <3>1. PICK S : S = {w \in armed : w.run = r}
      OBVIOUS
    <3>2. \A x, y \in S : x = y
      BY <3>1 DEF JInv, PausedOnce
    <3>3. S # {} <=> Armed(r)
      BY <3>1 DEF Armed
    <3> QED
      BY <3>1, <3>2, <3>3, OneOrNone DEF One
  <2>3. Cardinality({w \in waiters : w.parent = r}) = One(Waiting(r))
    <3>1. PICK S : S = {w \in waiters : w.parent = r}
      OBVIOUS
    <3>2. \A x, y \in S : x = y
      BY <3>1 DEF JInv, PausedOnce
    <3>3. S # {} <=> Waiting(r)
      BY <3>1 DEF Waiting
    <3> QED
      BY <3>1, <3>2, <3>3, OneOrNone DEF One
  <2>4. Drives(r) # 0 \/ Armed(r) \/ Waiting(r)
    BY DEF KInv, StillOwned, Open, IInv, TypeOK
  <2>5. Drives(r) + One(Armed(r)) + One(Waiting(r)) <= 1
    BY DEF JInv, OwnedOnce, Owned, One
  <2>6. Drives(r) + One(Armed(r)) + One(Waiting(r)) = 1
    BY <2>1, <2>4, <2>5 DEF One
  <2> QED
    BY <2>1, <2>2, <2>3, <2>6
<1> QED
  BY <1>1, Invariance, OwnersInvariance, OneOwner, OutcomesInvariance, PTL

\* One outcome is announced and recorded, the one that was claimed, and the status is
\* that outcome from then on (setExecutionStatus), whatever was racing to end the run.
THEOREM OutcomesStand == Spec /\ [][Spared]_vars => []OutcomeStands
<1>1. JInv /\ KInv => OutcomeStands
  BY DEF JInv, SettlesCounted, KInv, RecordedOnce, OutcomeStands
<1> QED
  BY <1>1, OwnersInvariance, OutcomesInvariance, PTL

\* What the sweep (evictSettled) takes from the table has been recorded, and nobody is
\* registered on it or registered as it.
THEOREM EvictionsSafe == Spec /\ [][Spared]_vars => []EvictedUnused
<1>1. KInv => EvictedUnused
  BY DEF KInv, Held, StampsRecorded, Recorded, EvictedUnused
<1> QED
  BY <1>1, OutcomesInvariance, PTL

\* In particular an engine whose table never outgrows its retention keeps all three.
THEOREM WithinCapSuffices ==
    Spec /\ []WithinCap => []SoleOwner /\ []OutcomeStands /\ []EvictedUnused
<1>1. IInv /\ WithinCap /\ [Next]_vars => [Spared]_vars
  BY SweepSpares
<1>2. Spec => []IInv /\ [][Next]_vars
  BY Invariance, PTL DEF Spec
<1>3. []IInv /\ []WithinCap /\ [][Next]_vars => [][Spared]_vars
  BY <1>1, PTL
<1> QED
  BY <1>2, <1>3, OwnerAlways, OutcomesStand, EvictionsSafe, PTL
=============================================================================
