------------------------------ MODULE RunHistory ------------------------------
(* Run history: what the engine reports of a run (RunStarted, StepSettled,     *)
(* RunSettled), the bounded queue and the single writer of                     *)
(* workflow/async_run_recorder.go, the rows db-proxy keeps for them            *)
(* (db/app/services/workflow_service.go), and the api's settling of a row the  *)
(* engine no longer knows (api/src/routes/workflows-execution.ts).             *)
(*                                                                             *)
(* A request to db-proxy is in flight until db-proxy handles it or it is lost, *)
(* and the writer may stop waiting for it before either.                       *)
EXTENDS Integers, Sequences, FiniteSets

CONSTANTS
    Runs,          \* the runs the history keeps (not ephemeral, not fired by hand)
    Ordered,       \* those that begin queued behind others of their event
    Cancels,       \* bound: the runs a caller asks the api to cancel
    Reached,       \* bound: the outcomes the engine's runs come to
    QueueSize,     \* recorderConfig.QueueSize
    MaxRestarts    \* bound: how often the workflow process is replaced

Outcomes == {"completed", "failed", "cancelled"}

ASSUME HistoryAssumption ==
    /\ IsFiniteSet(Runs) /\ Ordered \subseteq Runs /\ Cancels \subseteq Runs
    /\ Reached \subseteq Outcomes
    /\ QueueSize \in Nat \ {0} /\ MaxRestarts \in Nat

\* What is captured of a run: its row, one step, its outcome.  The api's own
\* change of a row travels to db-proxy as a request too.
Kinds    == {"row", "step", "outcome"}
Writes   == [run : Runs, kind : Kinds]
Requests == [run : Runs, kind : Kinds \cup {"cancel"}]
Write(k, r) == [run |-> r, kind |-> k]

Idle == [run |-> "none", kind |-> "none"]   \* the writer waits for no request

VARIABLES
    known,     \* runs the engine's table holds
    begun,     \* every run ever put there
    decided,   \* the status RunSettled captured
    sending,   \* writes whose enqueue holds the read lock of r.mu
    reported,  \* writes whose enqueue has returned
    queue,     \* r.queue
    closed,    \* r.closed
    ended,     \* r.ctx is done
    writer,    \* the request run() waits for
    abandoned, \* run()'s count of writes it did not send
    dropped,   \* r.dropped
    phase,     \* the recorder: new, open, draining, cut, exited, stopped
    flight,    \* requests db-proxy has yet to handle
    row,       \* workflow_executions: the status of each run's row, or absent
    steps,     \* workflow_execution_steps: the runs with a step row
    asked,     \* where the api is with a cancel of each run
    answer,    \* what the api told the caller: the row's status, or none
    before,    \* history: writes reported to an earlier process
    sent,      \* history: writes ever sent to db-proxy
    lost,      \* history: writes dropped, abandoned, lost or given up on
    restarts   \* how often the process has been replaced

engineVars   == <<known, begun, decided>>
recorderVars == <<sending, reported, queue, closed, ended, writer, abandoned, dropped, phase>>
dbVars       == <<flight, row, steps>>
apiVars      == <<asked, answer>>
historyVars  == <<before, sent, lost, restarts>>
vars == <<engineVars, recorderVars, dbVars, apiVars, historyVars>>

Init ==
    /\ known = {} /\ begun = {} /\ decided = [r \in Runs |-> "none"]
    /\ sending = {} /\ reported = {} /\ queue = << >>
    /\ closed = FALSE /\ ended = FALSE /\ writer = Idle
    /\ abandoned = 0 /\ dropped = 0 /\ phase = "new"
    /\ flight = {} /\ row = [r \in Runs |-> "absent"] /\ steps = {}
    /\ asked = [r \in Runs |-> "no"] /\ answer = [r \in Runs |-> "none"]
    /\ before = {} /\ sent = {} /\ lost = {} /\ restarts = 0

Called(w) == w \in sending \cup reported

(***************************************************************************)
(* The engine's reports                                                    *)
(***************************************************************************)
\* beginRun puts the run in the table, and only then reports its row.
Begin(r) ==
    /\ r \notin begun /\ phase # "new"
    /\ known' = known \cup {r} /\ begun' = begun \cup {r}
    /\ UNCHANGED <<decided, recorderVars, dbVars, apiVars, historyVars>>

\* Mutant: the run's goroutine starts before its row is reported.
ReportsUnordered(w, s) == w.run \in known /\ ~Called(w)

\* A run's goroutine starts when its row has been reported, and reports its
\* step and then its outcome.  A run still queued has no goroutine: whoever
\* cancels it, or Stop, settles it at any time after it is in the table.
Reports(w, s) ==
    /\ w.run \in known /\ ~Called(w)
    /\ CASE w.kind = "row"     -> TRUE
         [] w.kind = "step"    -> /\ Write("row", w.run) \in reported
                                  /\ ~Called(Write("outcome", w.run))
         [] w.kind = "outcome" -> \/ /\ Write("row", w.run) \in reported
                                     /\ Write("step", w.run) \notin sending
                                  \/ /\ w.run \in Ordered /\ s # "completed"
                                     /\ ~Called(Write("step", w.run))

\* The outcome captured now is the one written, whatever the run does later.
Capture(w, s) ==
    decided' = IF w.kind = "outcome" THEN [decided EXCEPT ![w.run] = s] ELSE decided

(***************************************************************************)
(* asyncRunRecorder                                                        *)
(***************************************************************************)
Start ==
    /\ phase = "new" /\ ~closed
    /\ phase' = "open"
    /\ UNCHANGED <<engineVars, sending, reported, queue, closed, ended, writer,
                   abandoned, dropped, dbVars, apiVars, historyVars>>

Drop(w) ==
    /\ dropped' = dropped + 1
    /\ reported' = reported \cup {w}
    /\ lost' = lost \cup {w}

\* enqueue takes the read lock and sees that the recorder is closed.
EnqueueClosed(w, s) ==
    /\ Reports(w, s) /\ closed
    /\ Capture(w, s) /\ Drop(w)
    /\ UNCHANGED <<known, begun, sending, queue, closed, ended, writer, abandoned,
                   phase, dbVars, apiVars, before, sent, restarts>>

\* enqueue takes the read lock and sees that the recorder is open.
Enqueue(w, s) ==
    /\ Reports(w, s) /\ ~closed
    /\ Capture(w, s)
    /\ sending' = sending \cup {w}
    /\ UNCHANGED <<known, begun, reported, queue, closed, ended, writer, abandoned,
                   dropped, phase, dbVars, apiVars, historyVars>>

\* Mutant: a queue without a limit.
PushUnbounded(w) ==
    /\ w \in sending
    /\ queue' = Append(queue, w)
    /\ sending' = sending \ {w} /\ reported' = reported \cup {w}
    /\ UNCHANGED <<engineVars, closed, ended, writer, abandoned, dropped, phase,
                   dbVars, apiVars, historyVars>>

\* Mutant: a full queue is waited for until the recorder has stopped.
PushFullWaits(w) ==
    /\ w \in sending /\ Len(queue) = QueueSize /\ phase = "stopped"
    /\ Drop(w)
    /\ sending' = sending \ {w}
    /\ UNCHANGED <<engineVars, queue, closed, ended, writer, abandoned, phase,
                   dbVars, apiVars, before, sent, restarts>>

\* Still under the lock: the write fits, or is dropped.  Neither waits.
Push(w) ==
    /\ w \in sending /\ Len(queue) < QueueSize
    /\ queue' = Append(queue, w)
    /\ sending' = sending \ {w} /\ reported' = reported \cup {w}
    /\ UNCHANGED <<engineVars, closed, ended, writer, abandoned, dropped, phase,
                   dbVars, apiVars, historyVars>>

PushFull(w) ==
    /\ w \in sending /\ Len(queue) = QueueSize
    /\ Drop(w)
    /\ sending' = sending \ {w}
    /\ UNCHANGED <<engineVars, queue, closed, ended, writer, abandoned, phase,
                   dbVars, apiVars, before, sent, restarts>>

Running == phase \in {"open", "draining", "cut"}

\* run() receives the next write and sends its request ...
Send ==
    /\ Running /\ writer = Idle /\ queue # << >> /\ ~ended
    /\ writer' = Head(queue) /\ queue' = Tail(queue)
    /\ flight' = flight \cup {Head(queue)} /\ sent' = sent \cup {Head(queue)}
    /\ UNCHANGED <<engineVars, sending, reported, closed, ended, abandoned, dropped,
                   phase, row, steps, apiVars, before, lost, restarts>>

\* ... or only counts it, once Stop has ended the writer's context.
Skip ==
    /\ Running /\ writer = Idle /\ queue # << >> /\ ended
    /\ abandoned' = abandoned + 1 /\ queue' = Tail(queue)
    /\ lost' = lost \cup {Head(queue)}
    /\ UNCHANGED <<engineVars, sending, reported, closed, ended, writer, dropped,
                   phase, dbVars, apiVars, before, sent, restarts>>

\* The call returns: db-proxy answered or refused, callTimeout passed, or the
\* context ended.  A request still in flight then is on its own.
SendReturns ==
    /\ writer # Idle
    /\ writer' = Idle
    /\ lost' = IF writer \in flight THEN lost \cup {writer} ELSE lost
    /\ UNCHANGED <<engineVars, sending, reported, queue, closed, ended, abandoned,
                   dropped, phase, dbVars, apiVars, before, sent, restarts>>

\* Mutant: what was abandoned is logged and not counted.
ExitUncounted ==
    /\ Running /\ closed /\ queue = << >> /\ writer = Idle
    /\ abandoned' = 0 /\ phase' = "exited"
    /\ UNCHANGED <<engineVars, sending, reported, queue, closed, ended, writer,
                   dropped, dbVars, apiVars, historyVars>>

\* Mutant: the writer exits when the queue is closed, whatever it holds.
ExitAtOnce ==
    /\ Running /\ closed /\ writer = Idle
    /\ dropped' = dropped + abandoned
    /\ abandoned' = 0 /\ phase' = "exited"
    /\ UNCHANGED <<engineVars, sending, reported, queue, closed, ended, writer,
                   dbVars, apiVars, historyVars>>

\* The queue is closed and empty: run() adds what it abandoned and exits.
Exit ==
    /\ Running /\ closed /\ queue = << >> /\ writer = Idle
    /\ dropped' = dropped + abandoned
    /\ abandoned' = 0 /\ phase' = "exited"
    /\ UNCHANGED <<engineVars, sending, reported, queue, closed, ended, writer,
                   dbVars, apiVars, historyVars>>

\* Mutant: Stop closes the queue without taking the lock.
StopClosesUnlocked ==
    /\ phase = "open"
    /\ closed' = TRUE /\ phase' = "draining"
    /\ UNCHANGED <<engineVars, sending, reported, queue, ended, writer, abandoned,
                   dropped, dbVars, apiVars, historyVars>>

\* Mutant: Stop waits for the writer without closing the queue.
StopForgetsClose ==
    /\ phase = "open" /\ sending = {}
    /\ phase' = "draining"
    /\ UNCHANGED <<engineVars, sending, reported, queue, closed, ended, writer,
                   abandoned, dropped, dbVars, apiVars, historyVars>>

\* Stop takes the write lock, which nobody sending holds, and closes the queue.
StopCloses ==
    /\ phase = "open" /\ sending = {}
    /\ closed' = TRUE /\ phase' = "draining"
    /\ UNCHANGED <<engineVars, sending, reported, queue, ended, writer, abandoned,
                   dropped, dbVars, apiVars, historyVars>>

StopUnstarted ==
    /\ phase = "new" /\ ~closed
    /\ closed' = TRUE /\ ended' = TRUE
    /\ UNCHANGED <<engineVars, sending, reported, queue, writer, abandoned, dropped,
                   phase, dbVars, apiVars, historyVars>>

\* The drain's time is up while the writer still runs.
DrainExpires ==
    /\ phase = "draining"
    /\ ended' = TRUE /\ phase' = "cut"
    /\ UNCHANGED <<engineVars, sending, reported, queue, closed, writer, abandoned,
                   dropped, dbVars, apiVars, historyVars>>

\* The writer is done, and Stop returns.
StopReturns ==
    /\ phase = "exited"
    /\ ended' = TRUE /\ phase' = "stopped"
    /\ UNCHANGED <<engineVars, sending, reported, queue, closed, writer, abandoned,
                   dropped, dbVars, apiVars, historyVars>>

\* The sweep evicts a run that settled minutes ago: its reports have returned.
Evict(r) ==
    /\ r \in known
    /\ Write("outcome", r) \in reported /\ Write("row", r) \in reported
    /\ Write("step", r) \notin sending
    /\ known' = known \ {r}
    /\ UNCHANGED <<begun, decided, recorderVars, dbVars, apiVars, historyVars>>

\* The process is replaced: what it held in memory is gone, its requests are not.
Restart ==
    /\ restarts < MaxRestarts /\ phase # "new"
    /\ restarts' = restarts + 1
    /\ before' = before \cup reported \cup sending
    /\ lost' = lost \cup sending \cup {queue[i] : i \in 1..Len(queue)}
                 \cup ({writer} \cap flight)
    /\ reported' = reported \cup sending
    /\ known' = {} /\ sending' = {} /\ queue' = << >> /\ writer' = Idle
    /\ closed' = FALSE /\ ended' = FALSE /\ abandoned' = 0 /\ dropped' = 0
    /\ phase' = "new"
    /\ UNCHANGED <<begun, decided, dbVars, apiVars, sent>>

(***************************************************************************)
(* db-proxy                                                                *)
(***************************************************************************)
Settled(r) == row[r] \in Outcomes

\* Mutant: the update has no condition on the row's status.
UpdateStatusAlways(r, s) ==
    row' = IF row[r] # "absent" THEN [row EXCEPT ![r] = s] ELSE row

\* UpdateWorkflowRunStatus: one conditional statement, so a settled row stays.
UpdateStatus(r, s) ==
    row' = IF row[r] = "running" THEN [row EXCEPT ![r] = s] ELSE row

Arrives(w) == w \in flight /\ flight' = flight \ {w}

\* A row inserted twice is refused by the primary key.
RecordWorkflowRun(w) ==
    /\ Arrives(w) /\ w.kind = "row"
    /\ row' = IF row[w.run] = "absent" THEN [row EXCEPT ![w.run] = "running"] ELSE row
    /\ UNCHANGED <<engineVars, recorderVars, steps, apiVars, historyVars>>

\* A step without its run's row is refused by the foreign key.
RecordWorkflowRunStep(w) ==
    /\ Arrives(w) /\ w.kind = "step"
    /\ steps' = IF row[w.run] # "absent" THEN steps \cup {w.run} ELSE steps
    /\ UNCHANGED <<engineVars, recorderVars, row, apiVars, historyVars>>

UpdateWorkflowRunStatus(w) ==
    /\ Arrives(w) /\ w.kind \in {"outcome", "cancel"}
    /\ UpdateStatus(w.run, IF w.kind = "outcome" THEN decided[w.run] ELSE "cancelled")
    /\ UNCHANGED <<engineVars, recorderVars, steps, apiVars, historyVars>>

\* A request never arrives, or db-proxy fails it.
Fail(w) ==
    /\ w \in flight
    /\ flight' = flight \ {w} /\ lost' = lost \cup {w}
    /\ UNCHANGED <<engineVars, recorderVars, row, steps, apiVars, before, sent, restarts>>

(***************************************************************************)
(* The api's cancelWorkflow, when the engine answers not_found             *)
(***************************************************************************)
\* The engine was asked, and does not know the run: it was evicted, or an
\* earlier process had it.
CancelAsked(r) ==
    /\ r \in Cancels /\ asked[r] = "no"
    /\ r \in begun \ known
    /\ asked' = [asked EXCEPT ![r] = "unknown"]
    /\ UNCHANGED <<engineVars, recorderVars, dbVars, answer, historyVars>>

Answer(r, s) ==
    /\ asked' = [asked EXCEPT ![r] = "answered"]
    /\ answer' = [answer EXCEPT ![r] = s]

\* cancelRecordedRun reads the row: a settled one is the answer; if there is
\* none, or it cannot be read, the caller gets an error.
ReadRow(r) ==
    /\ asked[r] = "unknown"
    /\ \/ Answer(r, "none")
       \/ Settled(r) /\ Answer(r, row[r])
       \/ /\ row[r] = "running"
          /\ asked' = [asked EXCEPT ![r] = "read"] /\ UNCHANGED answer
    /\ UNCHANGED <<engineVars, recorderVars, dbVars, historyVars>>

\* Mutant: an update that changed no row is taken for a success.
CancelRowBlind(r) ==
    /\ asked[r] = "read"
    /\ UpdateStatus(r, "cancelled")
    /\ Answer(r, "cancelled")
    /\ UNCHANGED <<engineVars, recorderVars, flight, steps, historyVars>>

\* The row is settled as cancelled, unless it has settled since it was read.
CancelRow(r) ==
    /\ asked[r] = "read"
    /\ UpdateStatus(r, "cancelled")
    /\ IF row[r] \in {"running", "cancelled"}
       THEN Answer(r, "cancelled")
       ELSE asked' = [asked EXCEPT ![r] = "refused"] /\ UNCHANGED answer
    /\ UNCHANGED <<engineVars, recorderVars, flight, steps, historyVars>>

\* The update fails as far as the api can tell: it may still be handled.
CancelRowFails(r) ==
    /\ asked[r] = "read"
    /\ asked' = [asked EXCEPT ![r] = "refused"]
    /\ flight' = flight \cup {Write("cancel", r)}
    /\ UNCHANGED <<engineVars, recorderVars, row, steps, answer, historyVars>>

\* The row now says how it settled, or the api passes the error on.
ReadRowAgain(r) ==
    /\ asked[r] = "refused"
    /\ \/ Answer(r, "none")
       \/ Settled(r) /\ Answer(r, row[r])
    /\ UNCHANGED <<engineVars, recorderVars, dbVars, historyVars>>

(***************************************************************************)
Engine ==
    \/ \E r \in Runs : Begin(r) \/ Evict(r)
    \/ \E w \in Writes, s \in Reached : Enqueue(w, s) \/ EnqueueClosed(w, s)

Caller == \E w \in Writes : Push(w) \/ PushFull(w)
WriterStep == Send \/ Skip \/ SendReturns \/ Exit
StopStep == StopCloses \/ StopUnstarted \/ DrainExpires \/ StopReturns
Database == \E w \in Requests :
    RecordWorkflowRun(w) \/ RecordWorkflowRunStep(w) \/ UpdateWorkflowRunStatus(w) \/ Fail(w)
ApiStep(r) == CancelAsked(r) \/ ReadRow(r) \/ CancelRow(r) \/ CancelRowFails(r) \/ ReadRowAgain(r)

Next ==
    \/ Start \/ Engine \/ Caller \/ WriterStep \/ StopStep \/ Restart
    \/ Database \/ \E r \in Runs : ApiStep(r)

Spec == Init /\ [][Next]_vars

\* Goroutines are scheduled, every call of the writer is bounded by callTimeout,
\* the drain by its context, and a request is handled or lost.
Fairness ==
    /\ \A w \in Writes : WF_vars(Push(w) \/ PushFull(w))
    /\ WF_vars(WriterStep) /\ WF_vars(DrainExpires) /\ WF_vars(StopReturns)
    /\ WF_vars(Database)

FairSpec == Spec /\ Fairness

(***************************************************************************)
(* Properties                                                              *)
(***************************************************************************)
TypeOK ==
    /\ known \subseteq begun /\ begun \subseteq Runs
    /\ decided \in [Runs -> Outcomes \cup {"none"}]
    /\ sending \subseteq Writes /\ reported \subseteq Writes
    /\ queue \in Seq(Writes) /\ Len(queue) <= QueueSize
    /\ closed \in BOOLEAN /\ ended \in BOOLEAN
    /\ writer \in Writes \cup {Idle}
    /\ abandoned \in Nat /\ dropped \in Nat
    /\ phase \in {"new", "open", "draining", "cut", "exited", "stopped"}
    /\ flight \subseteq Requests
    /\ row \in [Runs -> Outcomes \cup {"absent", "running"}] /\ steps \subseteq Runs
    /\ asked \in [Runs -> {"no", "unknown", "read", "refused", "answered"}]
    /\ answer \in [Runs -> Outcomes \cup {"none"}]
    /\ before \subseteq Writes /\ sent \subseteq Writes /\ lost \subseteq Requests
    /\ restarts \in 0..MaxRestarts

\* Nobody sends on a closed channel, which would panic the engine's goroutine:
\* Stop closes the queue under the write lock, enqueue sends under the read lock.
SendsOnlyOpen == sending # {} => ~closed

\* Whatever the engine reported was sent to db-proxy or is counted as dropped
\* by the time Stop has returned: the queue's limit, a closed recorder and a
\* drain cut short are all in Dropped().
Accounted ==
    phase = "stopped" => dropped = Cardinality((reported \ before) \ sent)

\* "One background writer sends the queue to db-proxy in order, so a run's row
\* always arrives before its steps and its outcome" (execution.md): they are
\* sent after it, unless its own write was given up on.
RowArrivesFirst ==
    \A r \in Runs, k \in {"step", "outcome"} :
        Write(k, r) \in sent => Write("row", r) \in sent \cup lost

\* A terminal status is final: neither a request db-proxy handles late, nor the
\* api's cancel of a run whose outcome is still on its way, moves a settled row.
OutcomeFinal == [][\A r \in Runs : Settled(r) => row'[r] = row[r]]_vars

\* What the api told the caller of a cancel is what the history says, although
\* the row may have settled between the api's read and its update.
AnswerTruthful == \A r \in Runs : answer[r] # "none" => row[r] = answer[r]

\* A run whose outcome was reported ends settled in the history, unless one of
\* its writes was dropped, failed, or not waited for.
HistorySettles ==
    \A r \in Runs : Write("outcome", r) \in reported
        ~> (Settled(r) \/ \E k \in Kinds : Write(k, r) \in lost)

\* Stop returns, whatever db-proxy does.
StopEnds == (phase = "draining") ~> (phase \in {"stopped", "new"})

\* "Writing never holds up a run": a report that holds the lock can go on at
\* once, wherever the writer and db-proxy are.
NeverHeld == \A w \in sending : ENABLED (Push(w) \/ PushFull(w))
===============================================================================
