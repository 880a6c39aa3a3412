--------------------------- MODULE RunHistoryProofs ---------------------------
(* What holds of the run history for every set of runs, every size of the     *)
(* queue and any number of restarts.                                           *)
EXTENDS RunHistory, FiniteSetTheorems, TLAPS

(***************************************************************************)
(* The inductive invariant                                                 *)
(***************************************************************************)
\* What was sent was reported, and what is in flight was sent.
Flow == sent \subseteq reported /\ flight \cap Writes \subseteq sent

\* An outcome on its way has a status.
Captured ==
    \A r \in Runs : Called(Write("outcome", r)) => decided[r] \in Outcomes

\* Only an open recorder is sent to, and only a running one holds anything.
Phases ==
    /\ SendsOnlyOpen
    /\ phase = "new" => known = {} /\ sending = {}
    /\ phase \in {"draining", "cut", "exited", "stopped"} => closed
    /\ phase \in {"exited", "stopped"} => queue = << >> /\ abandoned = 0

\* Reported to this process and not sent.
Unsent == (reported \ before) \ sent

\* What is not sent is in the queue, once, or counted.
Ledger ==
    /\ IsFiniteSet(sending) /\ IsFiniteSet(reported)
    /\ sending \cap reported = {} /\ before \subseteq reported
    /\ \A i \in 1..Len(queue) : queue[i] \in Unsent
    /\ \A i, j \in 1..Len(queue) : queue[i] = queue[j] => i = j
    /\ Cardinality(Unsent) = dropped + abandoned + Len(queue)

IInv == TypeOK /\ Flow /\ Captured /\ Phases /\ Ledger /\ AnswerTruthful

\* When every run's row is reported before its goroutine starts: a step or an
\* outcome is reported behind its run's row, what was reported was shipped or is
\* in the queue, and a step or an outcome is shipped behind its run's row.
RowOf(w) == Write("row", w.run)
Shipped == sent \cup lost
Ahead(i, w) == \E j \in 1..(i - 1) : queue[j] = w
RowReported == \A w \in sending \cup reported :
                 w.kind # "row" => RowOf(w) \in reported
Placed      == \A w \in reported : w \in Shipped \/ Ahead(Len(queue) + 1, w)
QueueOrder  == \A i \in 1..Len(queue) :
                 queue[i].kind # "row" =>
                    RowOf(queue[i]) \in Shipped \/ Ahead(i, RowOf(queue[i]))
RowShipped  == \A w \in sent : w.kind # "row" => RowOf(w) \in Shipped

OrderInv == RowReported /\ Placed /\ QueueOrder /\ RowShipped

(***************************************************************************)
(* Writes and queues                                                       *)
(***************************************************************************)
\* Every captured write is one, and every request that is not the api's is one.
LEMMA WriteTypes ==
    /\ \A k \in Kinds, r \in Runs : Write(k, r) \in Writes
    /\ \A r \in Runs : Write("cancel", r) \in Requests \ Writes
    /\ Writes \subseteq Requests
    /\ \A w \in Requests : w.run \in Runs /\ w.kind \in Kinds \cup {"cancel"}
    /\ \A w \in Requests : w.kind \in Kinds => w \in Writes /\ w = Write(w.kind, w.run)
BY DEF Write, Writes, Requests, Kinds

\* The first of a queue is a write, and what is behind it is a queue.
LEMMA QueueTypes ==
    ASSUME NEW S, NEW q \in Seq(S), q # << >>
    PROVE  /\ Head(q) \in S /\ Head(q) = q[1] /\ 1 \in 1..Len(q)
           /\ Tail(q) \in Seq(S) /\ Len(Tail(q)) = Len(q) - 1 /\ Len(q) \in Nat \ {0}
           /\ \A i \in 1..Len(Tail(q)) : i + 1 \in 1..Len(q) /\ Tail(q)[i] = q[i + 1]
OBVIOUS

\* What is appended comes last, and what was there stays where it was.
LEMMA AppendTypes ==
    ASSUME NEW S, NEW q \in Seq(S), NEW e \in S
    PROVE  /\ Append(q, e) \in Seq(S) /\ Len(Append(q, e)) = Len(q) + 1 /\ Len(q) \in Nat
           /\ Append(q, e)[Len(q) + 1] = e
           /\ \A i \in 1..Len(q) : Append(q, e)[i] = q[i]
OBVIOUS

(***************************************************************************)
(* The steps                                                               *)
(***************************************************************************)
\* A step keeps the shape of the state.
LEMMA TypeStep ==
    ASSUME TypeOK, Flow, Captured, [Next]_vars
    PROVE  TypeOK'
<1>. USE HistoryAssumption, WriteTypes DEF TypeOK, vars, engineVars, recorderVars,
  dbVars, apiVars, historyVars
<1>1. CASE UNCHANGED vars
  BY <1>1
<1>2. CASE Start
  BY <1>2 DEF Start
<1>3. ASSUME NEW r \in Runs, Begin(r) PROVE TypeOK'
  BY <1>3 DEF Begin
<1>4. ASSUME NEW r \in Runs, Evict(r) PROVE TypeOK'
  BY <1>4 DEF Evict
<1>5. ASSUME NEW w \in Writes, NEW s \in Reached, Enqueue(w, s) PROVE TypeOK'
  BY <1>5 DEF Enqueue, Reports, Capture
<1>6. ASSUME NEW w \in Writes, NEW s \in Reached, EnqueueClosed(w, s) PROVE TypeOK'
  BY <1>6 DEF EnqueueClosed, Reports, Capture, Drop
<1>7. ASSUME NEW w \in Writes, Push(w) PROVE TypeOK'
  BY <1>7 DEF Push
<1>8. ASSUME NEW w \in Writes, PushFull(w) PROVE TypeOK'
  BY <1>8 DEF PushFull, Drop
<1>9. CASE Send
  BY <1>9, QueueTypes DEF Send
<1>10. CASE Skip
  BY <1>10, QueueTypes DEF Skip
<1>11. CASE SendReturns
  BY <1>11 DEF SendReturns
<1>12. CASE Exit
  BY <1>12 DEF Exit
<1>13. CASE StopCloses
  BY <1>13 DEF StopCloses
<1>14. CASE StopUnstarted
  BY <1>14 DEF StopUnstarted
<1>15. CASE DrainExpires
  BY <1>15 DEF DrainExpires
<1>16. CASE StopReturns
  BY <1>16 DEF StopReturns
<1>17. CASE Restart
  <2>1. {queue[i] : i \in 1..Len(queue)} \subseteq Writes
    OBVIOUS
  <2>2. lost' \subseteq Requests
    BY <1>17, <2>1 DEF Restart
  <2>3. queue' \in Seq(Writes) /\ Len(queue') <= QueueSize
    BY <1>17 DEF Restart
  <2>4. restarts' \in 0..MaxRestarts
    BY <1>17 DEF Restart
  <2>. QED
    BY <1>17, <2>2, <2>3, <2>4 DEF Restart
<1>18. ASSUME NEW w \in Requests, RecordWorkflowRun(w) PROVE TypeOK'
  BY <1>18 DEF RecordWorkflowRun, Arrives
<1>19. ASSUME NEW w \in Requests, RecordWorkflowRunStep(w) PROVE TypeOK'
  BY <1>19 DEF RecordWorkflowRunStep, Arrives
<1>20. ASSUME NEW w \in Requests, UpdateWorkflowRunStatus(w) PROVE TypeOK'
  BY <1>20 DEF UpdateWorkflowRunStatus, Arrives, UpdateStatus, Captured, Called, Flow,
    Outcomes
<1>21. ASSUME NEW w \in Requests, Fail(w) PROVE TypeOK'
  BY <1>21 DEF Fail
<1>22. ASSUME NEW r \in Runs, CancelAsked(r) PROVE TypeOK'
  BY <1>22 DEF CancelAsked
<1>23. ASSUME NEW r \in Runs, ReadRow(r) PROVE TypeOK'
  BY <1>23 DEF ReadRow, Answer, Settled
<1>24. ASSUME NEW r \in Runs, CancelRow(r) PROVE TypeOK'
  BY <1>24 DEF CancelRow, Answer, UpdateStatus, Outcomes
<1>25. ASSUME NEW r \in Runs, CancelRowFails(r) PROVE TypeOK'
  BY <1>25 DEF CancelRowFails
<1>26. ASSUME NEW r \in Runs, ReadRowAgain(r) PROVE TypeOK'
  <2>1. \A x \in Outcomes \cup {"none"} :
           [answer EXCEPT ![r] = x] \in [Runs -> Outcomes \cup {"none"}]
    OBVIOUS
  <2>2. Settled(r) => row[r] \in Outcomes
    BY DEF Settled
  <2>3. answer' \in [Runs -> Outcomes \cup {"none"}]
    BY <1>26, <2>1, <2>2 DEF ReadRowAgain, Answer
  <2>4. asked' \in [Runs -> {"no", "unknown", "read", "refused", "answered"}]
    BY <1>26 DEF ReadRowAgain, Answer
  <2>. QED
    BY <1>26, <2>3, <2>4 DEF ReadRowAgain
<1>27. Engine \/ Caller => TypeOK'
  BY <1>3, <1>4, <1>5, <1>6, <1>7, <1>8 DEF Engine, Caller
<1>28. WriterStep \/ StopStep => TypeOK'
  BY <1>9, <1>10, <1>11, <1>12, <1>13, <1>14, <1>15, <1>16 DEF WriterStep, StopStep
<1>29. Database => TypeOK'
  BY <1>18, <1>19, <1>20, <1>21 DEF Database
<1>30. (\E r \in Runs : ApiStep(r)) => TypeOK'
  BY <1>22, <1>23, <1>24, <1>25, <1>26 DEF ApiStep
<1> HIDE DEF TypeOK, vars
<1>. QED
  BY <1>1, <1>2, <1>17, <1>27, <1>28, <1>29, <1>30 DEF Next

\* What is sent was reported: a write leaves the queue for db-proxy.
LEMMA FlowStep ==
    ASSUME TypeOK, Flow, Ledger, [Next]_vars
    PROVE  Flow'
<1>. USE DEF Flow, vars, engineVars, recorderVars, dbVars, apiVars, historyVars
<1>1. CASE UNCHANGED <<sent, reported, flight>>
  BY <1>1
<1>2. ASSUME NEW w \in Writes, NEW s \in Reached, EnqueueClosed(w, s) PROVE Flow'
  BY <1>2 DEF EnqueueClosed, Drop
<1>3. ASSUME NEW w \in Writes, Push(w) PROVE Flow'
  BY <1>3 DEF Push
<1>4. ASSUME NEW w \in Writes, PushFull(w) PROVE Flow'
  BY <1>4 DEF PushFull, Drop
<1>5. CASE Send
  BY <1>5, QueueTypes DEF Send, TypeOK, Ledger, Unsent
<1>6. CASE Restart
  BY <1>6 DEF Restart
<1>7. ASSUME NEW w \in Requests, RecordWorkflowRun(w) PROVE Flow'
  BY <1>7 DEF RecordWorkflowRun, Arrives
<1>8. ASSUME NEW w \in Requests, RecordWorkflowRunStep(w) PROVE Flow'
  BY <1>8 DEF RecordWorkflowRunStep, Arrives
<1>9. ASSUME NEW w \in Requests, UpdateWorkflowRunStatus(w) PROVE Flow'
  BY <1>9 DEF UpdateWorkflowRunStatus, Arrives
<1>10. ASSUME NEW w \in Requests, Fail(w) PROVE Flow'
  BY <1>10 DEF Fail
<1>11. ASSUME NEW r \in Runs, CancelRowFails(r) PROVE Flow'
  BY <1>11, WriteTypes DEF CancelRowFails
<1>. QED
  BY <1>1, <1>2, <1>3, <1>4, <1>5, <1>6, <1>7, <1>8, <1>9, <1>10, <1>11
  DEF Next, Engine, Caller, WriterStep, StopStep, Database, ApiStep, Start, Begin,
    Evict, Enqueue, Skip, SendReturns, Exit, StopCloses, StopUnstarted, DrainExpires,
    StopReturns, CancelAsked, ReadRow, CancelRow, ReadRowAgain

\* An outcome is captured with its status when its report begins.
LEMMA CapturedStep ==
    ASSUME TypeOK, Captured, [Next]_vars
    PROVE  Captured'
<1>. USE HistoryAssumption, WriteTypes DEF TypeOK, Captured, Called, Kinds, vars,
  engineVars, recorderVars, dbVars, apiVars, historyVars
<1>1. CASE UNCHANGED <<sending, reported, decided>>
  BY <1>1
<1>2. ASSUME NEW w \in Writes, NEW s \in Reached, Enqueue(w, s) PROVE Captured'
  <2>. SUFFICES ASSUME NEW r \in Runs, Called(Write("outcome", r))'
                PROVE  decided'[r] \in Outcomes
    BY DEF Captured
  <2>1. CASE w = Write("outcome", r)
    BY <1>2, <2>1 DEF Enqueue, Capture, Write
  <2>2. CASE w # Write("outcome", r)
    <3>1. decided[r] \in Outcomes
      BY <1>2, <2>2 DEF Enqueue, Called
    <3>2. w.kind = "outcome" => w.run # r
      BY <2>2 DEF Requests, Writes
    <3>. QED
      BY <1>2, <3>1, <3>2 DEF Enqueue, Capture
  <2>. QED
    BY <2>1, <2>2
<1>3. ASSUME NEW w \in Writes, NEW s \in Reached, EnqueueClosed(w, s) PROVE Captured'
  <2>. SUFFICES ASSUME NEW r \in Runs, Called(Write("outcome", r))'
                PROVE  decided'[r] \in Outcomes
    BY DEF Captured
  <2>1. CASE w = Write("outcome", r)
    BY <1>3, <2>1 DEF EnqueueClosed, Capture, Write
  <2>2. CASE w # Write("outcome", r)
    <3>1. decided[r] \in Outcomes
      BY <1>3, <2>2 DEF EnqueueClosed, Drop, Called
    <3>2. w.kind = "outcome" => w.run # r
      BY <2>2 DEF Requests, Writes
    <3>. QED
      BY <1>3, <3>1, <3>2 DEF EnqueueClosed, Capture
  <2>. QED
    BY <2>1, <2>2
<1>4. ASSUME NEW w \in Writes, Push(w) PROVE Captured'
  BY <1>4 DEF Push
<1>5. ASSUME NEW w \in Writes, PushFull(w) PROVE Captured'
  BY <1>5 DEF PushFull, Drop
<1>6. CASE Restart
  BY <1>6 DEF Restart
<1>. QED
  BY <1>1, <1>2, <1>3, <1>4, <1>5, <1>6
  DEF Next, Engine, Caller, WriterStep, StopStep, Database, ApiStep, Start, Begin,
    Evict, Send, Skip, SendReturns, Exit, StopCloses, StopUnstarted, DrainExpires,
    StopReturns, RecordWorkflowRun, RecordWorkflowRunStep, UpdateWorkflowRunStatus,
    Fail, CancelAsked, ReadRow, CancelRow, CancelRowFails, ReadRowAgain

\* Stop closes the queue under the write lock, and the writer leaves it empty.
LEMMA PhasesStep ==
    ASSUME TypeOK, Phases, [Next]_vars
    PROVE  Phases'
<1>. USE DEF TypeOK, Phases, SendsOnlyOpen, vars, engineVars, recorderVars, dbVars,
  apiVars, historyVars
<1>1. CASE UNCHANGED <<sending, closed, phase, known, queue, abandoned>>
  BY <1>1
<1>2. CASE Start
  BY <1>2 DEF Start
<1>3. ASSUME NEW r \in Runs, Begin(r) PROVE Phases'
  BY <1>3 DEF Begin
<1>4. ASSUME NEW r \in Runs, Evict(r) PROVE Phases'
  BY <1>4 DEF Evict
<1>5. ASSUME NEW w \in Writes, NEW s \in Reached, Enqueue(w, s) PROVE Phases'
  BY <1>5 DEF Enqueue, Reports
<1>6. ASSUME NEW w \in Writes, Push(w) PROVE Phases'
  BY <1>6 DEF Push
<1>7. ASSUME NEW w \in Writes, PushFull(w) PROVE Phases'
  BY <1>7 DEF PushFull, Drop
<1>8. CASE Send
  BY <1>8 DEF Send, Running
<1>9. CASE Skip
  BY <1>9 DEF Skip, Running
<1>10. CASE Exit
  BY <1>10 DEF Exit, Running
<1>11. CASE StopCloses
  BY <1>11 DEF StopCloses
<1>12. CASE StopUnstarted
  BY <1>12 DEF StopUnstarted
<1>13. CASE DrainExpires
  BY <1>13 DEF DrainExpires
<1>14. CASE StopReturns
  BY <1>14 DEF StopReturns
<1>15. CASE Restart
  BY <1>15 DEF Restart
<1>. QED
  BY <1>1, <1>2, <1>3, <1>4, <1>5, <1>6, <1>7, <1>8, <1>9, <1>10, <1>11, <1>12, <1>13,
    <1>14, <1>15
  DEF Next, Engine, Caller, WriterStep, StopStep, Database, ApiStep, EnqueueClosed,
    SendReturns, RecordWorkflowRun, RecordWorkflowRunStep, UpdateWorkflowRunStatus,
    Fail, CancelAsked, ReadRow, CancelRow, CancelRowFails, ReadRowAgain

\* What the api said stays what the row says: settled rows do not move.
LEMMA AnswerStep ==
    ASSUME TypeOK, AnswerTruthful, [Next]_vars
    PROVE  AnswerTruthful'
<1>. USE DEF TypeOK, AnswerTruthful, Outcomes, vars, engineVars, recorderVars, dbVars,
  apiVars, historyVars
<1>1. CASE UNCHANGED <<row, answer>>
  BY <1>1
<1>2. ASSUME NEW w \in Requests, RecordWorkflowRun(w) PROVE AnswerTruthful'
  BY <1>2 DEF RecordWorkflowRun, Arrives
<1>3. ASSUME NEW w \in Requests, UpdateWorkflowRunStatus(w) PROVE AnswerTruthful'
  BY <1>3 DEF UpdateWorkflowRunStatus, UpdateStatus
<1>4. ASSUME NEW r \in Runs, ReadRow(r) PROVE AnswerTruthful'
  BY <1>4 DEF ReadRow, Answer, Settled
<1>5. ASSUME NEW r \in Runs, CancelRow(r) PROVE AnswerTruthful'
  BY <1>5 DEF CancelRow, Answer, UpdateStatus
<1>6. ASSUME NEW r \in Runs, ReadRowAgain(r) PROVE AnswerTruthful'
  BY <1>6 DEF ReadRowAgain, Answer, Settled
<1>. QED
  BY <1>1, <1>2, <1>3, <1>4, <1>5, <1>6
  DEF Next, Engine, Caller, WriterStep, StopStep, Database, ApiStep, Start, Begin,
    Evict, Enqueue, EnqueueClosed, Push, PushFull, Send, Skip, SendReturns, Exit,
    StopCloses, StopUnstarted, DrainExpires, StopReturns, Restart,
    RecordWorkflowRunStep, Fail, CancelAsked, CancelRowFails

(***************************************************************************)
(* The ledger                                                              *)
(***************************************************************************)
\* A report that had not been called yet is one more that is not sent.
LEMMA OneMore ==
    ASSUME Flow, Ledger, NEW w, w \notin reported,
           reported' = reported \cup {w}, before' = before, sent' = sent
    PROVE  /\ IsFiniteSet(reported') /\ w \notin Unsent /\ Unsent' = Unsent \cup {w}
           /\ Cardinality(Unsent') = Cardinality(Unsent) + 1
<1>1. IsFiniteSet(reported')
  BY FS_AddElement DEF Ledger
<1>2. IsFiniteSet(Unsent)
  BY FS_Subset DEF Ledger, Unsent
<1>3. w \notin Unsent /\ Unsent' = Unsent \cup {w}
  BY DEF Flow, Ledger, Unsent
<1>. QED
  BY <1>1, <1>2, <1>3, FS_AddElement

\* What is not sent is in the queue once, or in one of the two counts.
LEMMA LedgerStep ==
    ASSUME TypeOK, Flow, Phases, Ledger, [Next]_vars
    PROVE  Ledger'
<1>. USE DEF TypeOK, vars, engineVars, recorderVars, dbVars, apiVars, historyVars
<1>1. CASE UNCHANGED <<sending, reported, before, sent, queue, dropped, abandoned>>
  BY <1>1 DEF Ledger, Unsent
<1>2. ASSUME NEW w \in Writes, NEW s \in Reached, Enqueue(w, s) PROVE Ledger'
  <2>1. IsFiniteSet(sending')
    BY <1>2, FS_AddElement DEF Enqueue, Ledger
  <2>. QED
    BY <1>2, <2>1 DEF Enqueue, Reports, Called, Ledger, Unsent
<1>3. ASSUME NEW w \in Writes, NEW s \in Reached, EnqueueClosed(w, s) PROVE Ledger'
  <2>1. w \notin reported
    BY <1>3 DEF EnqueueClosed, Reports, Called, Ledger
  <2>2. /\ IsFiniteSet(reported') /\ w \notin Unsent /\ Unsent' = Unsent \cup {w}
        /\ Cardinality(Unsent') = Cardinality(Unsent) + 1
    BY <1>3, <2>1, OneMore DEF EnqueueClosed, Drop
  <2>. QED
    BY <1>3, <2>1, <2>2 DEF EnqueueClosed, Reports, Called, Drop, Ledger
<1>4. ASSUME NEW w \in Writes, Push(w) PROVE Ledger'
  <2>1. w \notin reported
    BY <1>4 DEF Push, Ledger
  <2>2. /\ IsFiniteSet(reported') /\ w \notin Unsent /\ Unsent' = Unsent \cup {w}
        /\ Cardinality(Unsent') = Cardinality(Unsent) + 1
    BY <1>4, <2>1, OneMore DEF Push, Drop
  <2>3. IsFiniteSet(sending')
    BY <1>4, FS_RemoveElement DEF Push, Ledger
  <2>4. /\ \A i \in 1..Len(queue') : queue'[i] \in Unsent'
        /\ \A i, j \in 1..Len(queue') : queue'[i] = queue'[j] => i = j
        /\ Len(queue') = Len(queue) + 1
    BY <1>4, <2>2, AppendTypes DEF Push, Ledger
  <2>. QED
    BY <1>4, <2>1, <2>2, <2>3, <2>4 DEF Push, Ledger
<1>5. ASSUME NEW w \in Writes, PushFull(w) PROVE Ledger'
  <2>1. w \notin reported
    BY <1>5 DEF PushFull, Ledger
  <2>2. /\ IsFiniteSet(reported') /\ w \notin Unsent /\ Unsent' = Unsent \cup {w}
        /\ Cardinality(Unsent') = Cardinality(Unsent) + 1
    BY <1>5, <2>1, OneMore DEF PushFull, Drop
  <2>3. IsFiniteSet(sending')
    BY <1>5, FS_RemoveElement DEF PushFull, Ledger
  <2>. QED
    BY <1>5, <2>1, <2>2, <2>3 DEF PushFull, Drop, Ledger
<1>6. CASE Send
  <2>1. IsFiniteSet(Unsent)
    BY FS_Subset DEF Ledger, Unsent
  <2>2. Unsent' = Unsent \ {Head(queue)}
    BY <1>6 DEF Send, Unsent
  <2>3. Head(queue) \in Unsent /\ Cardinality(Unsent') = Cardinality(Unsent) - 1
    <3>1. Head(queue) = queue[1] /\ 1 \in 1..Len(queue)
      BY <1>6, QueueTypes DEF Send
    <3>2. Head(queue) \in Unsent
      BY <3>1 DEF Ledger
    <3>3. Cardinality(Unsent \ {Head(queue)}) = Cardinality(Unsent) - 1
      BY <2>1, <3>2, FS_RemoveElement
    <3>. QED
      BY <2>2, <3>2, <3>3
  <2>4. /\ \A i \in 1..Len(queue') : queue'[i] \in Unsent'
        /\ \A i, j \in 1..Len(queue') : queue'[i] = queue'[j] => i = j
        /\ Len(queue') = Len(queue) - 1
    BY <1>6, <2>2, QueueTypes DEF Send, Ledger
  <2>. QED
    <3>1. Len(queue) \in Nat /\ Cardinality(Unsent) = dropped + abandoned + Len(queue)
      BY DEF Ledger
    <3>2. dropped' = dropped /\ abandoned' = abandoned /\ Len(queue') = Len(queue) - 1
      BY <1>6, <2>4 DEF Send
    <3>3. Cardinality(Unsent') = dropped' + abandoned' + Len(queue')
      BY <2>3, <3>1, <3>2
    <3>. QED
      BY <1>6, <2>4, <3>3 DEF Send, Ledger
<1>7. CASE Skip
  <2>1. /\ \A i \in 1..Len(queue') : queue'[i] \in Unsent
        /\ \A i, j \in 1..Len(queue') : queue'[i] = queue'[j] => i = j
        /\ Len(queue') = Len(queue) - 1
    BY <1>7, QueueTypes DEF Skip, Ledger
  <2>2. Unsent' = Unsent
    BY <1>7 DEF Skip, Unsent
  <2>3. Cardinality(Unsent') = dropped' + abandoned' + Len(queue')
    <3>1. Len(queue) \in Nat /\ Cardinality(Unsent) = dropped + abandoned + Len(queue)
      BY DEF Ledger
    <3>2. dropped' = dropped /\ abandoned' = abandoned + 1 /\ Len(queue') = Len(queue) - 1
      BY <1>7, <2>1 DEF Skip
    <3>. QED
      BY <2>2, <3>1, <3>2
  <2>. QED
    BY <1>7, <2>1, <2>2, <2>3 DEF Skip, Ledger
<1>8. CASE Exit
  BY <1>8 DEF Exit, Ledger, Unsent
<1>9. CASE Restart
  <2>1. IsFiniteSet(sending') /\ IsFiniteSet(reported')
    BY <1>9, FS_EmptySet, FS_Union DEF Restart, Ledger
  <2>2. Unsent' = {}
    BY <1>9 DEF Restart, Ledger, Unsent
  <2>. QED
    BY <1>9, <2>1, <2>2, FS_EmptySet DEF Restart, Ledger
<1>. QED
  BY <1>1, <1>2, <1>3, <1>4, <1>5, <1>6, <1>7, <1>8, <1>9
  DEF Next, Engine, Caller, WriterStep, StopStep, Database, ApiStep, Start, Begin,
    Evict, SendReturns, StopCloses, StopUnstarted, DrainExpires, StopReturns,
    RecordWorkflowRun, RecordWorkflowRunStep, UpdateWorkflowRunStatus, Fail,
    CancelAsked, ReadRow, CancelRow, CancelRowFails, ReadRowAgain

(***************************************************************************)
(* The theorems                                                            *)
(***************************************************************************)
\* The inductive invariant holds: every step keeps each of its parts.
THEOREM HistoryInvariance == Spec => []IInv
<1>1. Init => IInv
  <2>1. ASSUME Init PROVE TypeOK
    <3>1. queue \in Seq(Writes) /\ Len(queue) <= QueueSize /\ restarts \in 0..MaxRestarts
      BY <2>1, HistoryAssumption DEF Init
    <3>. QED
      BY <2>1, <3>1 DEF Init, TypeOK
  <2>2. ASSUME Init PROVE Flow /\ Captured /\ Phases /\ AnswerTruthful
    BY <2>2 DEF Init, Flow, Captured, Called, Phases, SendsOnlyOpen, AnswerTruthful
  <2>3. ASSUME Init PROVE Ledger
    BY <2>3, FS_EmptySet DEF Init, Ledger, Unsent
  <2>. QED
    BY <2>1, <2>2, <2>3 DEF IInv
<1>2. IInv /\ [Next]_vars => IInv'
  BY TypeStep, FlowStep, CapturedStep, PhasesStep, AnswerStep, LedgerStep DEF IInv
<1>. QED
  BY <1>1, <1>2, PTL DEF Spec

\* The state keeps its shape: the queue never holds more than QueueSize writes,
\* and a status is only ever asked for that RunSettled captured.
THEOREM HistoryTyped == Spec => []TypeOK
<1>1. IInv => TypeOK
  BY DEF IInv
<1>. QED
  BY <1>1, HistoryInvariance, PTL

\* No report is sent on the closed queue, however enqueue and Stop interleave.
THEOREM NoSendAfterClose == Spec => []SendsOnlyOpen
<1>1. IInv => SendsOnlyOpen
  BY DEF IInv, Phases
<1>. QED
  BY <1>1, HistoryInvariance, PTL

\* Dropped() is the number of writes this process lost by itself.
THEOREM DroppedCounts == Spec => []Accounted
<1>1. IInv => Accounted
  <2>. SUFFICES ASSUME IInv, phase = "stopped"
                PROVE  dropped = Cardinality(Unsent)
    BY DEF Accounted, Unsent
  <2>1. Len(queue) = 0 /\ abandoned = 0
    BY DEF IInv, Phases
  <2>. QED
    BY <2>1 DEF IInv, TypeOK, Ledger
<1>. QED
  BY <1>1, HistoryInvariance, PTL

\* The api never told a caller of a cancel what the history does not say.
THEOREM AnswersHold == Spec => []AnswerTruthful
<1>1. IInv => AnswerTruthful
  BY DEF IInv
<1>. QED
  BY <1>1, HistoryInvariance, PTL

\* A row that has settled stays as it is, whoever asks for it to be updated.
LEMMA RowStep ==
    ASSUME TypeOK, [Next]_vars, NEW r \in Runs, Settled(r)
    PROVE  row'[r] = row[r]
<1>. USE DEF TypeOK, Settled, Outcomes, vars, engineVars, recorderVars, dbVars, apiVars,
  historyVars
<1>1. CASE UNCHANGED row
  BY <1>1
<1>2. ASSUME NEW w \in Requests, RecordWorkflowRun(w) PROVE row'[r] = row[r]
  BY <1>2 DEF RecordWorkflowRun
<1>3. ASSUME NEW w \in Requests, UpdateWorkflowRunStatus(w) PROVE row'[r] = row[r]
  BY <1>3 DEF UpdateWorkflowRunStatus, UpdateStatus
<1>4. ASSUME NEW q \in Runs, CancelRow(q) PROVE row'[r] = row[r]
  BY <1>4 DEF CancelRow, UpdateStatus
<1>. QED
  BY <1>1, <1>2, <1>3, <1>4
  DEF Next, Engine, Caller, WriterStep, StopStep, Database, ApiStep, Start, Begin,
    Evict, Enqueue, EnqueueClosed, Push, PushFull, Send, Skip, SendReturns, Exit,
    StopCloses, StopUnstarted, DrainExpires, StopReturns, Restart,
    RecordWorkflowRunStep, Fail, CancelAsked, ReadRow, CancelRowFails, ReadRowAgain

\* A settled row is final, for any interleaving of late requests and cancels.
THEOREM SettledRowsStay == Spec => OutcomeFinal
<1>1. IInv /\ [Next]_vars => [\A r \in Runs : Settled(r) => row'[r] = row[r]]_vars
  BY RowStep DEF IInv
<1>. QED
  BY <1>1, HistoryInvariance, PTL DEF Spec, OutcomeFinal

(***************************************************************************)
(* Rows arrive first                                                       *)
(***************************************************************************)
\* Only the row is reported before the row has been.
LEMMA RowReportedStep ==
    ASSUME TypeOK, Ordered = {}, RowReported, [Next]_vars
    PROVE  RowReported'
<1>. USE DEF RowReported, RowOf, Write, vars, engineVars, recorderVars, dbVars, apiVars,
  historyVars
<1>1. CASE UNCHANGED <<sending, reported>>
  BY <1>1
<1>2. ASSUME NEW w \in Writes, NEW s \in Reached, Enqueue(w, s) PROVE RowReported'
  BY <1>2 DEF Enqueue, Reports, Writes, Kinds
<1>3. ASSUME NEW w \in Writes, NEW s \in Reached, EnqueueClosed(w, s) PROVE RowReported'
  BY <1>3 DEF EnqueueClosed, Reports, Drop, Writes, Kinds
<1>4. ASSUME NEW w \in Writes, Push(w) PROVE RowReported'
  BY <1>4 DEF Push
<1>5. ASSUME NEW w \in Writes, PushFull(w) PROVE RowReported'
  BY <1>5 DEF PushFull, Drop
<1>6. CASE Restart
  BY <1>6 DEF Restart
<1>. QED
  BY <1>1, <1>2, <1>3, <1>4, <1>5, <1>6
  DEF Next, Engine, Caller, WriterStep, StopStep, Database, ApiStep, Start, Begin,
    Evict, Send, Skip, SendReturns, Exit, StopCloses, StopUnstarted, DrainExpires,
    StopReturns, RecordWorkflowRun, RecordWorkflowRunStep, UpdateWorkflowRunStatus,
    Fail, CancelAsked, ReadRow, CancelRow, CancelRowFails, ReadRowAgain

\* A reported write is in the queue until it is shipped.
LEMMA PlacedStep ==
    ASSUME TypeOK, Placed, [Next]_vars
    PROVE  Placed'
<1>. USE DEF TypeOK, Placed, Shipped, Ahead, vars, engineVars, recorderVars, dbVars,
  apiVars, historyVars
<1>1. CASE UNCHANGED <<reported, queue, sent, lost>>
  BY <1>1
<1>2. ASSUME NEW w \in Writes, NEW s \in Reached, EnqueueClosed(w, s) PROVE Placed'
  BY <1>2 DEF EnqueueClosed, Drop
<1>3. ASSUME NEW w \in Writes, Push(w) PROVE Placed'
  BY <1>3, AppendTypes DEF Push
<1>4. ASSUME NEW w \in Writes, PushFull(w) PROVE Placed'
  BY <1>4 DEF PushFull, Drop
<1>5. CASE Send
  <2>. SUFFICES ASSUME NEW w \in reported, w \notin Shipped'
                PROVE  Ahead(Len(queue) + 1, w)'
    BY <1>5 DEF Send
  <2>1. PICK j \in 1..Len(queue) : queue[j] = w
    BY <1>5 DEF Send
  <2>2. j # 1
    BY <1>5, <2>1, QueueTypes DEF Send
  <2>3. j - 1 \in 1..Len(queue') /\ queue'[j - 1] = w
    BY <1>5, <2>1, <2>2, QueueTypes DEF Send
  <2>. QED
    BY <2>3
<1>6. CASE Skip
  <2>. SUFFICES ASSUME NEW w \in reported, w \notin Shipped'
                PROVE  Ahead(Len(queue) + 1, w)'
    BY <1>6 DEF Skip
  <2>1. PICK j \in 1..Len(queue) : queue[j] = w
    BY <1>6 DEF Skip
  <2>2. j # 1
    BY <1>6, <2>1, QueueTypes DEF Skip
  <2>3. j - 1 \in 1..Len(queue') /\ queue'[j - 1] = w
    BY <1>6, <2>1, <2>2, QueueTypes DEF Skip
  <2>. QED
    BY <2>3
<1>7. CASE SendReturns
  BY <1>7 DEF SendReturns
<1>8. CASE Restart
  BY <1>8 DEF Restart
<1>9. ASSUME NEW w \in Requests, Fail(w) PROVE Placed'
  BY <1>9 DEF Fail
<1>. QED
  BY <1>1, <1>2, <1>3, <1>4, <1>5, <1>6, <1>7, <1>8, <1>9
  DEF Next, Engine, Caller, WriterStep, StopStep, Database, ApiStep, Start, Begin,
    Evict, Enqueue, Exit, StopCloses, StopUnstarted, DrainExpires, StopReturns,
    RecordWorkflowRun, RecordWorkflowRunStep, UpdateWorkflowRunStatus, CancelAsked,
    ReadRow, CancelRow, CancelRowFails, ReadRowAgain

\* The queue keeps a row in front of what follows it.
LEMMA QueueOrderStep ==
    ASSUME TypeOK, RowReported, Placed, QueueOrder, [Next]_vars
    PROVE  QueueOrder'
<1>. USE DEF TypeOK, QueueOrder, Shipped, Ahead, RowOf, Write, vars, engineVars,
  recorderVars, dbVars, apiVars, historyVars
<1>1. CASE UNCHANGED <<queue, sent, lost>>
  BY <1>1
<1>2. ASSUME NEW w \in Writes, NEW s \in Reached, EnqueueClosed(w, s) PROVE QueueOrder'
  BY <1>2 DEF EnqueueClosed, Drop
<1>3. ASSUME NEW w \in Writes, Push(w) PROVE QueueOrder'
  <2>1. /\ Len(queue') = Len(queue) + 1 /\ queue'[Len(queue) + 1] = w
        /\ \A i \in 1..Len(queue) : queue'[i] = queue[i]
    BY <1>3, AppendTypes DEF Push
  <2>2. w.kind # "row" =>
           RowOf(w) \in Shipped \/ \E j \in 1..Len(queue) : queue[j] = RowOf(w)
    BY <1>3 DEF Push, RowReported, Placed
  <2>3. UNCHANGED <<sent, lost>>
    BY <1>3 DEF Push
  <2>. SUFFICES ASSUME NEW i \in 1..Len(queue'), queue'[i].kind # "row",
                       RowOf(queue'[i]) \notin Shipped'
                PROVE  \E j \in 1..(i - 1) : queue'[j] = RowOf(queue'[i])
    OBVIOUS
  <2>4. CASE i = Len(queue) + 1
    BY <2>1, <2>2, <2>3, <2>4
  <2>5. CASE i # Len(queue) + 1
    <3>1. i \in 1..Len(queue) /\ queue'[i] = queue[i] /\ RowOf(queue[i]) \notin Shipped
      BY <2>1, <2>3, <2>5
    <3>2. PICK j \in 1..(i - 1) : queue[j] = RowOf(queue[i])
      BY <3>1
    <3>3. queue'[j] = queue[j]
      BY <2>1, <3>1
    <3>. QED
      BY <3>1, <3>2, <3>3
  <2>. QED
    BY <2>4, <2>5
<1>4. ASSUME NEW w \in Writes, PushFull(w) PROVE QueueOrder'
  BY <1>4 DEF PushFull, Drop
<1>5. CASE Send
  <2>. SUFFICES ASSUME NEW i \in 1..Len(queue'), queue'[i].kind # "row",
                       RowOf(queue'[i]) \notin Shipped'
                PROVE  \E j \in 1..(i - 1) : queue'[j] = RowOf(queue'[i])
    BY <1>5
  <2>1. i + 1 \in 1..Len(queue) /\ queue'[i] = queue[i + 1]
    BY <1>5, QueueTypes DEF Send
  <2>2. PICK j \in 1..i : queue[j] = RowOf(queue'[i])
    BY <1>5, <2>1 DEF Send
  <2>3. j # 1
    BY <1>5, <2>2, QueueTypes DEF Send
  <2>4. j - 1 \in 1..(i - 1) /\ queue'[j - 1] = queue[j]
    BY <1>5, <2>3, QueueTypes DEF Send
  <2>. QED
    BY <2>2, <2>4
<1>6. CASE Skip
  <2>. SUFFICES ASSUME NEW i \in 1..Len(queue'), queue'[i].kind # "row",
                       RowOf(queue'[i]) \notin Shipped'
                PROVE  \E j \in 1..(i - 1) : queue'[j] = RowOf(queue'[i])
    BY <1>6
  <2>1. i + 1 \in 1..Len(queue) /\ queue'[i] = queue[i + 1]
    BY <1>6, QueueTypes DEF Skip
  <2>2. PICK j \in 1..i : queue[j] = RowOf(queue'[i])
    BY <1>6, <2>1 DEF Skip
  <2>3. j # 1
    BY <1>6, <2>2, QueueTypes DEF Skip
  <2>4. j - 1 \in 1..(i - 1) /\ queue'[j - 1] = queue[j]
    BY <1>6, <2>3, QueueTypes DEF Skip
  <2>. QED
    BY <2>2, <2>4
<1>7. CASE SendReturns
  BY <1>7 DEF SendReturns
<1>8. CASE Restart
  BY <1>8 DEF Restart
<1>9. ASSUME NEW w \in Requests, Fail(w) PROVE QueueOrder'
  BY <1>9 DEF Fail
<1>. QED
  BY <1>1, <1>2, <1>3, <1>4, <1>5, <1>6, <1>7, <1>8, <1>9
  DEF Next, Engine, Caller, WriterStep, StopStep, Database, ApiStep, Start, Begin,
    Evict, Enqueue, Exit, StopCloses, StopUnstarted, DrainExpires, StopReturns,
    RecordWorkflowRun, RecordWorkflowRunStep, UpdateWorkflowRunStatus, CancelAsked,
    ReadRow, CancelRow, CancelRowFails, ReadRowAgain

\* The first of the queue is a row or comes behind its run's row.
LEMMA RowShippedStep ==
    ASSUME TypeOK, QueueOrder, RowShipped, [Next]_vars
    PROVE  RowShipped'
<1>. USE DEF TypeOK, RowShipped, Shipped, RowOf, Write, vars, engineVars, recorderVars,
  dbVars, apiVars, historyVars
<1>1. CASE UNCHANGED <<sent, lost>>
  BY <1>1
<1>2. ASSUME NEW w \in Writes, NEW s \in Reached, EnqueueClosed(w, s) PROVE RowShipped'
  BY <1>2 DEF EnqueueClosed, Drop
<1>3. ASSUME NEW w \in Writes, PushFull(w) PROVE RowShipped'
  BY <1>3 DEF PushFull, Drop
<1>4. CASE Send
  <2>1. Head(queue).kind # "row" => RowOf(Head(queue)) \in Shipped
    BY <1>4, QueueTypes DEF Send, QueueOrder, Ahead
  <2>. QED
    BY <1>4, <2>1 DEF Send
<1>5. CASE Skip
  BY <1>5 DEF Skip
<1>6. CASE SendReturns
  BY <1>6 DEF SendReturns
<1>7. CASE Restart
  BY <1>7 DEF Restart
<1>8. ASSUME NEW w \in Requests, Fail(w) PROVE RowShipped'
  BY <1>8 DEF Fail
<1>. QED
  BY <1>1, <1>2, <1>3, <1>4, <1>5, <1>6, <1>7, <1>8
  DEF Next, Engine, Caller, WriterStep, StopStep, Database, ApiStep, Start, Begin,
    Evict, Enqueue, Push, Exit, StopCloses, StopUnstarted, DrainExpires, StopReturns,
    RecordWorkflowRun, RecordWorkflowRunStep, UpdateWorkflowRunStatus, CancelAsked,
    ReadRow, CancelRow, CancelRowFails, ReadRowAgain

\* When no run begins queued behind another, a step and an outcome are never sent
\* to db-proxy before their run's row, unless the row's own write was given up on.
THEOREM RowsBeforeSteps ==
    ASSUME Ordered = {}
    PROVE  Spec => []RowArrivesFirst
<1>1. Init => OrderInv
  BY DEF Init, OrderInv, RowReported, Placed, QueueOrder, RowShipped
<1>2. IInv /\ OrderInv /\ [Next]_vars => OrderInv'
  BY RowReportedStep, PlacedStep, QueueOrderStep, RowShippedStep DEF IInv, OrderInv
<1>3. OrderInv => RowArrivesFirst
  BY DEF OrderInv, RowShipped, RowArrivesFirst, Shipped, RowOf, Write
<1>. QED
  BY <1>1, <1>2, <1>3, HistoryInvariance, PTL DEF Spec
===============================================================================
