---------------------------- MODULE SceneDeliveries ----------------------------
(* Alert delivery: the delivery store of the scene manager                     *)
(* (sceneManager/src/events/delivery-store.ts), the rows it mirrors            *)
(* (db/database/repository/scene_event_repository.go), the operator's skip and *)
(* clear (events/alert-controls.ts), and the overlay pages that play the       *)
(* alerts (sceneManager/public/scene-manager,                                  *)
(* shared/clients/typescript/widget-host/page/event-queue.ts).                 *)
(*                                                                             *)
(* One scene with one alert area, shown by several pages.  The store's code    *)
(* runs to its next await in one step; the stream to each page is a FIFO line. *)
EXTENDS Naturals, Sequences, FiniteSets

CONSTANTS
    Alerts,     \* the alerts a workflow sends
    Earlier,    \* bound: those whose row an earlier process may have left
    Pages,      \* the overlay pages that show the scene
    Faults,     \* the kinds of fault that happen
    MaxFaults,  \* bound: how many of them
    MaxLine     \* bound: the sweep adds to no line this long

FaultKinds == {"restart", "drop", "reload", "list", "fetch", "write", "reply",
               "frame", "unacked"}

ASSUME DeliveryAssumption ==
    /\ IsFiniteSet(Alerts) /\ IsFiniteSet(Pages) /\ Earlier \subseteq Alerts
    /\ Faults \subseteq FaultKinds
    /\ MaxFaults \in Nat /\ MaxLine \in Nat

\* An entry of DeliveryStore.open by where it came from.  A process makes at
\* most one of each for an alert, so this is the identity of the object.
Entries == {"recorded", "hydrated"}

Frames == [kind : {"delivery", "cancel", "open-set", "hello"}, alerts : SUBSET Alerts]
Frame(k, S) == [kind |-> k, alerts |-> S]

\* Acknowledgements a page keeps sending until one is answered.
Posts == [kind : {"delivered", "started", "completed"}, page : Pages, alert : Alerts]
Post(k, p, a) == [kind |-> k, page |-> p, alert |-> a]

\* A completed acknowledgement being handled: the entry it found, whether the
\* row's change is committed, and the page that waits for the answer, if any.
Handlers == [alert : Alerts, found : Entries \cup {"none"}, written : BOOLEAN,
             waits : SUBSET Pages]

VARIABLES
    row,        \* scene_event_deliveries: alerts with an open row
    recording,  \* committed by recordSceneEvent, which has yet to return
    serving,    \* the first hydration is over and the server listens
    hydration,  \* listing, fetching or done
    todo,       \* the rows listed and not yet fetched
    open,       \* the entry open holds for each alert, or none
    delivered,  \* entries whose `delivered` is set
    started,    \* entries with a startedAt, the latest report last
    handling,   \* completed acknowledgements being handled
    closing,    \* alerts whose cancel has a row to write
    line,       \* frames on their way to each page
    connected,  \* pages with a stream
    ready,      \* pages whose alert area has registered its queue
    pending,    \* InstanceQueue.pending
    playing,    \* InstanceQueue.inFlight
    finished,   \* InstanceQueue.finished
    stale,      \* pages that have heard hello from an earlier process
    greeted,    \* pages that have heard hello from this one
    posts,      \* acknowledgements under way
    faults,     \* how many faults have happened
    made,       \* history: alerts ever recorded
    shown,      \* history: alerts some page has finished
    skipped,    \* history: alerts an operator has skipped or cleared
    silenced,   \* history: those of them not opened again since
    ends,       \* history: how often an end was recorded since the alert was opened
    unacked     \* history: alerts a page gave up acknowledging as completed

storeVars   == <<open, delivered, started>>
workVars    == <<recording, handling, closing>>
hydrateVars == <<serving, hydration, todo>>
pageVars    == <<ready, pending, playing, finished, stale, greeted>>
historyVars == <<made, shown, skipped, silenced, ends, unacked>>
vars == <<row, storeVars, workVars, hydrateVars, line, connected, pageVars, posts,
          faults, historyVars>>

Elements(s) == {s[i] : i \in DOMAIN s}
Without(s, S) ==
    LET kept[i \in 0 .. Len(s)] ==
          IF i = 0 THEN << >>
          ELSE IF s[i] \in S THEN kept[i - 1] ELSE Append(kept[i - 1], s[i])
    IN  kept[Len(s)]

Held == {a \in Alerts : open[a] # "none"}

TypeOK ==
    /\ row \subseteq Alerts /\ recording \subseteq Alerts
    /\ serving \in BOOLEAN /\ hydration \in {"listing", "fetching", "done"}
    /\ todo \subseteq Alerts
    /\ open \in [Alerts -> Entries \cup {"none"}]
    /\ delivered \subseteq Held /\ started \in Seq(Held)
    /\ Cardinality(Elements(started)) = Len(started)
    /\ handling \subseteq Handlers /\ closing \subseteq Alerts
    /\ line \in [Pages -> Seq(Frames)] /\ connected \subseteq Pages
    /\ ready \subseteq Pages /\ stale \subseteq Pages /\ greeted \subseteq Pages
    /\ pending \in [Pages -> Seq(Alerts)] /\ playing \in [Pages -> SUBSET Alerts]
    /\ finished \in [Pages -> SUBSET Alerts]
    /\ posts \subseteq Posts /\ faults \in 0 .. MaxFaults
    /\ made \subseteq Alerts /\ shown \subseteq Alerts /\ unacked \subseteq Alerts
    /\ skipped \subseteq Alerts /\ silenced \subseteq skipped
    /\ ends \in [Alerts -> 0 .. 2]

\* The store is about to hydrate from the rows earlier processes left.
Init ==
    /\ row \in SUBSET Earlier /\ recording = {}
    /\ serving = FALSE /\ hydration = "listing" /\ todo = {}
    /\ open = [a \in Alerts |-> "none"] /\ delivered = {} /\ started = <<>>
    /\ handling = {} /\ closing = {}
    /\ line = [p \in Pages |-> <<>>] /\ connected = {}
    /\ ready = {} /\ stale = {} /\ greeted = {}
    /\ pending = [p \in Pages |-> <<>>] /\ playing = [p \in Pages |-> {}]
    /\ finished = [p \in Pages |-> {}]
    /\ posts = {} /\ faults = 0
    /\ made = row /\ shown = {} /\ unacked = {} /\ skipped = {} /\ silenced = {}
    /\ ends = [a \in Alerts |-> 0]

--------------------------------------------------------------------------------
\* Helpers

\* broadcast, push: a frame to every connected page.
Send(f) == line' = [p \in Pages |-> IF p \in connected THEN Append(line[p], f) ELSE line[p]]

\* setOpen: the entry replaces none.
Open(a, entry) ==
    /\ open' = [open EXCEPT ![a] = entry]
    /\ silenced' = silenced \ {a}
    /\ ends' = [ends EXCEPT ![a] = 0]

\* deleteOpen: an entry goes with its flags.
Close(S) ==
    /\ open' = [a \in Alerts |-> IF a \in S THEN "none" ELSE open[a]]
    /\ delivered' = delivered \ S
    /\ started' = Without(started, S)
    /\ ends' = [a \in Alerts |-> IF a \in S /\ ends[a] < 2 THEN ends[a] + 1 ELSE ends[a]]

Fault(kind) == /\ kind \in Faults /\ faults < MaxFaults
               /\ faults' = faults + 1

--------------------------------------------------------------------------------
\* The store

\* recordSceneEvent commits the row; the store goes on when it returns.
Record(a) ==
    /\ serving /\ a \notin made
    /\ made' = made \cup {a}
    /\ row' = row \cup {a}
    /\ recording' = recording \cup {a}
    /\ UNCHANGED <<storeVars, handling, closing, hydrateVars, line, connected, pageVars,
                   posts, faults, shown, skipped, silenced, ends, unacked>>

\* recordEvent after its write: the entry is opened and pushed.
RecordReturns(a) ==
    /\ a \in recording
    /\ recording' = recording \ {a}
    /\ Open(a, "recorded")
    /\ delivered' = delivered \ {a} /\ started' = Without(started, {a})
    /\ Send(Frame("delivery", {a}))
    /\ UNCHANGED <<row, handling, closing, hydrateVars, connected, pageVars, posts,
                   faults, made, shown, skipped, unacked>>

\* recordEvent when the write's answer is an error: the row is there and the
\* store does not know.
RecordUnanswered(a) ==
    /\ a \in recording /\ Fault("reply")
    /\ recording' = recording \ {a}
    /\ UNCHANGED <<row, storeVars, handling, closing, hydrateVars, line, connected,
                   pageVars, posts, historyVars>>

\* sweepOnce, for an entry whose interval has passed.
Sweep(a) ==
    /\ serving /\ connected # {} /\ a \in Held \ delivered
    /\ \A p \in connected : Len(line[p]) < MaxLine
    /\ Send(Frame("delivery", {a}))
    /\ UNCHANGED <<row, storeVars, workVars, hydrateVars, connected, pageVars, posts,
                   faults, historyVars>>

\* Mutant: a delivered acknowledgement ends the delivery.
AckDeliveredEnds(p, a) ==
    /\ serving /\ Post("delivered", p, a) \in posts
    /\ delivered' = delivered \cup ({a} \cap Held)
    /\ row' = row \ {a}
    /\ posts' = posts \ {Post("delivered", p, a)}
    /\ UNCHANGED <<open, started, workVars, hydrateVars, line, connected, pageVars,
                   faults, historyVars>>

\* ackDelivered.
AckDelivered(p, a) ==
    /\ serving /\ Post("delivered", p, a) \in posts
    /\ delivered' = delivered \cup ({a} \cap Held)
    /\ posts' = posts \ {Post("delivered", p, a)}
    /\ UNCHANGED <<row, open, started, workVars, hydrateVars, line, connected, pageVars,
                   faults, historyVars>>

\* ackDelivered whose write fails: flagged all the same, and answered 503.
AckDeliveredFails(p, a) ==
    /\ serving /\ Post("delivered", p, a) \in posts /\ Fault("write")
    /\ delivered' = delivered \cup ({a} \cap Held)
    /\ UNCHANGED <<row, open, started, workVars, hydrateVars, line, connected, pageVars,
                   posts, historyVars>>

\* Mutant: a report about an entry that is closed is kept.
MarkStartedUnknown(p, a) ==
    /\ serving /\ Post("started", p, a) \in posts
    /\ started' = Append(Without(started, {a}), a)
    /\ posts' = posts \ {Post("started", p, a)}
    /\ UNCHANGED <<row, open, delivered, workVars, hydrateVars, line, connected, pageVars,
                   faults, historyVars>>

\* markStarted: the report makes the entry the latest started.
MarkStarted(p, a) ==
    /\ serving /\ Post("started", p, a) \in posts
    /\ started' = IF a \in Held THEN Append(Without(started, {a}), a) ELSE started
    /\ posts' = posts \ {Post("started", p, a)}
    /\ UNCHANGED <<row, open, delivered, workVars, hydrateVars, line, connected, pageVars,
                   faults, historyVars>>

\* ackCompleted up to its write: the entry is read before.
AckCompleted(p, a) ==
    /\ serving /\ Post("completed", p, a) \in posts
    /\ posts' = posts \ {Post("completed", p, a)}
    /\ handling' = handling \cup
         {[alert |-> a, found |-> open[a], written |-> FALSE, waits |-> {p}]}
    /\ UNCHANGED <<row, storeVars, recording, closing, hydrateVars, line, connected,
                   pageVars, faults, historyVars>>

\* RecordCompletion commits: the row goes, if it is still there.
CompletionWritten(h) ==
    /\ h \in handling /\ ~h.written
    /\ row' = row \ {h.alert}
    /\ handling' = (handling \ {h}) \cup {[h EXCEPT !.written = TRUE]}
    /\ UNCHANGED <<storeVars, recording, closing, hydrateVars, line, connected, pageVars,
                   posts, faults, historyVars>>

\* The write's answer is an error, committed or not: 503, and the page sends
\* its acknowledgement again.
CompletionFails(h) ==
    /\ h \in handling /\ Fault("write")
    /\ handling' = handling \ {h}
    /\ posts' = posts \cup {Post("completed", p, h.alert) : p \in h.waits}
    /\ UNCHANGED <<row, storeVars, recording, closing, hydrateVars, line, connected,
                   pageVars, historyVars>>

\* Mutant: closes what it found without looking again.
AckClosesFound(h) ==
    /\ h \in handling /\ h.written
    /\ handling' = handling \ {h}
    /\ IF h.found # "none" THEN Close({h.alert}) ELSE UNCHANGED <<storeVars, ends>>
    /\ UNCHANGED <<row, recording, closing, hydrateVars, line, connected, pageVars, posts,
                   faults, made, shown, skipped, silenced, unacked>>

\* ackCompleted after its write: closes the entry it found, if it is still
\* the one that is open, and the end is recorded (reportAlertsCompleted).
AckCloses(h) ==
    /\ h \in handling /\ h.written
    /\ handling' = handling \ {h}
    /\ IF h.found # "none" /\ open[h.alert] = h.found
       THEN Close({h.alert})
       ELSE UNCHANGED <<storeVars, ends>>
    /\ UNCHANGED <<row, recording, closing, hydrateVars, line, connected, pageVars, posts,
                   faults, made, shown, skipped, silenced, unacked>>

--------------------------------------------------------------------------------
\* The operator

\* cancel: closed, told to the pages, and the rows left to write.
CancelAlerts(S) ==
    /\ Close(S)
    /\ Send(Frame("cancel", S))
    /\ closing' = closing \cup S
    /\ skipped' = skipped \cup S
    /\ silenced' = silenced \cup S
    /\ UNCHANGED <<row, recording, handling, hydrateVars, connected, pageVars, posts,
                   faults, made, shown, unacked>>

\* skipCurrentAlerts: the entry last reported started.
SkipCurrent ==
    /\ serving /\ connected # {} /\ started # <<>>
    /\ CancelAlerts({started[Len(started)]})

\* clearQueuedAlerts: the entries no page has reported started.
ClearQueued ==
    /\ serving /\ connected # {} /\ Held \ Elements(started) # {}
    /\ CancelAlerts(Held \ Elements(started))

CancelWritten(a) ==
    /\ a \in closing
    /\ closing' = closing \ {a}
    /\ row' = row \ {a}
    /\ UNCHANGED <<storeVars, recording, handling, hydrateVars, line, connected, pageVars,
                   posts, faults, historyVars>>

\* cancel only logs a write that fails: the row stays.
CancelFails(a) ==
    /\ a \in closing /\ Fault("write")
    /\ closing' = closing \ {a}
    /\ UNCHANGED <<row, storeVars, recording, handling, hydrateVars, line, connected,
                   pageVars, posts, historyVars>>

--------------------------------------------------------------------------------
\* Streams

Orders(S) == {q \in [1 .. Cardinality(S) -> S] : Elements(q) = S}

\* Mutant: a page that comes back is not told the open set.
SubscribeUntold(p) ==
    /\ serving /\ p \notin connected
    /\ connected' = connected \cup {p}
    /\ \E q \in Orders(Held) :
         line' = [line EXCEPT ![p] =
             [i \in DOMAIN q |-> Frame("delivery", {q[i]})] \o << Frame("hello", {}) >>]
    /\ delivered' = {}
    /\ UNCHANGED <<row, open, started, workVars, hydrateVars, pageVars, posts, faults,
                   historyVars>>

\* subscribe: every open delivery again, the open set, and hello.
Subscribe(p) ==
    /\ serving /\ p \notin connected
    /\ connected' = connected \cup {p}
    /\ \E q \in Orders(Held) :
         line' = [line EXCEPT ![p] =
             [i \in DOMAIN q |-> Frame("delivery", {q[i]})]
                 \o << Frame("open-set", Held), Frame("hello", {}) >>]
    /\ delivered' = {}
    /\ UNCHANGED <<row, open, started, workVars, hydrateVars, pageVars, posts, faults,
                   historyVars>>

Hangup(S) == /\ connected' = connected \ S
             /\ line' = [p \in Pages |-> IF p \in S THEN <<>> ELSE line[p]]

\* A stream breaks: what was on its way is lost, the page keeps its queue.
Drop(p) ==
    /\ p \in connected /\ Fault("drop")
    /\ Hangup({p})
    /\ UNCHANGED <<row, storeVars, workVars, hydrateVars, pageVars, posts, historyVars>>

\* A delivery frame that could not be presented or enqueued.
FrameLost(p) ==
    /\ Fault("frame")
    /\ \E i \in DOMAIN line[p] :
         /\ line[p][i].kind = "delivery"
         /\ line' = [line EXCEPT ![p] = SubSeq(@, 1, i - 1) \o SubSeq(@, i + 1, Len(@))]
    /\ UNCHANGED <<row, storeVars, workVars, hydrateVars, connected, pageVars, posts,
                   historyVars>>

--------------------------------------------------------------------------------
\* A page

\* A page loads: nothing of the last load is left but what the store is doing.
Load(p) ==
    /\ ready' = ready \ {p} /\ stale' = stale \ {p} /\ greeted' = greeted \ {p}
    /\ pending' = [pending EXCEPT ![p] = <<>>]
    /\ playing' = [playing EXCEPT ![p] = {}]
    /\ finished' = [finished EXCEPT ![p] = {}]
    /\ posts' = {q \in posts : q.page # p}
    /\ handling' = {[h EXCEPT !.waits = @ \ {p}] : h \in handling}
    /\ Hangup({p})

Reload(p) ==
    /\ Fault("reload")
    /\ Load(p)
    /\ UNCHANGED <<row, storeVars, recording, closing, hydrateVars, historyVars>>

\* mount: the area registers its queue.
Mount(p) ==
    /\ p \notin ready
    /\ ready' = ready \cup {p}
    /\ UNCHANGED <<row, storeVars, workVars, hydrateVars, line, connected, pending, playing,
                   finished, stale, greeted, posts, faults, historyVars>>

\* pump, after a change that leaves q waiting, on playing and fin finished:
\* when nothing plays, the first waiting alert starts.
Pump(p, q, on, fin, acks) ==
    LET starts == on = {} /\ q # <<>>
    IN /\ pending'  = [pending EXCEPT ![p] = IF starts THEN Tail(q) ELSE q]
       /\ playing'  = [playing EXCEPT ![p] = IF starts THEN {Head(q)} ELSE on]
       /\ finished' = [finished EXCEPT ![p] = fin]
       /\ posts' = posts \cup acks
                     \cup (IF starts THEN {Post("started", p, Head(q))} ELSE {})

\* InstanceQueue.cancel.
Discard(p, S) ==
    Pump(p, Without(pending[p], S), playing[p] \ S, finished[p] \cup S, {})

Waiting(p) == Elements(pending[p])
Holding(p) == Waiting(p) \cup playing[p]

Reads(p, kind) ==
    /\ line[p] # <<>> /\ Head(line[p]).kind = kind
    /\ line' = [line EXCEPT ![p] = Tail(@)]

\* Mutant: what the page has finished is forgotten.
ReadDeliveryForgets(p) ==
    /\ Reads(p, "delivery")
    /\ IF p \in ready
       THEN \E a \in Head(line[p]).alerts :
              Pump(p, IF a \in Holding(p) THEN pending[p] ELSE Append(pending[p], a),
                   playing[p], finished[p], {Post("delivered", p, a)})
       ELSE UNCHANGED <<pending, playing, finished, posts>>
    /\ UNCHANGED <<row, storeVars, workVars, hydrateVars, connected, ready, stale, greeted,
                   faults, historyVars>>

\* Mutant: a delivery that meets no queue is acknowledged.
ReadDeliveryAcks(p) ==
    /\ Reads(p, "delivery")
    /\ \E a \in Head(line[p]).alerts :
         LET repeat == a \in Holding(p) \cup finished[p]
         IN Pump(p, IF repeat \/ p \notin ready THEN pending[p] ELSE Append(pending[p], a),
                 playing[p], finished[p], {Post("delivered", p, a)})
    /\ UNCHANGED <<row, storeVars, workVars, hydrateVars, connected, ready, stale, greeted,
                   faults, historyVars>>

\* onFrame, enqueue: a repeat is dropped and acknowledged, a delivery that
\* meets no queue is neither queued nor acknowledged.
ReadDelivery(p) ==
    /\ Reads(p, "delivery")
    /\ IF p \in ready
       THEN \E a \in Head(line[p]).alerts :
              LET repeat == a \in Holding(p) \cup finished[p]
              IN Pump(p, IF repeat THEN pending[p] ELSE Append(pending[p], a),
                      playing[p], finished[p], {Post("delivered", p, a)})
       ELSE UNCHANGED <<pending, playing, finished, posts>>
    /\ UNCHANGED <<row, storeVars, workVars, hydrateVars, connected, ready, stale, greeted,
                   faults, historyVars>>

\* onCancel, EventQueueManager.cancel.
ReadCancel(p) ==
    /\ Reads(p, "cancel")
    /\ IF p \in ready THEN Discard(p, Head(line[p]).alerts)
                      ELSE UNCHANGED <<pending, playing, finished, posts>>
    /\ UNCHANGED <<row, storeVars, workVars, hydrateVars, connected, ready, stale, greeted,
                   faults, historyVars>>

\* onOpenSet, retainOpen: what the page holds beyond the set was closed.
ReadOpenSet(p) ==
    /\ Reads(p, "open-set")
    /\ Discard(p, Holding(p) \ Head(line[p]).alerts)
    /\ UNCHANGED <<row, storeVars, workVars, hydrateVars, connected, ready, stale, greeted,
                   faults, historyVars>>

\* onHello: another boot than the one heard before reloads the page.
ReadHello(p) ==
    /\ p \notin stale
    /\ Reads(p, "hello")
    /\ greeted' = greeted \cup {p}
    /\ UNCHANGED <<row, storeVars, workVars, hydrateVars, connected, ready, pending, playing,
                   finished, stale, posts, faults, historyVars>>

ReadOtherBoot(p) ==
    /\ p \in stale /\ line[p] # <<>> /\ Head(line[p]).kind = "hello"
    /\ Load(p)
    /\ UNCHANGED <<row, storeVars, recording, closing, hydrateVars, faults, historyVars>>

\* onFinished: an alert has played out.
Finish(p) ==
    \E a \in playing[p] :
        /\ shown' = shown \cup {a}
        /\ Pump(p, pending[p], {}, finished[p] \cup {a}, {Post("completed", p, a)})
        /\ UNCHANGED <<row, storeVars, workVars, hydrateVars, line, connected, ready, stale,
                       greeted, faults, made, skipped, silenced, ends, unacked>>

\* postAck after its last attempt.
GiveUp(q) ==
    /\ q \in posts /\ Fault("unacked")
    /\ posts' = posts \ {q}
    /\ unacked' = IF q.kind = "completed" THEN unacked \cup {q.alert} ELSE unacked
    /\ UNCHANGED <<row, storeVars, workVars, hydrateVars, line, connected, pageVars, made,
                   shown, skipped, silenced, ends>>

--------------------------------------------------------------------------------
\* Starting again

\* The process is replaced: memory is lost, rows and pages stay.
Restart ==
    /\ Fault("restart")
    /\ open' = [a \in Alerts |-> "none"] /\ delivered' = {} /\ started' = <<>>
    /\ recording' = {} /\ handling' = {} /\ closing' = {}
    /\ serving' = FALSE /\ hydration' = "listing" /\ todo' = {}
    /\ Hangup(connected)
    /\ stale' = stale \cup greeted /\ greeted' = {}
    /\ posts' = posts \cup UNION {{Post("completed", p, h.alert) : p \in h.waits} : h \in handling}
    /\ ends' = [a \in Alerts |-> 0]
    /\ UNCHANGED <<row, ready, pending, playing, finished, made, shown, skipped, silenced,
                   unacked>>

\* hydrate: the open rows are listed.
ListOpen ==
    /\ hydration = "listing"
    /\ todo' = row
    /\ hydration' = IF row = {} THEN "done" ELSE "fetching"
    /\ serving' = (serving \/ row = {})
    /\ UNCHANGED <<row, storeVars, workVars, line, connected, pageVars, posts, faults,
                   historyVars>>

\* The list fails: the service starts, and the list is tried again later.
ListFails ==
    /\ hydration = "listing" /\ Fault("list")
    /\ serving' = TRUE
    /\ UNCHANGED <<row, storeVars, workVars, hydration, todo, line, connected, pageVars,
                   posts, historyVars>>

\* The loop of hydrate goes on to the next row, or ends.
Fetched(a) ==
    /\ hydration = "fetching" /\ a \in todo
    /\ todo' = todo \ {a}
    /\ hydration' = IF todo = {a} THEN "done" ELSE "fetching"
    /\ serving' = (serving \/ todo = {a})

\* fetchEventPayload answers: opened, unless it is open already.
FetchOpens(a) ==
    /\ Fetched(a)
    /\ IF open[a] = "none" THEN Open(a, "hydrated") ELSE UNCHANGED <<open, silenced, ends>>
    /\ UNCHANGED <<row, delivered, started, workVars, line, connected, pageVars, posts,
                   faults, made, shown, skipped, unacked>>

\* fetchEventPayload fails: null, and the row is left out.
FetchFails(a) ==
    /\ Fetched(a) /\ Fault("fetch")
    /\ UNCHANGED <<row, storeVars, workVars, line, connected, pageVars, posts, historyVars>>

Next ==
    \/ \E a \in Alerts :
         \/ Record(a) \/ RecordReturns(a) \/ RecordUnanswered(a) \/ Sweep(a)
         \/ CancelWritten(a) \/ CancelFails(a) \/ FetchOpens(a) \/ FetchFails(a)
    \/ \E p \in Pages, a \in Alerts :
         AckDelivered(p, a) \/ AckDeliveredFails(p, a) \/ MarkStarted(p, a) \/ AckCompleted(p, a)
    \/ \E h \in handling : CompletionWritten(h) \/ CompletionFails(h) \/ AckCloses(h)
    \/ \E p \in Pages :
         \/ Subscribe(p) \/ Drop(p) \/ FrameLost(p) \/ Reload(p) \/ Mount(p) \/ Finish(p)
         \/ ReadDelivery(p) \/ ReadCancel(p) \/ ReadOpenSet(p) \/ ReadHello(p)
         \/ ReadOtherBoot(p)
    \/ \E q \in posts : GiveUp(q)
    \/ SkipCurrent \/ ClearQueued \/ Restart \/ ListOpen \/ ListFails

Spec == Init /\ [][Next]_vars

\* What goes on by itself: the store's writes, its sweep and its hydration,
\* and each page's reading, playing, acknowledging and connecting.  Nobody
\* has to send an alert or to skip one.
Fairness ==
    /\ WF_vars(ListOpen)
    /\ \A a \in Alerts :
         /\ WF_vars(RecordReturns(a)) /\ WF_vars(Sweep(a)) /\ WF_vars(FetchOpens(a))
         /\ WF_vars(\E h \in handling : h.alert = a /\ (CompletionWritten(h) \/ AckCloses(h)))
    /\ \A p \in Pages :
         /\ WF_vars(Subscribe(p)) /\ WF_vars(Mount(p)) /\ WF_vars(Finish(p))
         /\ WF_vars(ReadDelivery(p) \/ ReadCancel(p) \/ ReadOpenSet(p) \/ ReadHello(p)
                      \/ ReadOtherBoot(p))
         /\ \A a \in Alerts :
              WF_vars(AckDelivered(p, a)) /\ WF_vars(MarkStarted(p, a)) /\ WF_vars(AckCompleted(p, a))

FairSpec == Spec /\ Fairness

--------------------------------------------------------------------------------
\* Properties

\* A row goes only when a page has finished the alert or an operator has
\* ended it: across reloads, failed writes, restarts and late hydration, what
\* was recorded is kept until then (recordEvent, ackCompleted, hydrate).
NothingLost == (made \ row) \subseteq (shown \cup skipped)

\* One load of a page plays an alert once, however often the sweep and the
\* replays send it, and before, between or after its cancel (enqueue's checks
\* against inFlight, finished and pending).
PlaysOnce ==
    \A p \in Pages :
        /\ Cardinality(playing[p]) <= 1
        /\ Cardinality(Waiting(p)) = Len(pending[p])
        /\ Holding(p) \cap finished[p] = {} /\ Waiting(p) \cap playing[p] = {}

\* An entry's end is recorded once, though two pages' acknowledgements and a
\* skip race for it (ackCompleted: "closed only if it is still the delivery
\* this ack found").
EndsOnce == \A a \in Alerts : ends[a] <= 1

\* Where a line tells its page to let go of an alert.
LetsGo(f, a) == \/ f.kind = "cancel" /\ a \in f.alerts
                \/ f.kind = "open-set" /\ a \notin f.alerts

\* A skipped alert leaves every page: one that still holds it, or is about to
\* be sent it, has a frame coming after that ends it (cancel's broadcast, and
\* the open set of a page whose stream was down).
SkipReaches ==
    \A p \in connected, a \in silenced :
        /\ a \in Holding(p) => \E i \in DOMAIN line[p] : LetsGo(line[p][i], a)
        /\ \A i \in DOMAIN line[p] :
             line[p][i] = Frame("delivery", {a}) /\ a \notin finished[p]
                 => \E j \in i + 1 .. Len(line[p]) : LetsGo(line[p][j], a)

\* An entry the store holds for a row is played and its row ends, unless it is
\* ended by an operator, a page gives up acknowledging it, or the process goes.
Delivered ==
    \A a \in Alerts :
        (a \in row /\ open[a] # "none")
            ~> (a \notin row \/ open[a] = "none" \/ a \in skipped \cup unacked)
================================================================================
