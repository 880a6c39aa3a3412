------------------------------ MODULE EventStream ------------------------------
(* The engine event stream of the API (src/api/src/engine-event-stream.ts):    *)
(* events and requests pushed to a client over its sessions, each subscription *)
(* with a bounded queue and one push in flight.  The subscribers are external. *)
(*                                                                             *)
(* The API runs one callback at a time: what the code does between two awaits  *)
(* is one step, and a push that has settled is taken up in a step of its own.  *)
EXTENDS Naturals, Sequences

CONSTANTS
    Sessions, Clients, ClientOf,   \* the sessions, and the client of each
    Requests,                      \* the ids of the requests
    NoRequest, NoSession,          \* for a frame that asks nothing, and before one is made
    BufferLimit,                   \* limits.bufferLimit
    MaxSubs, MaxEvents             \* bounds: subscriptions made, events published

ASSUME StreamAssumption ==
    /\ ClientOf \in [Sessions -> Clients]
    /\ NoRequest \notin Requests /\ NoSession \notin Sessions
    /\ BufferLimit \in Nat \ {0}
    /\ MaxSubs \in Nat /\ MaxEvents \in Nat

\* Subscriptions in the order they were made in.
Subs == 1..MaxSubs
None == 0

VARIABLES
    sub,       \* each subscription: its session, queue, seq, pump, and what was pushed
    holder,    \* the subscriptions map: which subscription each session holds
    waitsOn,   \* pending: the subscription each request waits on
    outcome,   \* what its caller was told of each request
    published, \* how many events were
    stopped

vars == <<sub, holder, waitsOn, outcome, published, stopped>>

Unmade == [session |-> NoSession, closed |-> FALSE, queue |-> << >>, seq |-> 0,
           pump |-> "idle", pushed |-> << >>]

Init ==
    /\ sub = [n \in Subs |-> Unmade]
    /\ holder = [x \in Sessions |-> None]
    /\ waitsOn = [q \in Requests |-> None]
    /\ outcome = [q \in Requests |-> "none"]
    /\ published = 0 /\ stopped = FALSE

Made == {n \in Subs : sub[n].session # NoSession}
Live == {holder[x] : x \in Sessions} \ {None}
LiveOf(c) == {n \in Live : ClientOf[sub[n].session] = c}
Newest(c) == CHOOSE n \in LiveOf(c) : \A m \in LiveOf(c) : m <= n

Frame(n, q) == [seq |-> sub[n].seq + 1, asks |-> q]

\* settle: the requests qs fail.
Fail(qs) ==
    /\ waitsOn' = [q \in Requests |-> IF q \in qs THEN None ELSE waitsOn[q]]
    /\ outcome' = [q \in Requests |-> IF q \in qs THEN "failed" ELSE outcome[q]]

\* Mutant: what waits on it is left to its timeout.
WaitingOnNone(ns) == {}

WaitingOn(ns) == {q \in Requests : waitsOn[q] \in ns}

\* close: the queue goes, and the push in flight is interrupted.
Closed(s) ==
    [s EXCEPT !.closed = TRUE, !.queue = << >>, !.pump = IF @ = "pushing" THEN "settled" ELSE @]

CloseAll(ns) ==
    /\ sub' = [n \in Subs |-> IF n \in ns THEN Closed(sub[n]) ELSE sub[n]]
    /\ Fail(WaitingOn(ns))

\* subscribe: a second one on the same session replaces the first.
Subscribe(x) ==
    /\ ~stopped
    /\ \E n \in Subs \ Made :
          /\ \A m \in Subs \ Made : n <= m
          /\ sub' = [m \in Subs |-> IF m = n THEN [Unmade EXCEPT !.session = x]
                                    ELSE IF m = holder[x] THEN Closed(sub[m])
                                    ELSE sub[m]]
          /\ holder' = [holder EXCEPT ![x] = n]
    /\ Fail(WaitingOn({holder[x]} \ {None}))
    /\ UNCHANGED <<published, stopped>>

\* drop, of each of ns: removed if its session still holds it, and closed.
Drop(ns) ==
    /\ holder' = [x \in Sessions |-> IF holder[x] \in ns THEN None ELSE holder[x]]
    /\ CloseAll({n \in ns : ~sub[n].closed})
    /\ UNCHANGED <<published, stopped>>

\* onRpcBroken.
SessionBreaks(n) == ~sub[n].closed /\ Drop({n})

DropClient(c) == LiveOf(c) # {} /\ Drop(LiveOf(c))

Stop ==
    /\ ~stopped
    /\ stopped' = TRUE
    /\ holder' = [x \in Sessions |-> None]
    /\ CloseAll(Live)
    /\ UNCHANGED published

\* A request whose caller stopped waiting is passed over.
IsDue(n, frame, waiting) == frame.asks = NoRequest \/ waiting[frame.asks] = n

\* Mutant: the frame queued last goes first.
PumpedNewest(n, s, waiting) ==
    LET due == {i \in 1..Len(s.queue) : IsDue(n, s.queue[i], waiting)}
    IN  IF s.closed \/ due = {}
        THEN [s EXCEPT !.queue = << >>, !.pump = "idle"]
        ELSE LET i == CHOOSE i \in due : \A j \in due : i >= j
             IN  [s EXCEPT !.queue = SubSeq(@, 1, i - 1),
                           !.pump = "pushing",
                           !.pushed = Append(@, s.queue[i])]

\* pump's loop, from its head to its next await: the first frame of the queue
\* that is due is pushed.
Pumped(n, s, waiting) ==
    LET due == {i \in 1..Len(s.queue) : IsDue(n, s.queue[i], waiting)}
    IN  IF s.closed \/ due = {}
        THEN [s EXCEPT !.queue = << >>, !.pump = "idle"]
        ELSE LET i == CHOOSE i \in due : \A j \in due : i <= j
             IN  [s EXCEPT !.queue = SubSeq(@, i + 1, Len(@)),
                           !.pump = "pushing",
                           !.pushed = Append(@, s.queue[i])]

Overflows(n) == Len(sub[n].queue) >= BufferLimit

\* The frame enqueue drops: the oldest.
Dropped(n) == IF Overflows(n) THEN {Head(sub[n].queue).asks} \ {NoRequest} ELSE {}

\* enqueue; a pump that rests is started, and pushes before it returns.
Enqueued(n, q, waiting) ==
    LET s == sub[n]
        kept == IF Overflows(n) THEN Tail(s.queue) ELSE s.queue
        t == [s EXCEPT !.seq = @ + 1, !.queue = Append(kept, Frame(n, q))]
    IN  IF s.pump = "idle" THEN Pumped(n, t, waiting) ELSE t

\* publish, to the subscriptions that want the event's type.
Publish ==
    /\ published < MaxEvents
    /\ published' = published + 1
    /\ \E ns \in SUBSET Live :
          /\ ns # {}
          /\ Fail(UNION {Dropped(n) : n \in ns})
          /\ sub' = [n \in Subs |-> IF n \in ns THEN Enqueued(n, NoRequest, waitsOn) ELSE sub[n]]
    /\ UNCHANGED <<holder, stopped>>

\* request: of the client's newest subscription; refused without one.
Request(q, c) ==
    /\ outcome[q] = "none"
    /\ IF stopped \/ LiveOf(c) = {}
       THEN outcome' = [outcome EXCEPT ![q] = "failed"] /\ UNCHANGED <<sub, waitsOn>>
       ELSE LET n == Newest(c)
                asked == [waitsOn EXCEPT ![q] = n]
            IN  /\ waitsOn' = [p \in Requests |-> IF p \in Dropped(n) THEN None ELSE asked[p]]
                /\ outcome' = [p \in Requests |-> IF p \in Dropped(n) THEN "failed"
                                                  ELSE IF p = q THEN "waiting" ELSE outcome[p]]
                /\ sub' = [sub EXCEPT ![n] = Enqueued(n, q, asked)]
    /\ UNCHANGED <<holder, published, stopped>>

\* answer, by the client that was asked; it may refuse, and may answer before
\* its handler has returned.
Answer(q) ==
    /\ waitsOn[q] # None
    /\ \E i \in 1..Len(sub[waitsOn[q]].pushed) : sub[waitsOn[q]].pushed[i].asks = q
    /\ waitsOn' = [waitsOn EXCEPT ![q] = None]
    /\ \E o \in {"answered", "failed"} : outcome' = [outcome EXCEPT ![q] = o]
    /\ UNCHANGED <<sub, holder, published, stopped>>

\* request's timer.
Timeout(q) ==
    /\ waitsOn[q] # None
    /\ Fail({q})
    /\ UNCHANGED <<sub, holder, published, stopped>>

\* The handler returned.
PushSettles(n) ==
    /\ sub[n].pump = "pushing"
    /\ sub' = [sub EXCEPT ![n].pump = "settled"]
    /\ UNCHANGED <<holder, waitsOn, outcome, published, stopped>>

\* It threw, or pushTimeoutMs passed.
PushFails(n) ==
    /\ sub[n].pump = "pushing"
    /\ sub' = [sub EXCEPT ![n].pump = "failed"]
    /\ UNCHANGED <<holder, waitsOn, outcome, published, stopped>>

\* pump goes on behind its await.
PumpResumes(n) ==
    /\ sub[n].pump = "settled"
    /\ sub' = [sub EXCEPT ![n] = Pumped(n, sub[n], waitsOn)]
    /\ UNCHANGED <<holder, waitsOn, outcome, published, stopped>>

\* dropSubscription: the subscription whose push failed, which may have been
\* closed and replaced since.
PumpGivesUp(n) ==
    /\ sub[n].pump = "failed"
    /\ holder' = [x \in Sessions |-> IF holder[x] = n THEN None ELSE holder[x]]
    /\ sub' = [sub EXCEPT ![n] = [Closed(@) EXCEPT !.pump = "idle"]]
    /\ Fail(WaitingOn({n}))
    /\ UNCHANGED <<published, stopped>>

Next ==
    \/ \E x \in Sessions : Subscribe(x)
    \/ \E n \in Subs : n \in Made /\ SessionBreaks(n)
    \/ \E c \in Clients : DropClient(c)
    \/ Publish \/ Stop
    \/ \E q \in Requests : Answer(q) \/ Timeout(q) \/ \E c \in Clients : Request(q, c)
    \/ \E n \in Subs : PushSettles(n) \/ PushFails(n) \/ PumpResumes(n) \/ PumpGivesUp(n)

Spec == Init /\ [][Next]_vars

(***************************************************************************)
(* Properties                                                              *)
(***************************************************************************)
Frames == [seq : Nat, asks : Requests \cup {NoRequest}]

\* The shape of the state.
TypeOK ==
    /\ sub \in [Subs -> [session : Sessions \cup {NoSession}, closed : BOOLEAN,
                         queue : Seq(Frames), seq : Nat,
                         pump : {"idle", "pushing", "settled", "failed"}, pushed : Seq(Frames)]]
    /\ holder \in [Sessions -> Subs \cup {None}]
    /\ waitsOn \in [Requests -> Subs \cup {None}]
    /\ outcome \in [Requests -> {"none", "waiting", "answered", "failed"}]
    /\ published \in Nat /\ stopped \in BOOLEAN

\* A session holds the one subscription of its own that is open.
HeldOpen ==
    /\ \A x \in Sessions : holder[x] # None => sub[holder[x]].session = x
    /\ \A n \in Subs : n \in Live <=> n \in Made /\ ~sub[n].closed
    /\ stopped => Live = {}

\* A request that waits does so on a subscription that is still held, and so ends
\* with it: "requests outlived their subscriptions" (stop) cannot come about.
PendingOpen ==
    \A q \in Requests :
        /\ (outcome[q] = "waiting") = (waitsOn[q] # None)
        /\ waitsOn[q] # None => waitsOn[q] \in Live

Asks(frames, q) == \E i \in 1..Len(frames) : frames[i].asks = q

\* Nor does it wait for a frame nobody will see: its frame is queued, or was pushed.
PendingAsked ==
    \A q \in Requests : waitsOn[q] # None =>
        Asks(sub[waitsOn[q]].queue, q) \/ Asks(sub[waitsOn[q]].pushed, q)

\* What is queued is within its bound, and a pump is at work on it.
QueueMoves ==
    \A n \in Subs : sub[n].queue # << >> =>
        sub[n].pump # "idle" /\ ~sub[n].closed /\ Len(sub[n].queue) <= BufferLimit

\* Through replacements, breaks, failed pushes and overflows, in any order.
PendingHeld == HeldOpen /\ PendingOpen /\ PendingAsked /\ QueueMoves

\* "At most once and in order per subscription" (engine-events.ts), nothing after
\* the subscription was closed, and no request whose caller has stopped waiting:
\* what a step pushes is newer than all that was pushed.
PushesInOrder ==
    [][\A n \in Subs : sub'[n].pushed # sub[n].pushed =>
          LET old == sub[n].pushed
              new == sub'[n].pushed[Len(old) + 1]
          IN  /\ ~sub[n].closed
              /\ sub'[n].pushed = Append(old, new)
              /\ \A i \in 1..Len(old) : old[i].seq < new.seq
              /\ new.asks # NoRequest => waitsOn'[new.asks] = n]_vars
================================================================================
