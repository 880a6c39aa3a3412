----------------------------- MODULE EventShipping -----------------------------
(* How the API ships events to one client's events target                      *)
(* (src/api/src/event-shipper.ts): a lane with one POST in flight, retries,    *)
(* a bounded buffer, and the drain at shutdown.  The target is the client's.   *)
(*                                                                             *)
(* An envelope in the lane is its place in the order of shipping; which event  *)
(* it carries is in the log.  The API runs one callback at a time: what the    *)
(* code does between two awaits is one step.                                   *)
EXTENDS Integers, Sequences, FiniteSets

CONSTANTS
    MaxBuffered,   \* config.maxBuffered
    MaxPost        \* config.maxPostEvents

ASSUME ShippingAssumption ==
    MaxPost \in Nat \ {0} /\ MaxBuffered \in Nat /\ MaxBuffered >= MaxPost

VARIABLES
    log,        \* the event of each envelope shipped
    buffer,     \* lane.buffer
    posting,    \* the batch of the POST in flight
    pump,       \* lane.pumping: idle, posting or in the backoff
    answering,  \* the target has handled the POST in flight
    arrived,    \* the envelopes the target handled, in the order they first arrived
    late,       \* POSTs given up on that the target may yet handle
    delivered, refused, trimmed,   \* the envelopes that have left the lane, and why
    phase       \* of the shipper: running, draining, aborted or stopped

laneVars == <<buffer, posting, pump, answering>>
fateVars == <<delivered, refused, trimmed>>
shippingVars == <<log, laneVars, arrived, late, fateVars, phase>>

First(s, n) == SubSeq(s, 1, IF n < Len(s) THEN n ELSE Len(s))
After(s, n) == SubSeq(s, n + 1, Len(s))
Members(s) == {s[i] : i \in 1..Len(s)}

ShippingInit ==
    /\ log = << >> /\ buffer = << >> /\ posting = << >>
    /\ pump = "idle" /\ answering = FALSE
    /\ arrived = << >> /\ late = {}
    /\ delivered = {} /\ refused = {} /\ trimmed = {}
    /\ phase = "running"

\* How many are past maxBuffered.
Excess(s) == IF Len(s) > MaxBuffered THEN Len(s) - MaxBuffered ELSE 0

\* Mutant: the newest are dropped.
TrimNewest(s) ==
    /\ buffer' = First(s, MaxBuffered)
    /\ trimmed' = trimmed \cup Members(SubSeq(s, MaxBuffered + 1, Len(s)))

\* trim: the oldest are dropped.
Trim(s) ==
    /\ buffer' = After(s, Excess(s))
    /\ trimmed' = trimmed \cup Members(First(s, Excess(s)))

\* The head of pump's loop, given what it finds in the buffer: a batch is posted,
\* or the lane is idle.
PumpOn(s) ==
    /\ answering' = FALSE
    /\ IF s = << >> \/ phase = "aborted"
       THEN pump' = "idle" /\ posting' = << >> /\ buffer' = s
       ELSE pump' = "posting" /\ posting' = First(s, MaxPost) /\ buffer' = After(s, MaxPost)

\* ship, while the shipper runs; it drops what it is given after that.
Ship(event) ==
    IF phase # "running" THEN UNCHANGED shippingVars
    ELSE /\ log' = Append(log, event)
         /\ LET held == Append(buffer, Len(log) + 1)
            IN  IF pump = "idle" THEN PumpOn(held) /\ UNCHANGED trimmed
                                 ELSE Trim(held) /\ UNCHANGED <<posting, pump, answering>>
         /\ UNCHANGED <<arrived, late, delivered, refused, phase>>

Without(s, S) ==
    LET kept[i \in 0..Len(s)] ==
          IF i = 0 THEN << >>
          ELSE IF s[i] \in S THEN kept[i - 1] ELSE Append(kept[i - 1], s[i])
    IN  kept[Len(s)]

\* The target handles a POST; it knows an envelope it has handled before.
Handle(s) == arrived' = arrived \o Without(s, Members(arrived))

TargetHandles ==
    /\ pump = "posting" /\ ~answering
    /\ Handle(posting)
    /\ answering' = TRUE
    /\ UNCHANGED <<log, buffer, posting, pump, late, fateVars, phase>>

\* It answers 2xx.
Accepted ==
    /\ pump = "posting" /\ answering
    /\ delivered' = delivered \cup Members(posting)
    /\ PumpOn(buffer)
    /\ UNCHANGED <<log, arrived, late, refused, trimmed, phase>>

\* It refuses the token or the batch: 4xx.
Refused ==
    /\ pump = "posting" /\ ~answering
    /\ refused' = refused \cup Members(posting)
    /\ PumpOn(buffer)
    /\ UNCHANGED <<log, arrived, late, delivered, trimmed, phase>>

\* Mutant: behind what was shipped meanwhile.
Requeued(batch, s) == s \o batch

\* Back in front, so order holds.
Unshift(batch, s) == batch \o s

\* A 5xx, 408 or 429, a network error, the timeout, or the abort: the POST may
\* have been handled, or may be handled yet.  Nothing bounds how often.
Fails ==
    /\ pump = "posting"
    /\ \/ UNCHANGED late
       \/ ~answering /\ late' = late \cup {posting}
    /\ Trim(Unshift(posting, buffer))
    /\ posting' = << >> /\ pump' = "backoff" /\ answering' = FALSE
    /\ UNCHANGED <<log, arrived, delivered, refused, phase>>

\* Mutant: the loop is left after a failure, and nothing takes it up again.
BackoffForgets ==
    /\ pump = "backoff"
    /\ pump' = "idle"
    /\ UNCHANGED <<log, buffer, posting, answering, arrived, late, fateVars, phase>>

BackoffEnds ==
    /\ pump = "backoff"
    /\ PumpOn(buffer)
    /\ UNCHANGED <<log, arrived, late, fateVars, phase>>

HandledLate(s) ==
    /\ Handle(s)
    /\ late' = late \ {s}
    /\ UNCHANGED <<log, laneVars, fateVars, phase>>

\* stop: nothing more is taken, and what is held has drainTimeoutMs to leave.
Stop ==
    /\ phase = "running"
    /\ phase' = "draining"
    /\ UNCHANGED <<log, laneVars, arrived, late, fateVars>>

\* Every pump has ended, or the time is up.
DrainEnds ==
    /\ phase = "draining"
    /\ phase' = "aborted"
    /\ UNCHANGED <<log, laneVars, arrived, late, fateVars>>

\* The pumps have ended; what is still buffered is named and lost.
StopReturns ==
    /\ phase = "aborted" /\ pump = "idle"
    /\ phase' = "stopped"
    /\ UNCHANGED <<log, laneVars, arrived, late, fateVars>>

\* The pump's own steps: its awaits end, the POST's by its timeout at the latest.
Pump == Accepted \/ Refused \/ Fails \/ BackoffEnds

\* All but what is shipped.
ShippingStep ==
    \/ Pump \/ TargetHandles \/ Stop \/ DrainEnds \/ StopReturns
    \/ \E s \in late : HandledLate(s)

(***************************************************************************)
(* Properties                                                              *)
(***************************************************************************)
Envelopes == 1..Len(log)
Held == posting \o buffer

\* The shape of the lane, within its bounds.
LaneTypeOK ==
    /\ buffer \in Seq(Envelopes) /\ posting \in Seq(Envelopes)
    /\ Len(buffer) <= MaxBuffered /\ Len(posting) <= MaxPost
    /\ pump \in {"idle", "posting", "backoff"} /\ answering \in BOOLEAN
    /\ delivered \cup refused \cup trimmed \subseteq Envelopes
    /\ phase \in {"running", "draining", "aborted", "stopped"}
    /\ (posting # << >>) = (pump = "posting")

\* A retried batch is again in front of what came after it.
HeldInOrder == \A i, j \in 1..Len(Held) : i < j => Held[i] < Held[j]

\* Every envelope shipped is held, or was delivered, refused or dropped: one of
\* them, and never two.
OneFate ==
    /\ Members(Held) \cup delivered \cup refused \cup trimmed = Envelopes
    /\ Members(Held) \cap (delivered \cup refused \cup trimmed) = {}
    /\ delivered \cap refused = {} /\ (delivered \cup refused) \cap trimmed = {}

\* What was dropped is older than all that is buffered, a batch put back behind
\* the drop included.
OldestDropped == \A e \in trimmed : \A i \in 1..Len(buffer) : e < buffer[i]

\* While its pump rests the lane is empty, unless the shipper was aborted: nothing
\* else would post what it holds.
NeverStranded == pump = "idle" /\ phase \in {"running", "draining"} => buffer = << >>

\* The lane neither loses nor repeats an envelope, nor takes one out of turn,
\* whatever comes of its POSTs and however a shipping falls between them.
LaneKeeps == LaneTypeOK /\ HeldInOrder /\ OneFate /\ OldestDropped /\ NeverStranded

\* "Envelopes reach it in the order they were shipped" (EventShipper), retries
\* and answers that were lost included: one that first arrives behind a later
\* one is one the shipper had given up.
ArrivesInOrder ==
    /\ arrived \in Seq(Envelopes) /\ late \subseteq Seq(Envelopes)
    /\ \A i, j \in 1..Len(arrived) : i < j /\ arrived[j] < arrived[i] =>
          arrived[j] \in refused \cup trimmed
================================================================================
