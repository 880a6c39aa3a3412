------------------------------ MODULE EventOutbox ------------------------------
(* The transactional outbox of the database service (src/db/app/workers:       *)
(* publisher.go, publisher_worker.go, cleanup_worker.go; the rows, in          *)
(* src/db/database/repository/db_event_repository.go) and its NATS connection. *)
(*                                                                             *)
(* A row is its place in the order of created_at.  Every producer in the       *)
(* repository writes rows that are acknowledged on publish, so the retry cache *)
(* and the ack worker, which serve the others, hold nothing.                   *)
EXTENDS Integers, Sequences, FiniteSets

CONSTANTS
    LastRow,     \* bound: how many rows are written
    BatchSize,   \* Config.BatchSize
    MaxFaults    \* bound: crashes, lost connections and failed updates

ASSUME OutboxAssumption ==
    LastRow \in Nat /\ BatchSize \in Nat \ {0} /\ MaxFaults \in Nat

Rows == 1..LastRow
Nobody == 0

VARIABLES
    row,        \* the status of each row
    batch,      \* the rows the poll fetched that it has yet to publish
    marking,    \* the row published last, if it has yet to be marked
    copies,     \* how often each row was published
    connected,  \* natsConn.IsConnected
    wire,       \* what was published and has not left the connection's buffers
    faults,     \* how many crashes and failed updates there were
    breaks,     \* how often the connection was lost
    lost        \* the rows marked as published whose event never left

faultVars  == <<faults, breaks, lost>>
outboxVars == <<row, batch, marking, copies, connected, wire, faultVars>>

Statuses == {"absent", "pending", "published", "deleted"}

OutboxInit ==
    /\ row = [r \in Rows |-> "absent"]
    /\ batch = {} /\ marking = Nobody
    /\ copies = [r \in Rows |-> 0]
    /\ connected = TRUE /\ wire = << >>
    /\ faults = 0 /\ breaks = 0 /\ lost = {}

\* PublishIn: the row is written in the transaction of the change it describes,
\* and appears when that commits; created_at orders rows, not their commits.
Commit(r) ==
    /\ row[r] = "absent"
    /\ row' = [row EXCEPT ![r] = "pending"]
    /\ UNCHANGED <<batch, marking, copies, connected, wire, faultVars>>

Pending == {r \in Rows : row[r] = "pending"}

\* FetchPending: the oldest of the pending rows.
Fetched == {r \in Pending : Cardinality({s \in Pending : s < r}) < BatchSize}

\* Mutant: a poll takes rows while the last one is still to be marked.
PollUnmarked ==
    /\ batch = {}
    /\ batch' = Fetched
    /\ UNCHANGED <<row, marking, copies, connected, wire, faultVars>>

\* processNewEvents, on the ticker of pollDatabase.
Poll ==
    /\ batch = {} /\ marking = Nobody /\ Pending # {}
    /\ batch' = Fetched
    /\ UNCHANGED <<row, marking, copies, connected, wire, faultVars>>

Oldest == CHOOSE r \in batch : \A s \in batch : r <= s

\* publishEvent, up to the update: without a connection the row is passed over.
Publish ==
    /\ batch # {} /\ marking = Nobody
    /\ batch' = batch \ {Oldest}
    /\ IF connected
       THEN /\ wire' = Append(wire, Oldest)
            /\ marking' = Oldest
            /\ copies' = [copies EXCEPT ![Oldest] = @ + 1]
       ELSE UNCHANGED <<wire, marking, copies>>
    /\ UNCHANGED <<row, connected, faultVars>>

MarkPublished ==
    /\ marking # Nobody
    /\ row' = [row EXCEPT ![marking] = "published"]
    /\ marking' = Nobody
    /\ UNCHANGED <<batch, copies, connected, wire, faultVars>>

\* The update fails: the row stays pending, and the next poll finds it again.
MarkFails ==
    /\ marking # Nobody /\ faults + breaks < MaxFaults
    /\ marking' = Nobody
    /\ faults' = faults + 1
    /\ UNCHANGED <<row, batch, copies, connected, wire, breaks, lost>>

\* CleanupOldEvents, once the retention period has passed.
Cleanup(r) ==
    /\ row[r] = "published"
    /\ row' = [row EXCEPT ![r] = "deleted"]
    /\ UNCHANGED <<batch, marking, copies, connected, wire, faultVars>>

\* What was published leaves for the server, in the order it was published in.
Flush ==
    /\ connected /\ wire # << >>
    /\ wire' = Tail(wire)
    /\ UNCHANGED <<row, batch, marking, copies, connected, faultVars>>

OnWire(k) == {wire[i] : i \in 1..k}

\* The connection is lost with what it was carrying; the client keeps the rest
\* for when it has reconnected.  Nothing publishes again a row that is marked, or
\* about to be.
Disconnect ==
    /\ connected /\ faults + breaks < MaxFaults
    /\ connected' = FALSE
    /\ \E k \in 0..Len(wire) :
          /\ wire' = SubSeq(wire, k + 1, Len(wire))
          /\ lost' = lost \cup {r \in OnWire(k) : row[r] # "pending" \/ marking = r}
    /\ breaks' = breaks + 1
    /\ UNCHANGED <<row, batch, marking, copies, faults>>

Reconnect ==
    /\ ~connected
    /\ connected' = TRUE
    /\ UNCHANGED <<row, batch, marking, copies, wire, faultVars>>

\* The process ends and starts again, with the rows alone.
Crash ==
    /\ faults + breaks < MaxFaults
    /\ batch' = {} /\ marking' = Nobody
    /\ wire' = << >> /\ connected' = TRUE
    /\ lost' = lost \cup {r \in OnWire(Len(wire)) : row[r] # "pending"}
    /\ faults' = faults + 1
    /\ UNCHANGED <<row, copies, breaks>>

\* All but what reaches the server.
OutboxStep ==
    \/ \E r \in Rows : Commit(r) \/ Cleanup(r)
    \/ Poll \/ Publish \/ MarkPublished \/ MarkFails
    \/ Disconnect \/ Reconnect \/ Crash

OutboxSpec == OutboxInit /\ [][OutboxStep \/ Flush]_outboxVars

(***************************************************************************)
(* Properties                                                              *)
(***************************************************************************)
\* The shape of the outbox.
OutboxTypeOK ==
    /\ row \in [Rows -> Statuses]
    /\ batch \subseteq Rows /\ marking \in Rows \cup {Nobody}
    /\ copies \in [Rows -> Nat]
    /\ connected \in BOOLEAN /\ wire \in Seq(Rows)
    /\ faults \in Nat /\ breaks \in Nat /\ lost \subseteq Rows

\* A row is published again only for something that went wrong: one publication,
\* and one more for each crash or failed update at most.
OncePerFault == \A r \in Rows : copies[r] <= 1 + faults

\* A row is published only while it is pending: what the last poll fetched is
\* never stale by the time it is published.
PublishedPending ==
    [][\A r \in Rows : copies'[r] # copies[r] => row[r] = "pending"]_outboxVars
================================================================================
