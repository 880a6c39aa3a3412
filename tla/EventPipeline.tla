----------------------------- MODULE EventPipeline -----------------------------
(* From a change in the database to a client's events target: the outbox       *)
(* publishes the row, NATS brings it to the API, and the API ships it under    *)
(* the row's id (src/api/src: projection.ts, webhook-client.ts send).          *)
EXTENDS EventOutbox, EventShipping

vars == <<outboxVars, shippingVars>>

Init == OutboxInit /\ ShippingInit

\* subscribeProjections and send: an event that reaches the API is shipped
\* before the API does anything else.
Project ==
    /\ Flush
    /\ Ship(Head(wire))

Next ==
    \/ Project
    \/ OutboxStep /\ UNCHANGED shippingVars
    \/ ShippingStep /\ UNCHANGED outboxVars

Spec == Init /\ [][Next]_vars

\* The workers' tickers and the API's event loop run on, NATS reconnects, an
\* awaited answer ends, by its timeout at the latest, and so do the drain, by its
\* own, and what Stop waits for.  The target need not handle anything, and may
\* fail for ever.
Fairness ==
    /\ WF_vars((Poll \/ Publish \/ MarkPublished) /\ UNCHANGED shippingVars)
    /\ WF_vars(Reconnect /\ UNCHANGED shippingVars)
    /\ WF_vars(Project)
    /\ WF_vars(Pump /\ UNCHANGED outboxVars)
    /\ WF_vars(DrainEnds /\ UNCHANGED outboxVars)
    /\ WF_vars(StopReturns /\ UNCHANGED outboxVars)

FairSpec == Spec /\ Fairness

(***************************************************************************)
(* Properties                                                              *)
(***************************************************************************)
\* A row that was committed is published, and its event is shipped unless it was
\* on a connection that broke, or in a process that ended, with the row marked or
\* about to be.  An envelope leaves the lane, and one that does not, as "a retry
\* never ends on its own" (EventShipper), is behind a POST that fails for ever; a
\* stop returns even so.
EventsMove ==
    /\ \A r \in Rows :
          /\ row[r] = "pending" ~> row[r] # "pending"
          /\ row[r] = "pending" ~> \/ r \in lost \/ phase # "running"
                                   \/ \E e \in Envelopes : log[e] = r
    /\ \A e \in 1..(LastRow + MaxFaults) :
          <>[](e \in Members(Held) /\ phase # "stopped") => []<><<Fails>>_vars
    /\ phase = "draining" ~> phase = "stopped"
================================================================================
