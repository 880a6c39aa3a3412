------------------------------ MODULE RunOutcome ------------------------------
(* What the workflow engine promises the outside about its runs, with none of  *)
(* the goroutines, locks and registrations it takes to keep the promise: a run *)
(* begins, may have one cancel accepted while it is open, and is decided once. *)
(* An accepted cancel fixes the decision, and nothing else cancels a run.      *)
(* EngineRuns is shown to implement this.                                      *)

CONSTANT Runs

VARIABLES
    outcome,   \* what a run has come to: "absent", "open", or its outcome
    accepted   \* the runs a cancel was accepted for

vars == <<outcome, accepted>>

Outcomes == {"completed", "failed", "cancelled"}

TypeOK == /\ outcome \in [Runs -> Outcomes \cup {"absent", "open"}]
          /\ accepted \subseteq Runs

Init == /\ outcome = [r \in Runs |-> "absent"]
        /\ accepted = {}

Begin(r) == /\ outcome[r] = "absent"
            /\ outcome' = [outcome EXCEPT ![r] = "open"]
            /\ UNCHANGED accepted

\* The caller is told the run will stop.
AcceptCancel(r) == /\ outcome[r] = "open"
                   /\ accepted' = accepted \cup {r}
                   /\ UNCHANGED outcome

\* Cancelled if and only if somebody was told so.
Decide(r) == /\ outcome[r] = "open"
             /\ \E o \in Outcomes :
                   /\ (o = "cancelled") <=> (r \in accepted)
                   /\ outcome' = [outcome EXCEPT ![r] = o]
             /\ UNCHANGED accepted

Next == \E r \in Runs : Begin(r) \/ AcceptCancel(r) \/ Decide(r)

Spec == Init /\ [][Next]_vars
===============================================================================
