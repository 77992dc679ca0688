---------------------------- MODULE RequestPromise ----------------------------
(***************************************************************************)
(* What the plugin promises the portal about the requests it accepts, with *)
(* no table, no external ids, no ticks and no redelivery: an accepted      *)
(* request is pending until it is imported or failed, once and for all; it *)
(* is imported, and said to be fulfilled, only when the book is available. *)
(* RequestLifecycle implements it.                                         *)
(***************************************************************************)
CONSTANT Requests

VARIABLES
    outcome,    \* request -> "none", "pending", "imported" or "failed"
    available,  \* requests whose book the upstream has imported
    told        \* request -> events the portal was sent

vars == <<outcome, available, told>>

Accepted == {r \in Requests : outcome[r] # "none"}

Init == /\ outcome = [r \in Requests |-> "none"]
        /\ available = {}
        /\ told = [r \in Requests |-> {}]

Accept(r) == /\ outcome[r] = "none"
             /\ outcome' = [outcome EXCEPT ![r] = "pending"]
             /\ UNCHANGED <<available, told>>

(* One monitor may stand for several requests.                             *)
BecomeAvailable(R) == /\ available' = available \cup R
                      /\ UNCHANGED <<outcome, told>>

Settle(r) == /\ outcome[r] = "pending"
             /\ \E o \in {"imported", "failed"} :
                  /\ o = "imported" => r \in available
                  /\ outcome' = [outcome EXCEPT ![r] = o]
             /\ UNCHANGED <<available, told>>

Announce(r, event) ==
    /\ r \in Accepted
    /\ event = "request_fulfilled" => r \in available
    /\ told' = [told EXCEPT ![r] = @ \cup {event}]
    /\ UNCHANGED <<outcome, available>>

Events == {"request_acknowledged", "request_failed", "request_fulfilled",
           "request_status_changed"}

Next == \/ \E r \in Requests : Accept(r) \/ Settle(r)
        \/ \E R \in SUBSET Accepted : BecomeAvailable(R)
        \/ \E r \in Requests, event \in Events : Announce(r, event)

Spec == Init /\ [][Next]_vars

FairSpec == Spec /\ \A r \in Requests : WF_vars(Settle(r))
=============================================================================
