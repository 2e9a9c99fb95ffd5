------------------------- MODULE InspectionLifecycle -------------------------
(***************************************************************************)
(* What inspect-service promises to its neighbours about one inspection:   *)
(* it is created once, completed at most once, its completion has one      *)
(* event, written with it and never changed, and Kafka gets the event of a *)
(* completed inspection only, and in the end does.                         *)
(***************************************************************************)
CONSTANTS
    Inspections,
    Payloads,  \* what an event says
    NoEvent

VARIABLES
    status,    \* domain.Status of each inspection, or "absent"
    event,     \* its inspect.completed event
    announced  \* inspections whose event Kafka holds

vars == <<status, event, announced>>

Init ==
    /\ status \in [Inspections -> {"absent", "scheduled"}]
    /\ event = [i \in Inspections |-> NoEvent]
    /\ announced = {}

Schedule(i) ==
    /\ status[i] = "absent"
    /\ status' = [status EXCEPT ![i] = "scheduled"]
    /\ UNCHANGED <<event, announced>>

Complete(i) ==
    /\ status[i] = "scheduled"
    /\ status' = [status EXCEPT ![i] = "completed"]
    /\ event'[i] \in Payloads
    /\ event' = [event EXCEPT ![i] = event'[i]]
    /\ UNCHANGED announced

\* Kafka stores the event; storing it again changes nothing.
Announce(i) ==
    /\ status[i] = "completed"
    /\ announced' = announced \union {i}
    /\ UNCHANGED <<status, event>>

Next == \E i \in Inspections : Schedule(i) \/ Complete(i) \/ Announce(i)

Spec == Init /\ [][Next]_vars

LiveSpec == Spec /\ \A i \in Inspections : WF_vars(Announce(i))
=============================================================================
