------------------------------- MODULE HubCall -------------------------------
(* What an engine may rely on when it asks the hub for a change at the broker.  *)
(* A call is handed to the sync owner at most once.  "ok" and "error" mean it   *)
(* was handed over; "refused" and "notconnected" mean it never was and never    *)
(* will be; after "closed", "timeout" or "cancelled" the engine knows nothing:  *)
(* the call may already be at the broker, get there later, or never.            *)
EXTENDS Naturals

CONSTANT Calls

VARIABLES outcome,   \* [Calls -> Outcomes], "none" while the engine waits
          handed     \* [Calls -> {0, 1}], times the sync owner was given the call

Known   == {"ok", "error"}
Never   == {"refused", "notconnected"}
Unknown == {"closed", "timeout", "cancelled"}

Init == /\ outcome = [c \in Calls |-> "none"]
        /\ handed = [c \in Calls |-> 0]

HandOver(c) == /\ outcome[c] \in {"none"} \cup Unknown
               /\ handed[c] = 0
               /\ handed' = [handed EXCEPT ![c] = 1]
               /\ UNCHANGED outcome

Answer(c, o) == /\ outcome[c] = "none"
                /\ o \in Known => handed[c] = 1
                /\ o \in Never => handed[c] = 0
                /\ outcome' = [outcome EXCEPT ![c] = o]
                /\ UNCHANGED handed

Next == \E c \in Calls : HandOver(c) \/ \E o \in Known \cup Never \cup Unknown : Answer(c, o)

Spec == Init /\ [][Next]_<<outcome, handed>>
=============================================================================
