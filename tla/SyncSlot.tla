------------------------------ MODULE SyncSlot ------------------------------
(***************************************************************************)
(* What metaapi_hub/owner.py promises about the account's synchronization   *)
(* slot: one task at a time works on it, a stream is only opened once the   *)
(* previous one is closed, and only an opening stream comes up.  The loss   *)
(* of the stream is the broker's doing.                                     *)
(***************************************************************************)
CONSTANTS Procs, Nobody

VARIABLES holder, slot

Init == holder = Nobody /\ slot = "none"

\* A task takes charge of the slot, and gives it up as it stands.
Take(p) == holder = Nobody /\ holder' = p /\ UNCHANGED slot
GiveUp(p) == holder = p /\ holder' = Nobody /\ UNCHANGED slot

\* The one in charge closes the stream, opens a stream, and sees it come up
\* (which ends its charge) or fail.
Close(p) == holder = p /\ slot' = "none" /\ UNCHANGED holder
Open(p) == /\ holder = p
           /\ slot = "none" /\ slot' = "opening"
           /\ UNCHANGED holder
Up(p) == /\ holder = p /\ holder' = Nobody
         /\ slot = "opening" /\ slot' = "open"

\* The terminal behind an open stream goes away.
Lose == slot = "open" /\ slot' = "lost" /\ UNCHANGED holder

Next == \/ \E p \in Procs : Take(p) \/ GiveUp(p) \/ Close(p) \/ Open(p) \/ Up(p)
        \/ Lose

Spec == Init /\ [][Next]_<<holder, slot>>
=============================================================================
