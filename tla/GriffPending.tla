---------------------------- MODULE GriffPending ----------------------------
(***************************************************************************)
(* griff_engine_live.py, GriffLiveEngine: the life of a pending breakout    *)
(* order, from the setup that places it to its fill, expiry or cancellation *)
(* and the confirmation against the order book.  step() awaits the broker   *)
(* at every read and request, so each is an action and the broker moves in  *)
(* between; what a read returns is used before the next await, so reading   *)
(* and reacting are one action.  Each setup places the leg of the trend     *)
(* only: one of pending_buy_order_id and pending_sell_order_id is used.     *)
(***************************************************************************)
EXTENDS Naturals, FiniteSets

CONSTANTS
    Ids,          \* order ids; a position has the id of the order it came from
    BookFails,    \* get_orders_rest may fail
    LostReplies,  \* the requests that may be carried out and not be answered
    MaxStop,      \* bound: stop losses are 0..MaxStop, a higher one is tighter
    MaxRestarts,  \* bound: restarts of the engine's process
    None

ASSUME GriffAssumption ==
    /\ IsFiniteSet(Ids) /\ None \notin Ids
    /\ BookFails \in BOOLEAN /\ LostReplies \subseteq {"place", "modify"}
    /\ MaxRestarts \in Nat /\ MaxStop \in Nat

VARIABLES
    book,         \* broker: pending GRIFF_ orders at work on the symbol
    open,         \* broker: open GRIFF_ positions on the symbol
    stop,         \* broker: position -> its stop loss (of a BUY)
    state,        \* self.state
    leg,          \* pending_buy_order_id or pending_sell_order_id
    expired,      \* pending_setup_bar_time is not the latest completed bar
    active,       \* active_position, its id
    sl,           \* active_position["sl"]
    evaluated,    \* last_evaluated_bar_time is the latest completed bar
    unconfirmed,  \* keys of unconfirmed_cancel_order_ids
    reconciled,   \* pending_orders_reconciled
    attempted,    \* _last_cancel_attempt_cycle = cycle_count
    pc,           \* where step() awaits
    why,          \* who called cancel_orders_until_confirmed
    ids, todo,    \* its order ids; those not yet requested
    mine,         \* history: orders acknowledged to this process
    restarts

broker == <<book, open, stop>>
trade == <<active, sl>>
bars == <<expired, evaluated>>
slots == <<leg, unconfirmed>>
cancel == <<why, ids, todo>>
ghosts == <<mine, restarts>>
vars == <<broker, state, slots, bars, trade, reconciled, attempted, pc,
          cancel, ghosts>>

States == {"SEARCHING", "PENDING_PLACED", "IN_TRADE", "CANCEL_PENDING", "HALTED"}
Awaits == {"idle", "sync", "reconcile", "strays", "request", "confirm",
           "retry", "gate", "candles", "search", "place"}
Callers == {"adopt", "reconcile", "retry", "expire"}

Engine0 ==
    /\ state = "SEARCHING" /\ leg = None /\ active = None /\ sl = 0
    /\ expired = TRUE /\ evaluated = FALSE
    /\ unconfirmed = {} /\ reconciled = FALSE /\ attempted = FALSE
    /\ pc = "idle" /\ why = "retry" /\ ids = {} /\ todo = {} /\ mine = {}

Init ==
    /\ book = {} /\ open = {} /\ stop = [o \in Ids |-> 0]
    /\ restarts = 0
    /\ Engine0

\* _tracked_pending_order_ids
Tracked == {leg} \ {None}
-----------------------------------------------------------------------------
(* The start of a step and the reading of the positions.                    *)

Start ==
    /\ pc = "idle" /\ state # "HALTED"
    /\ pc' = "sync" /\ attempted' = FALSE
    /\ UNCHANGED <<broker, state, slots, bars, trade, reconciled, cancel,
                   ghosts>>

\* check_risk_limits ends the loop; whatever is pending stays at the broker.
Halt ==
    /\ pc = "idle" /\ state # "HALTED"
    /\ state' = "HALTED"
    /\ UNCHANGED <<broker, slots, bars, trade, reconciled, attempted, pc,
                   cancel, ghosts>>

\* Bug_ operators are defects a change could introduce; no action uses them.
\* Here: a failed read of the positions taken for an empty one.
Bug_UnknownIsFlat ==
    /\ pc = "sync" /\ pc' = "retry" /\ active' = None /\ sl' = 0
    /\ state' = IF state = "IN_TRADE" THEN "SEARCHING" ELSE state
    /\ UNCHANGED <<broker, slots, bars, reconciled, attempted, cancel, ghosts>>

PositionsUnknown ==
    /\ pc = "sync" /\ pc' = "retry"
    /\ UNCHANGED <<broker, state, slots, bars, trade, reconciled, attempted,
                   cancel, ghosts>>

\* griff_positions[0], with the stop loss the broker has for it.
Take == active' \in open /\ sl' = stop[active']

\* A GRIFF_ position is open, and already known to be.
Managed ==
    /\ pc = "sync" /\ state = "IN_TRADE"
    /\ Take
    /\ reconciled' = TRUE /\ pc' = "retry"
    /\ UNCHANGED <<broker, state, slots, bars, attempted, cancel, ghosts>>

\* A position is found: adopt it, and cancel what is still pending.
Adopt ==
    /\ pc = "sync" /\ state # "IN_TRADE"
    /\ Take
    /\ state' = "IN_TRADE"
    /\ pc' = "strays" /\ why' = "adopt"
    /\ UNCHANGED <<broker, slots, bars, reconciled, attempted, ids, todo,
                   ghosts>>

Flat ==
    /\ pc = "sync" /\ open = {}
    /\ IF state = "IN_TRADE"
       THEN state' = "SEARCHING" /\ active' = None /\ sl' = 0
       ELSE UNCHANGED <<state, trade>>
    /\ pc' = IF reconciled THEN "retry" ELSE "reconcile"
    /\ UNCHANGED <<broker, slots, bars, reconciled, attempted, cancel, ghosts>>
-----------------------------------------------------------------------------
(* Reading the order book, before a cancellation.                           *)

\* cancel_orders_until_confirmed begins.
Request(os) ==
    /\ ids' = os /\ todo' = os
    /\ pc' = "request" /\ attempted' = TRUE

\* reconcile_griff_pending_orders could not read the book.
ReconcileDeferred ==
    /\ pc = "reconcile" /\ BookFails
    /\ pc' = "retry"
    /\ UNCHANGED <<broker, state, slots, bars, trade, reconciled, attempted,
                   cancel, ghosts>>

\* Every order the process does not know of is to be cancelled.
Reconcile ==
    /\ pc = "reconcile"
    /\ LET untracked == book \ (Tracked \cup unconfirmed)
       IN  IF untracked = {}
           THEN /\ reconciled' = TRUE /\ pc' = "retry"
                /\ UNCHANGED <<attempted, cancel>>
           ELSE /\ Request(untracked) /\ why' = "reconcile"
                /\ UNCHANGED reconciled
    /\ UNCHANGED <<broker, state, slots, bars, trade, ghosts>>

\* The await is over and the caller goes on; ok: every id is confirmed gone.
Resume(caller, ok) ==
    CASE caller = "adopt" ->
            reconciled' = TRUE /\ pc' = "retry" /\ UNCHANGED state
      [] caller = "reconcile" ->
            /\ reconciled' = TRUE /\ pc' = "retry"
            /\ state' = IF ~ok /\ state = "SEARCHING" THEN "CANCEL_PENDING"
                                                      ELSE state
      [] caller = "retry" ->
            pc' = "gate" /\ UNCHANGED <<state, reconciled>>
      [] caller = "expire" ->
            /\ state' = IF ok THEN "SEARCHING" ELSE state
            /\ pc' = IF ok THEN "search" ELSE "idle"
            /\ UNCHANGED reconciled

\* cancel_pending_breakout_orders: what is tracked and, if the book can be
\* read, every other GRIFF_ order on it.
Strays ==
    /\ pc = "strays"
    /\ \E seen \in {book} \cup (IF BookFails THEN {{}} ELSE {}) :
         LET os == Tracked \cup unconfirmed \cup seen
         IN  IF os = {}
             THEN Resume(why, TRUE) /\ UNCHANGED <<attempted, cancel>>
             ELSE Request(os) /\ UNCHANGED <<state, reconciled, why>>
    /\ UNCHANGED <<broker, slots, bars, trade, ghosts>>
-----------------------------------------------------------------------------
(* cancel_orders_until_confirmed: one request after the other, then the book. *)

Requested(o) ==
    /\ pc = "request" /\ o \in todo
    /\ todo' = todo \ {o}
    /\ pc' = IF todo' = {} THEN "confirm" ELSE "request"
    /\ UNCHANGED <<open, stop, state, slots, bars, trade, reconciled, attempted,
                   why, ids, ghosts>>

Cancelled(o) == Requested(o) /\ book' = book \ {o}

\* Rejected ("Market is closed"), filled meanwhile, or no answer: the result
\* is not what decides.
Refused(o) == Requested(o) /\ UNCHANGED book

\* The order book lists r of the ids: these stay, the others are forgotten.
Settle(r) ==
    /\ unconfirmed' = (unconfirmed \ ids) \cup r
    /\ leg' = IF leg \in ids \ r THEN None ELSE leg
    /\ Resume(why, r = {})

\* An unreadable book taken for an empty one.
Bug_UnknownIsGone == Settle({})

Unread ==
    /\ unconfirmed' = unconfirmed \cup ids
    /\ UNCHANGED leg
    /\ Resume(why, FALSE)

Confirm ==
    /\ pc = "confirm"
    /\ Settle(ids \cap book)
    /\ ids' = {}
    /\ UNCHANGED <<broker, bars, trade, attempted, why, todo, ghosts>>

ConfirmUnread ==
    /\ pc = "confirm" /\ BookFails
    /\ Unread
    /\ ids' = {}
    /\ UNCHANGED <<broker, bars, trade, attempted, why, todo, ghosts>>
-----------------------------------------------------------------------------
(* The rest of a step.                                                      *)

\* A state no branch of step() knows.
Bug_Misspelt == IF state = "SEARCHING" /\ unconfirmed # {} THEN "CANCELING"
                                                          ELSE state

\* What is unconfirmed keeps the engine from searching.
Held == IF state = "SEARCHING" /\ unconfirmed # {} THEN "CANCEL_PENDING"
                                                  ELSE state

\* A retry that forgets the orders of an adopted trade.
Bug_RetryDue == Held = "CANCEL_PENDING" /\ ~attempted

\* One attempt in a cycle.
RetryDue ==
    /\ ~attempted
    /\ unconfirmed # {} \/ (Held = "CANCEL_PENDING" /\ leg # None)

Retry ==
    /\ pc = "retry"
    /\ state' = Held
    /\ IF ~RetryDue THEN pc' = "gate" /\ UNCHANGED <<attempted, cancel>>
       ELSE /\ why' = "retry"
            /\ IF Held = "CANCEL_PENDING"
               THEN pc' = "strays" /\ UNCHANGED <<attempted, ids, todo>>
               ELSE Request(unconfirmed)
    /\ UNCHANGED <<broker, slots, bars, trade, reconciled, ghosts>>

\* CANCEL_PENDING ends as soon as a cancel was tried.
Bug_StillHeld == FALSE

StillHeld == unconfirmed # {} \/ leg # None

Gate ==
    /\ pc = "gate"
    /\ IF state # "CANCEL_PENDING" THEN pc' = "candles" /\ UNCHANGED state
       ELSE IF StillHeld THEN pc' = "idle" /\ UNCHANGED state
       ELSE pc' = "candles" /\ state' = "SEARCHING"
    /\ UNCHANGED <<broker, slots, bars, trade, reconciled, attempted,
                   cancel, ghosts>>

\* No candles or too few of them, or nothing to do with the latest.
Hold ==
    /\ pc = "candles" /\ pc' = "idle"
    /\ UNCHANGED <<broker, state, slots, bars, trade, reconciled, attempted,
                   cancel, ghosts>>

\* The stop loss asked for is the structural one, loose or tight.
Bug_Candidate(c) == c

\* calculate_structural_trailing_stop, for a BUY whose bars give c.
Candidate(c) == IF c > sl THEN c ELSE sl

\* ratchet_trailing_stop, once a bar: modify_position is carried out and
\* answered, refused, or carried out after the engine stopped waiting.
Ratchet(c) ==
    /\ pc = "candles" /\ pc' = "idle"
    /\ state = "IN_TRADE" /\ ~evaluated /\ evaluated' = TRUE
    /\ \/ UNCHANGED <<stop, sl>>
       \/ /\ active \in open /\ Candidate(c) # sl
          /\ stop' = [stop EXCEPT ![active] = Candidate(c)]
          /\ sl' \in {Candidate(c)} \cup
                    (IF "modify" \in LostReplies THEN {sl} ELSE {})
    /\ UNCHANGED <<book, open, state, slots, expired, active, reconciled,
                   attempted, cancel, ghosts>>

\* Enough candles.
Scan ==
    /\ pc = "candles" /\ state # "IN_TRADE"
    /\ IF state = "PENDING_PLACED" /\ expired
       THEN state' = "CANCEL_PENDING" /\ pc' = "strays" /\ why' = "expire"
       ELSE /\ pc' = IF state = "SEARCHING" THEN "search" ELSE "idle"
            /\ UNCHANGED <<state, why>>
    /\ UNCHANGED <<broker, slots, bars, trade, reconciled, attempted, ids,
                   todo, ghosts>>

NoSetup ==
    /\ pc = "search" /\ pc' = "idle"
    /\ UNCHANGED <<broker, state, slots, bars, trade, reconciled, attempted,
                   cancel, ghosts>>

\* An inside bar with a trend: the latest bar is the setup's.
Setup ==
    /\ pc = "search" /\ pc' = "place"
    /\ expired' = FALSE
    /\ UNCHANGED <<broker, state, slots, evaluated, trade, reconciled, attempted,
                   cancel, ghosts>>

Fresh(o) == o \notin book \cup open \cup unconfirmed \cup ids \cup {leg, active}

Placed(o) ==
    /\ pc = "place" /\ Fresh(o)
    /\ book' = book \cup {o} /\ mine' = mine \cup {o}
    /\ leg' = o
    /\ state' = "PENDING_PLACED" /\ pc' = "idle"
    /\ UNCHANGED <<open, stop, unconfirmed, bars, trade, reconciled, attempted,
                   cancel, restarts>>

NotPlaced ==
    /\ pc = "place" /\ pc' = "idle"
    /\ UNCHANGED <<broker, state, slots, bars, trade, reconciled, attempted,
                   cancel, ghosts>>

\* The order is at work and the engine is told of an error.
PlacedUnheard(o) ==
    /\ "place" \in LostReplies
    /\ pc = "place" /\ Fresh(o)
    /\ book' = book \cup {o} /\ mine' = mine \ {o}
    /\ pc' = "idle"
    /\ UNCHANGED <<open, stop, state, slots, bars, trade, reconciled, attempted,
                   cancel, restarts>>
-----------------------------------------------------------------------------
(* The broker, the clock, the operator.                                     *)

engine == <<state, slots, trade, reconciled, attempted, pc, cancel>>

Fill(o) ==
    /\ o \in book
    /\ book' = book \ {o} /\ open' = open \cup {o}
    /\ UNCHANGED <<engine, stop, bars, ghosts>>

\* The position is stopped out, or closed by hand.
Close(o) ==
    /\ o \in open
    /\ open' = open \ {o} /\ stop' = [stop EXCEPT ![o] = 0]
    /\ UNCHANGED <<engine, book, bars, ghosts>>

\* An order is deleted by hand, or by a cancel that was slow to arrive.
Delete(o) ==
    /\ o \in book
    /\ book' = book \ {o}
    /\ UNCHANGED <<engine, open, stop, bars, ghosts>>

BarCloses ==
    /\ ~expired \/ evaluated
    /\ expired' = TRUE /\ evaluated' = FALSE
    /\ UNCHANGED <<engine, broker, ghosts>>

\* The process dies at any await, and is started again.
Restart ==
    /\ restarts < MaxRestarts /\ restarts' = restarts + 1
    /\ state' = "SEARCHING" /\ leg' = None /\ active' = None /\ sl' = 0
    /\ expired' = TRUE /\ evaluated' = FALSE
    /\ unconfirmed' = {} /\ reconciled' = FALSE /\ attempted' = FALSE
    /\ pc' = "idle" /\ why' = "retry" /\ ids' = {} /\ todo' = {} /\ mine' = {}
    /\ UNCHANGED broker
-----------------------------------------------------------------------------

Step ==
    \/ Start
    \/ PositionsUnknown \/ Managed \/ Adopt \/ Flat
    \/ ReconcileDeferred \/ Reconcile \/ Strays
    \/ \E o \in Ids : Cancelled(o) \/ Refused(o)
    \/ Confirm \/ ConfirmUnread
    \/ Retry \/ Gate \/ Hold \/ Scan \/ NoSetup \/ Setup
    \/ \E c \in 0..MaxStop : Ratchet(c)
    \/ \E o \in Ids : Placed(o) \/ PlacedUnheard(o)
    \/ NotPlaced

Next ==
    \/ Step \/ Halt \/ Restart \/ BarCloses
    \/ \E o \in Ids : Fill(o) \/ Close(o) \/ Delete(o)

Spec == Init /\ [][Next]_vars

\* run_loop starts a step every poll interval and every await has a timeout.
\* Bars close; the broker does not refuse, nor keep the book or the candles
\* from being read, for ever.
Fairness ==
    /\ WF_vars(Step)
    /\ WF_vars(BarCloses)
    /\ SF_vars(Confirm)
    /\ SF_vars(Scan)
    /\ \A o \in Ids : SF_vars(Cancelled(o))

FairSpec == Spec /\ Fairness
-----------------------------------------------------------------------------
(* What must hold.                                                          *)

\* The variables have their types.
TypeOK ==
    /\ book \subseteq Ids /\ open \subseteq Ids
    /\ state \in States
    /\ leg \in Ids \cup {None} /\ active \in Ids \cup {None}
    /\ stop \in [Ids -> 0..MaxStop] /\ sl \in 0..MaxStop
    /\ expired \in BOOLEAN /\ evaluated \in BOOLEAN
    /\ reconciled \in BOOLEAN /\ attempted \in BOOLEAN
    /\ unconfirmed \subseteq Ids /\ ids \subseteq Ids /\ todo \subseteq ids
    /\ pc \in Awaits /\ why \in Callers
    /\ mine \subseteq Ids
    /\ restarts \in 0..MaxRestarts

\* An order this process placed is forgotten only once the broker's book no
\* longer lists it, whatever was refused, unread or filled in between.
NothingForgotten == \A o \in mine \cap book : o = leg \/ o \in unconfirmed

\* A setup is placed only when no cancel is unfinished, no other setup is
\* pending and no position is managed.
PlacesEmptyHanded ==
    pc = "place" => leg = None /\ unconfirmed = {} /\ active = None

\* The engine gives a trade up only when no position of its is left at the
\* broker: an unread book of positions is not an empty one.
LeavesOnlyFlat ==
    [][state = "IN_TRADE" /\ state' \notin {"IN_TRADE", "HALTED"}
         /\ restarts' = restarts => open = {}]_vars

\* The engine's copy of the stop loss it manages is never tighter than the one
\* at the broker, whichever modifications are carried out unanswered and reads
\* fail: it never takes a trade for safer than it is, and no modification
\* brings the stop behind the copy it was computed from (1174-1198).
CopyNoTighter == active \in open => sl <= stop[active]

\* More is not kept: a modification computed from a copy that an unanswered one
\* has left behind moves the stop loss of a position away from the market.
NeverLoosened ==
    [][\A o \in open : stop'[o] >= stop[o] \/ o \notin open']_vars

\* The breakout window ends: a placed order is filled, deleted or cancelled in
\* the end, as long as its process lives and is not halted.
WindowEnds ==
    \A o \in Ids : o \in mine \cap book
                     ~> o \notin mine \cap book \/ state = "HALTED"

\* reconcile_griff_pending_orders: a restart has accounted for every GRIFF_
\* pending order, so none is at work with nobody tracking it.
AccountedFor == reconciled => book \subseteq Tracked \cup unconfirmed \cup ids
=============================================================================
