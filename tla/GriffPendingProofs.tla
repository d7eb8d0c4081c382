------------------------- MODULE GriffPendingProofs -------------------------
(***************************************************************************)
(* Proofs about GriffPending, for any set of order ids and any number of    *)
(* restarts and lost replies: no order is forgotten, none is placed on top  *)
(* of another, a trade is given up only when it is over, and it is never    *)
(* taken for better protected than it is.                                   *)
(***************************************************************************)
EXTENDS GriffPending, TLAPS

Cancelling == pc \in {"strays", "request", "confirm"}
Asked == pc \in {"request", "confirm"}

\* What each await knows of the state, and of the slots.
AwaitInv ==
    /\ state = "HALTED" => pc = "idle"
    /\ pc \in {"gate", "candles"} /\ state = "SEARCHING"
         => leg = None /\ unconfirmed = {}
    /\ pc \in {"search", "place"}
         => state = "SEARCHING" /\ leg = None /\ unconfirmed = {}
    /\ pc = "confirm" => todo = {}

\* Who called the cancellation, in which state, and for which orders.
CallerInv ==
    /\ Cancelling /\ why = "adopt" => state = "IN_TRADE"
    /\ Cancelling /\ why = "retry" => state # "SEARCHING"
    /\ Cancelling /\ why = "expire" => state = "CANCEL_PENDING"
    /\ Asked /\ why = "expire" => Tracked \cup unconfirmed \subseteq ids

\* A leg outlives its setup only while its cancel is asked for or unconfirmed.
LegInv ==
    /\ state = "SEARCHING" /\ leg # None => leg \in unconfirmed
    /\ state = "IN_TRADE" /\ leg # None =>
         \/ leg \in unconfirmed
         \/ Cancelling /\ why = "adopt" /\ (Asked => leg \in ids)

\* Only a trade has a position.
TradeInv ==
    state \in {"SEARCHING", "PENDING_PLACED", "CANCEL_PENDING"} => active = None

StateInv == AwaitInv /\ CallerInv /\ LegInv /\ TradeInv

\* An id is an order's, then a position's, so that no fill gives the copy of the
\* stop loss another position to belong to.
StopInv ==
    /\ book \cap open = {}
    /\ active \notin book
    /\ CopyNoTighter

IInv == TypeOK /\ StateInv /\ NothingForgotten

USE GriffAssumption
-----------------------------------------------------------------------------
(* Types.                                                                   *)

\* The initial state is of the right type.
LEMMA InitType == Init => TypeOK
<1> SUFFICES ASSUME Init PROVE TypeOK
  OBVIOUS
<1> USE DEF Init, Engine0
<1>1. stop \in [Ids -> 0..MaxStop] /\ sl \in 0..MaxStop
  OBVIOUS
<1>2. restarts \in 0..MaxRestarts
  OBVIOUS
<1>3. state \in States /\ pc \in Awaits /\ why \in Callers
  BY DEF States, Awaits, Callers
<1> QED
  BY <1>1, <1>2, <1>3 DEF TypeOK

\* Going on after a cancellation keeps the types of what it sets.
LEMMA ResumeType ==
    ASSUME TypeOK, NEW ok \in BOOLEAN, Resume(why, ok)
    PROVE  state' \in States /\ pc' \in Awaits /\ reconciled' \in BOOLEAN
<1>1. CASE why = "adopt"
  BY <1>1 DEF Resume, TypeOK, States, Awaits
<1>2. CASE why = "reconcile"
  BY <1>2 DEF Resume, TypeOK, States, Awaits
<1>3. CASE why = "retry"
  BY <1>3 DEF Resume, TypeOK, States, Awaits
<1>4. CASE why = "expire"
  BY <1>4 DEF Resume, TypeOK, States, Awaits
<1> QED
  BY <1>1, <1>2, <1>3, <1>4 DEF TypeOK, Callers

\* Every step keeps the types.
LEMMA StepType == TypeOK /\ AwaitInv /\ [Next]_vars => TypeOK'
<1> SUFFICES ASSUME TypeOK, AwaitInv, [Next]_vars PROVE TypeOK'
  OBVIOUS
<1> USE DEF TypeOK, States, Awaits, Callers, broker, slots, trade, bars,
            cancel, ghosts, engine
<1>1. CASE Start
  BY <1>1 DEF Start
<1>2. CASE PositionsUnknown
  BY <1>2 DEF PositionsUnknown
<1>3. CASE Managed
  BY <1>3 DEF Managed, Take
<1>4. CASE Adopt
  BY <1>4 DEF Adopt, Take
<1>5. CASE Flat
  BY <1>5 DEF Flat
<1>6. CASE ReconcileDeferred
  BY <1>6 DEF ReconcileDeferred
<1>7. CASE Reconcile
  BY <1>7 DEF Reconcile, Request, Tracked
<1>8. CASE Strays
  <2>1. PICK seen \in {book} \cup (IF BookFails THEN {{}} ELSE {}) :
          LET os == Tracked \cup unconfirmed \cup seen
          IN  IF os = {}
              THEN Resume(why, TRUE) /\ UNCHANGED <<attempted, cancel>>
              ELSE Request(os) /\ UNCHANGED <<state, reconciled, why>>
    BY <1>8 DEF Strays
  <2>2. CASE Tracked \cup unconfirmed \cup seen = {}
    <3>1. Resume(why, TRUE) /\ UNCHANGED <<attempted, cancel>>
      BY <2>1, <2>2
    <3>2. state' \in States /\ pc' \in Awaits /\ reconciled' \in BOOLEAN
      BY <3>1, ResumeType
    <3> QED
      BY <1>8, <3>1, <3>2 DEF Strays
  <2>3. CASE Tracked \cup unconfirmed \cup seen # {}
    <3>1. Tracked \cup unconfirmed \cup seen \subseteq Ids
      BY DEF Tracked
    <3> QED
      BY <1>8, <2>1, <2>3, <3>1 DEF Strays, Request
  <2> QED
    BY <2>2, <2>3
<1>9. ASSUME NEW o \in Ids, Cancelled(o) \/ Refused(o) PROVE TypeOK'
  BY <1>9 DEF Cancelled, Refused, Requested
<1>10. CASE Confirm
  <2>1. state' \in States /\ pc' \in Awaits /\ reconciled' \in BOOLEAN
    <3>1. Resume(why, ids \cap book = {}) /\ (ids \cap book = {}) \in BOOLEAN
      BY <1>10 DEF Confirm, Settle
    <3> QED
      BY <3>1, ResumeType
  <2> QED
    BY <1>10, <2>1 DEF Confirm, Settle, AwaitInv
<1>11. CASE ConfirmUnread
  <2>1. state' \in States /\ pc' \in Awaits /\ reconciled' \in BOOLEAN
    BY <1>11, ResumeType DEF ConfirmUnread, Unread
  <2> QED
    BY <1>11, <2>1 DEF ConfirmUnread, Unread, AwaitInv
<1>12. CASE Retry
  BY <1>12 DEF Retry, Held, Request
<1>13. CASE Gate
  BY <1>13 DEF Gate
<1>14. CASE Hold
  BY <1>14 DEF Hold
<1>15. CASE Scan
  BY <1>15 DEF Scan
<1>16. CASE NoSetup \/ Setup \/ NotPlaced
  BY <1>16 DEF NoSetup, Setup, NotPlaced
<1>17. ASSUME NEW c \in 0..MaxStop, Ratchet(c) PROVE TypeOK'
  <2>1. Candidate(c) \in 0..MaxStop
    BY DEF Candidate
  <2> QED
    BY <1>17, <2>1 DEF Ratchet
<1>18. ASSUME NEW o \in Ids, Placed(o) \/ PlacedUnheard(o) PROVE TypeOK'
  BY <1>18 DEF Placed, PlacedUnheard
<1>19. CASE Halt
  BY <1>19 DEF Halt
<1>20. CASE Restart
  <2>1. restarts + 1 \in 0..MaxRestarts /\ 0 \in 0..MaxStop
    BY <1>20 DEF Restart
  <2> QED
    BY <1>20, <2>1 DEF Restart
<1>21. CASE BarCloses
  BY <1>21 DEF BarCloses
<1>22. ASSUME NEW o \in Ids, Fill(o) \/ Close(o) \/ Delete(o) PROVE TypeOK'
  BY <1>22 DEF Fill, Close, Delete
<1>23. CASE UNCHANGED vars
  BY <1>23 DEF vars
<1> QED
  BY <1>1, <1>2, <1>3, <1>4, <1>5, <1>6, <1>7, <1>8, <1>9, <1>10, <1>11,
     <1>12, <1>13, <1>14, <1>15, <1>16, <1>17, <1>18, <1>19, <1>20, <1>21,
     <1>22, <1>23 DEF Next, Step
-----------------------------------------------------------------------------
(* What the engine knows.                                                   *)

\* A cancellation returns to its caller; r lists what is still at work.
LEMMA SettleState ==
    ASSUME TypeOK, StateInv, pc = "confirm", NEW r \in SUBSET ids, Settle(r),
           ids' = {}, UNCHANGED <<active, why, todo>>
    PROVE  StateInv'
<1> USE DEF TypeOK, Settle, Resume, StateInv, CallerInv, LegInv, Cancelling,
            Asked
<1>1. leg' # None => leg' = leg /\ (leg \in unconfirmed \cup ids => leg \in unconfirmed')
  OBVIOUS
<1>2. CASE why = "adopt"
  BY <1>1, <1>2 DEF AwaitInv, TradeInv
<1>3. CASE why = "reconcile"
  BY <1>1, <1>3 DEF AwaitInv, TradeInv
<1>4. CASE why = "retry"
  BY <1>1, <1>4 DEF AwaitInv, TradeInv
<1>5. CASE why = "expire"
  <2>1. r = {} => leg' = None /\ unconfirmed' = {}
    BY <1>5 DEF Tracked
  <2>2. state = "CANCEL_PENDING" /\ active = None
    BY <1>5 DEF TradeInv
  <2> QED
    BY <1>5, <2>1, <2>2 DEF AwaitInv, TradeInv
<1> QED
  BY <1>2, <1>3, <1>4, <1>5 DEF Callers

\* So does one that could not read the book.
LEMMA UnreadState ==
    ASSUME TypeOK, StateInv, pc = "confirm", Unread,
           ids' = {}, UNCHANGED <<active, why, todo>>
    PROVE  StateInv'
<1> USE DEF TypeOK, Unread, Resume, StateInv, CallerInv, LegInv, Cancelling,
            Asked
<1>1. CASE why = "adopt"
  BY <1>1 DEF AwaitInv, TradeInv
<1>2. CASE why = "reconcile"
  BY <1>2 DEF AwaitInv, TradeInv
<1>3. CASE why = "retry"
  BY <1>3 DEF AwaitInv, TradeInv
<1>4. CASE why = "expire"
  BY <1>4 DEF AwaitInv, TradeInv
<1> QED
  BY <1>1, <1>2, <1>3, <1>4 DEF Callers

\* And one that had nothing to cancel.
LEMMA NothingToCancel ==
    ASSUME TypeOK, StateInv, pc = "strays", leg = None, unconfirmed = {},
           Resume(why, TRUE),
           UNCHANGED <<slots, active, why, ids, todo>>
    PROVE  StateInv'
<1> USE DEF TypeOK, Resume, StateInv, CallerInv, LegInv, Cancelling, Asked, slots
<1>1. CASE why = "adopt"
  BY <1>1 DEF AwaitInv, TradeInv
<1>2. CASE why = "reconcile"
  BY <1>2 DEF AwaitInv, TradeInv
<1>3. CASE why = "retry"
  BY <1>3 DEF AwaitInv, TradeInv
<1>4. CASE why = "expire"
  BY <1>4 DEF AwaitInv, TradeInv
<1> QED
  BY <1>1, <1>2, <1>3, <1>4 DEF Callers

\* Every step keeps what the engine knows.
LEMMA StepState == TypeOK /\ StateInv /\ [Next]_vars => StateInv'
<1> SUFFICES ASSUME TypeOK, StateInv, [Next]_vars PROVE StateInv'
  OBVIOUS
<1>a. ASSUME UNCHANGED <<state, slots, trade, pc, cancel>> PROVE StateInv'
  BY <1>a DEF StateInv, AwaitInv, CallerInv, LegInv, TradeInv, Cancelling,
              Asked, Tracked, slots, trade, cancel
<1> USE DEF StateInv, broker, slots, trade, bars, cancel, ghosts, engine
<1>1. CASE Start \/ Halt \/ PositionsUnknown \/ ReconcileDeferred
  BY <1>1 DEF Start, Halt, PositionsUnknown, ReconcileDeferred, AwaitInv,
              CallerInv, LegInv, TradeInv, Cancelling, Asked
<1>2. CASE Managed
  BY <1>2 DEF Managed, Take, AwaitInv, CallerInv, LegInv, TradeInv, Cancelling,
              Asked
<1>3. CASE Adopt
  BY <1>3 DEF Adopt, Take, AwaitInv, CallerInv, LegInv, TradeInv, Cancelling,
              Asked
<1>4. CASE Flat
  BY <1>4 DEF Flat, AwaitInv, CallerInv, LegInv, TradeInv, Cancelling, Asked
<1>5. CASE Reconcile
  BY <1>5 DEF Reconcile, Request, AwaitInv, CallerInv, LegInv, TradeInv,
              Cancelling, Asked
<1>6. CASE Strays
  <2>1. PICK seen \in {book} \cup (IF BookFails THEN {{}} ELSE {}) :
          LET os == Tracked \cup unconfirmed \cup seen
          IN  IF os = {}
              THEN Resume(why, TRUE) /\ UNCHANGED <<attempted, cancel>>
              ELSE Request(os) /\ UNCHANGED <<state, reconciled, why>>
    BY <1>6 DEF Strays
  <2>2. pc = "strays" /\ UNCHANGED <<slots, trade>>
    BY <1>6 DEF Strays
  <2>3. CASE Tracked \cup unconfirmed \cup seen = {}
    <3>1. leg = None /\ unconfirmed = {}
      BY <2>3 DEF Tracked
    <3>2. Resume(why, TRUE) /\ UNCHANGED <<slots, active, why, ids, todo>>
      BY <2>1, <2>2, <2>3
    <3> QED
      BY <2>2, <3>1, <3>2, NothingToCancel
  <2>4. CASE Tracked \cup unconfirmed \cup seen # {}
    <3>1. /\ Request(Tracked \cup unconfirmed \cup seen)
          /\ UNCHANGED <<state, why, leg, unconfirmed, active>>
      BY <2>1, <2>2, <2>4
    <3>2. AwaitInv' /\ TradeInv'
      BY <2>2, <3>1 DEF Request, AwaitInv, TradeInv
    <3>3. Tracked' = Tracked /\ (leg # None => leg \in Tracked)
      BY <3>1 DEF Tracked
    <3>4. CallerInv'
      BY <2>2, <3>1, <3>3 DEF Request, CallerInv, Cancelling, Asked
    <3>5. LegInv'
      BY <2>2, <3>1, <3>3 DEF Request, LegInv, Cancelling, Asked
    <3> QED
      BY <3>2, <3>4, <3>5
  <2> QED
    BY <2>3, <2>4
<1>7. ASSUME NEW o \in Ids, Cancelled(o) \/ Refused(o) PROVE StateInv'
  <2>1. UNCHANGED <<state, leg, unconfirmed, active, why, ids>> /\ pc = "request"
    BY <1>7 DEF Cancelled, Refused, Requested
  <2>2. pc' \in {"request", "confirm"} /\ (pc' = "confirm" => todo' = {})
    BY <1>7 DEF Cancelled, Refused, Requested
  <2> QED
    BY <2>1, <2>2 DEF AwaitInv, CallerInv, LegInv, TradeInv, Cancelling, Asked,
                      Tracked
<1>8. CASE Confirm
  BY <1>8, SettleState DEF Confirm
<1>9. CASE ConfirmUnread
  BY <1>9, UnreadState DEF ConfirmUnread
<1>10. CASE Retry
  BY <1>10 DEF Retry, Held, RetryDue, Request, AwaitInv, CallerInv, LegInv,
               TradeInv, Cancelling, Asked
<1>11. CASE Gate
  BY <1>11 DEF Gate, StillHeld, AwaitInv, CallerInv, LegInv, TradeInv,
               Cancelling, Asked
<1>12. CASE Hold \/ NoSetup \/ Setup \/ NotPlaced
  BY <1>12 DEF Hold, NoSetup, Setup, NotPlaced, AwaitInv, CallerInv, LegInv,
               TradeInv, Cancelling, Asked
<1>13. CASE Scan
  BY <1>13 DEF Scan, AwaitInv, CallerInv, LegInv, TradeInv, Cancelling, Asked
<1>14. ASSUME NEW c \in 0..MaxStop, Ratchet(c) PROVE StateInv'
  BY <1>14 DEF Ratchet, AwaitInv, CallerInv, LegInv, TradeInv, Cancelling, Asked
<1>15. ASSUME NEW o \in Ids, Placed(o) \/ PlacedUnheard(o) PROVE StateInv'
  BY <1>15 DEF Placed, PlacedUnheard, AwaitInv, CallerInv, LegInv, TradeInv,
               Cancelling, Asked
<1>16. CASE Restart
  BY <1>16 DEF Restart, AwaitInv, CallerInv, LegInv, TradeInv, Cancelling, Asked
<1>17. CASE BarCloses
  BY <1>a, <1>17 DEF BarCloses
<1>18. ASSUME NEW o \in Ids, Fill(o) \/ Close(o) \/ Delete(o) PROVE StateInv'
  BY <1>a, <1>18 DEF Fill, Close, Delete
<1>19. CASE UNCHANGED vars
  BY <1>a, <1>19 DEF vars
<1> QED
  BY <1>1, <1>2, <1>3, <1>4, <1>5, <1>6, <1>7, <1>8, <1>9, <1>10, <1>11,
     <1>12, <1>13, <1>14, <1>15, <1>16, <1>17, <1>18, <1>19 DEF Next, Step
-----------------------------------------------------------------------------
(* No order is forgotten.                                                   *)

\* An order can only leave leg and unconfirmed when the book does not have it.
LEMMA StepForgotten == IInv /\ [Next]_vars => NothingForgotten'
<1> SUFFICES ASSUME IInv, [Next]_vars PROVE NothingForgotten'
  OBVIOUS
<1> USE DEF IInv, broker, slots, ghosts, engine
<1>a. ASSUME mine' \cap book' \subseteq mine \cap book, UNCHANGED slots
      PROVE  NothingForgotten'
  BY <1>a DEF NothingForgotten
<1>1. CASE Start \/ PositionsUnknown \/ Managed \/ Adopt \/ Flat
  BY <1>a, <1>1 DEF Start, PositionsUnknown, Managed, Adopt, Flat
<1>2. CASE ReconcileDeferred \/ Reconcile \/ Strays
  BY <1>a, <1>2 DEF ReconcileDeferred, Reconcile, Strays
<1>3. ASSUME NEW o \in Ids, Cancelled(o) \/ Refused(o) PROVE NothingForgotten'
  BY <1>a, <1>3 DEF Cancelled, Refused, Requested
<1>4. CASE Confirm
  <2>1. UNCHANGED <<mine, book>> /\ Settle(ids \cap book)
    BY <1>4 DEF Confirm
  <2> QED
    BY <2>1 DEF Settle, NothingForgotten
<1>5. CASE ConfirmUnread
  BY <1>5 DEF ConfirmUnread, Unread, NothingForgotten
<1>6. CASE Retry \/ Gate \/ Hold \/ Scan \/ NoSetup \/ Setup \/ NotPlaced
  BY <1>a, <1>6 DEF Retry, Gate, Hold, Scan, NoSetup, Setup, NotPlaced
<1>7. ASSUME NEW c \in 0..MaxStop, Ratchet(c) PROVE NothingForgotten'
  BY <1>a, <1>7 DEF Ratchet
<1>8. ASSUME NEW o \in Ids, Placed(o) PROVE NothingForgotten'
  <2>1. leg = None /\ unconfirmed = {}
    BY <1>8 DEF Placed, StateInv, AwaitInv
  <2>2. \A q \in mine \cap book : FALSE
    BY <2>1 DEF NothingForgotten, TypeOK
  <2> QED
    BY <1>8, <2>2 DEF Placed, Fresh, NothingForgotten
<1>9. ASSUME NEW o \in Ids, PlacedUnheard(o) PROVE NothingForgotten'
  BY <1>a, <1>9 DEF PlacedUnheard
<1>10. CASE Halt \/ BarCloses
  BY <1>a, <1>10 DEF Halt, BarCloses
<1>11. CASE Restart
  BY <1>11 DEF Restart, NothingForgotten
<1>12. ASSUME NEW o \in Ids, Fill(o) \/ Close(o) \/ Delete(o)
       PROVE  NothingForgotten'
  BY <1>a, <1>12 DEF Fill, Close, Delete
<1>13. CASE UNCHANGED vars
  BY <1>a, <1>13 DEF vars
<1> QED
  BY <1>1, <1>2, <1>3, <1>4, <1>5, <1>6, <1>7, <1>8, <1>9, <1>10, <1>11,
     <1>12, <1>13 DEF Next, Step

\* The inductive invariant holds in every reachable state.
LEMMA Invariance == Spec => []IInv
<1>1. Init => IInv
  <2>1. Init => StateInv /\ NothingForgotten
    BY DEF Init, Engine0, StateInv, AwaitInv, CallerInv, LegInv, TradeInv,
           Cancelling, Asked, NothingForgotten
  <2> QED
    BY <2>1, InitType DEF IInv
<1>2. IInv /\ [Next]_vars => IInv'
  BY StepType, StepState, StepForgotten DEF IInv, StateInv
<1> QED
  BY <1>1, <1>2, PTL DEF Spec

\* The variables have their types.
THEOREM TypeCorrect == Spec => []TypeOK
BY Invariance, PTL DEF IInv

\* What this process placed and the broker still works is tracked.
THEOREM KeepsTrack == Spec => []NothingForgotten
BY Invariance, PTL DEF IInv

\* A setup is placed only by an engine with nothing in hand.
THEOREM EmptyHanded == Spec => []PlacesEmptyHanded
<1>1. IInv => PlacesEmptyHanded
  BY DEF IInv, StateInv, AwaitInv, TradeInv, PlacesEmptyHanded
<1> QED
  BY <1>1, Invariance, PTL

\* Only a book read to be empty ends a trade.
THEOREM TradesEndFlat == Spec => LeavesOnlyFlat
<1> DEFINE Leaves == state = "IN_TRADE" /\ state' \notin {"IN_TRADE", "HALTED"}
                       /\ restarts' = restarts => open = {}
<1>1. IInv /\ [Next]_vars => [Leaves]_vars
  <2> SUFFICES ASSUME IInv, [Next]_vars, state = "IN_TRADE",
                      state' \notin {"IN_TRADE", "HALTED"}, restarts' = restarts
               PROVE  open = {}
    OBVIOUS
  <2> USE DEF IInv, StateInv, engine, slots
  <2>1. CASE Start \/ PositionsUnknown \/ Managed \/ Adopt \/ Halt \/ BarCloses
    BY <2>1 DEF Start, PositionsUnknown, Managed, Adopt, Halt, BarCloses
  <2>2. CASE Flat
    BY <2>2 DEF Flat
  <2>3. CASE ReconcileDeferred \/ Reconcile
    BY <2>3 DEF ReconcileDeferred, Reconcile
  <2>4. CASE Strays
    BY <2>4 DEF Strays, Resume, TypeOK, Callers, CallerInv, Cancelling
  <2>5. ASSUME NEW o \in Ids, Cancelled(o) \/ Refused(o) PROVE open = {}
    BY <2>5 DEF Cancelled, Refused, Requested
  <2>6. CASE Confirm
    BY <2>6 DEF Confirm, Settle, Resume, TypeOK, Callers, CallerInv, Cancelling
  <2>7. CASE ConfirmUnread
    BY <2>7 DEF ConfirmUnread, Unread, Resume, TypeOK, Callers, CallerInv,
                Cancelling
  <2>8. CASE Retry \/ Gate \/ Hold \/ Scan \/ NoSetup \/ Setup \/ NotPlaced
    BY <2>8 DEF Retry, Held, Gate, Hold, Scan, NoSetup, Setup, NotPlaced
  <2>9. ASSUME NEW c \in 0..MaxStop, Ratchet(c) PROVE open = {}
    BY <2>9 DEF Ratchet
  <2>10. ASSUME NEW o \in Ids, Placed(o) \/ PlacedUnheard(o) PROVE open = {}
    BY <2>10 DEF Placed, PlacedUnheard, AwaitInv
  <2>11. CASE Restart
    BY <2>11 DEF Restart, TypeOK
  <2>12. ASSUME NEW o \in Ids, Fill(o) \/ Close(o) \/ Delete(o) PROVE open = {}
    BY <2>12 DEF Fill, Close, Delete
  <2>13. CASE UNCHANGED vars
    BY <2>13 DEF vars
  <2> QED
    BY <2>1, <2>2, <2>3, <2>4, <2>5, <2>6, <2>7, <2>8, <2>9, <2>10, <2>11,
       <2>12, <2>13 DEF Next, Step
<1>2. LeavesOnlyFlat <=> [][Leaves]_vars
  BY DEF LeavesOnlyFlat
<1> QED
  BY <1>1, <1>2, Invariance, PTL DEF Spec
-----------------------------------------------------------------------------
(* The stop loss.                                                           *)

\* Every step keeps it: a modification raises the stop loss above the copy, and
\* the copy rises with it or stays.
LEMMA StepStop == IInv /\ StopInv /\ [Next]_vars => StopInv'
<1> SUFFICES ASSUME IInv, StopInv, [Next]_vars PROVE StopInv'
  OBVIOUS
<1> USE DEF IInv, TypeOK, StopInv, CopyNoTighter, broker, trade, engine
<1>a. ASSUME book' \subseteq book, UNCHANGED <<open, stop, trade>> PROVE StopInv'
  BY <1>a
<1>1. CASE Start \/ PositionsUnknown \/ Halt \/ BarCloses
  BY <1>a, <1>1 DEF Start, PositionsUnknown, Halt, BarCloses
<1>2. CASE Managed \/ Adopt
  BY <1>2 DEF Managed, Adopt, Take
<1>3. CASE Flat
  BY <1>3 DEF Flat
<1>4. CASE ReconcileDeferred \/ Reconcile \/ Strays
  BY <1>a, <1>4 DEF ReconcileDeferred, Reconcile, Strays
<1>5. ASSUME NEW o \in Ids, Cancelled(o) \/ Refused(o) PROVE StopInv'
  BY <1>a, <1>5 DEF Cancelled, Refused, Requested
<1>6. CASE Confirm \/ ConfirmUnread
  BY <1>a, <1>6 DEF Confirm, ConfirmUnread
<1>7. CASE Retry \/ Gate \/ Hold \/ Scan \/ NoSetup \/ Setup \/ NotPlaced
  BY <1>a, <1>7 DEF Retry, Gate, Hold, Scan, NoSetup, Setup, NotPlaced
<1>8. ASSUME NEW c \in 0..MaxStop, Ratchet(c) PROVE StopInv'
  BY <1>8 DEF Ratchet, Candidate
<1>9. ASSUME NEW o \in Ids, Placed(o) \/ PlacedUnheard(o) PROVE StopInv'
  BY <1>9 DEF Placed, PlacedUnheard, Fresh
<1>10. CASE Restart
  BY <1>10 DEF Restart
<1>11. ASSUME NEW o \in Ids, Fill(o) \/ Close(o) \/ Delete(o) PROVE StopInv'
  BY <1>11 DEF Fill, Close, Delete
<1>12. CASE UNCHANGED vars
  BY <1>a, <1>12 DEF vars
<1> QED
  BY <1>1, <1>2, <1>3, <1>4, <1>5, <1>6, <1>7, <1>8, <1>9, <1>10, <1>11,
     <1>12 DEF Next, Step

\* The engine never takes a position for better protected than it is, also when
\* modifications are carried out and not answered (griff_engine_live.py:1174-1198).
THEOREM NeverOverstates == Spec => []CopyNoTighter
<1>1. Init => StopInv
  BY DEF Init, Engine0, StopInv, CopyNoTighter
<1>2. StopInv => CopyNoTighter
  BY DEF StopInv
<1> QED
  BY <1>1, <1>2, StepStop, Invariance, PTL DEF Spec
=============================================================================
