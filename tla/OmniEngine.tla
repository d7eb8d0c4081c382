----------------------------- MODULE OmniEngine -----------------------------
(***************************************************************************)
(* omni_breakout_engine.py: the US open breakout engine.  One loop, whose   *)
(* awaits are the values of pc:                                             *)
(*                                                                          *)
(*   top       a new iteration          read      fetch_positions_safe      *)
(*   cancel    cancel_pending_orders    modify    the trailing stop's send  *)
(*   flatten   flatten_all_positions    enter     execute_open, or the long *)
(*   quote     range, price, account              stop order                *)
(*   hedge     hedge_all_positions'     enter2    the short stop order      *)
(*             read; lock, its order    oco       cancelling what rests     *)
(*                                                                          *)
(* "session" is 14:00-19:45 UTC, "close" the rest of the day.               *)
(***************************************************************************)
EXTENDS SessionBroker

CONSTANTS
    OrbHigh, OrbLow,  \* the opening range
    Buffer,           \* buffer_pts, beyond which the stop orders rest
    SlPts,            \* distance of an entry's stop
    TrailPts,         \* trail_dist and trigger_pts, both 15.0
    MaxFaults,        \* floor breaches, restarts and late modifications (bound)
    MaxOrders         \* resting orders (bound)

ASSUME OmniAssumption ==
    /\ OrbHigh \in Levels /\ OrbLow \in Levels /\ OrbLow < OrbHigh
    /\ {Buffer, SlPts, TrailPts, MaxFaults, MaxOrders} \subseteq Nat

VARIABLES
    mode,      \* entry_mode: "stop" is stop_order_at_range, "market" the others
    pc,
    state,     \* BreakoutState: side, entry_price and broker_sl, 0 when unset
    halted,    \* trading_halted_for_day
    flatLogged,\* eod_flattened_logged
    orbDay,    \* the day of orb_date, 0 for 1970-01-01
    pending,   \* time.time() < order_pending_until
    seen,      \* what the iteration has read: day (0 outside the session), price, pos_id, net
    faults,    \* floor breaches, restarts and late modifications so far
    late       \* modifications that have timed out here and are still on their way

\* What only a modification and its delay change, and the mode of the run.
aside == <<mode, late>>
engineVars == <<pc, state, halted, flatLogged, orbDay, pending, seen>>
vars == <<brokerVars, engineVars, aside, faults>>

Labels == {"top", "cancel", "flatten", "quote", "hedge", "lock",
           "read", "modify", "enter", "enter2", "oco"}
NoState == [side |-> 0, entry |-> 0, sl |-> 0]
Unseen == [day |-> 0, price |-> 0, id |-> 0, net |-> 0]

TypeOK ==
    /\ BrokerTypeOK
    /\ mode \in {"stop", "market"} /\ pc \in Labels
    /\ state \in [side: {-1, 0, 1}, entry: {0} \cup Levels, sl: Int]
    /\ {halted, flatLogged, pending} \subseteq BOOLEAN
    /\ orbDay \in 0 .. MaxDays /\ faults \in 0 .. MaxFaults
    /\ seen \in [day: 0 .. MaxDays, price: {0} \cup Levels, id: 0 .. MaxTrades, net: Int]
    /\ late \subseteq [id: 1 .. MaxTrades, stop: Int]

EngineStart == /\ pc' = "top" /\ state' = NoState /\ seen' = Unseen
               /\ halted' = FALSE /\ flatLogged' = FALSE /\ orbDay' = 0 /\ pending' = FALSE

Init ==
    /\ BrokerInit
    /\ mode \in {"stop", "market"}
    /\ pc = "top" /\ state = NoState /\ seen = Unseen
    /\ halted = FALSE /\ flatLogged = FALSE /\ orbDay = 0 /\ pending = FALSE
    /\ faults = 0 /\ late = {}

Goto(l) == pc' = l
\* The end of an iteration; what it has read is not used again.
Again == pc' = "top" /\ seen' = Unseen

\* is_eod_window
EodWindow(ph) == ph = "close"

-----------------------------------------------------------------------------
Top ==
    /\ pc = "top"
    /\ seen' = [Unseen EXCEPT !.day = IF phase = "session" THEN day ELSE 0]
    /\ halted' = (halted \/ EodWindow(phase))
    /\ Goto(IF EodWindow(phase) THEN "cancel" ELSE "quote")
    /\ UNCHANGED <<brokerVars, aside, faults, state, flatLogged, orbDay, pending>>

\* fetch_orders_safe: what rests, or no answer.
OrdersRead == {Resting, {}}

Bug_Cancel ==
    /\ pc = "cancel"
    /\ \E read \in OrdersRead : \E gone \in SUBSET read : CancelSome(gone)
    /\ Goto(IF flatLogged THEN "quote" ELSE "flatten")
    /\ UNCHANGED <<phase, day, price, positions, trades, aside, faults, state, halted,
                   flatLogged, orbDay, pending, seen>>

\* cancel_pending_orders: the read may fail, and each cancel may.
Cancel ==
    /\ pc = "cancel"
    /\ \E read \in OrdersRead : \E gone \in SUBSET read : CancelSome(gone)
    /\ Goto(IF state.side # 0 \/ ~flatLogged THEN "flatten" ELSE "quote")
    /\ UNCHANGED <<phase, day, price, positions, trades, aside, faults, state, halted,
                   flatLogged, orbDay, pending, seen>>

\* flatten_all_positions answers True when nothing failed, and nothing fails
\* when the positions could not be read.
FlattenResult(closed, readable) == ~readable \/ closed = OwnIds

Flatten ==
    /\ pc = "flatten"
    /\ \E readable \in BOOLEAN, closed \in SUBSET OwnIds, lost \in BOOLEAN :
         LET gone == IF readable THEN closed ELSE {}
             ok == FlattenResult(closed, readable) /\ ~lost
         IN /\ positions' = {p \in positions : p.id \notin gone}
            /\ flatLogged' = (flatLogged \/ ok)
            /\ state' = IF ok THEN [state EXCEPT !.side = 0, !.sl = 0] ELSE state
    /\ Goto("quote")
    /\ UNCHANGED <<phase, day, price, orders, trades, aside, faults, halted, orbDay, pending, seen>>

\* get_us_open_range_levels: levels, or none when a candle or the answer is missing.
RangeFound == BOOLEAN

\* What an iteration asks before it reads the positions: the opening range of
\* the day (until 20:00 in the code, but from 19:45 nothing enters any more), the
\* price, and the account for the floor check; one that cannot be read counts as
\* the start-of-day equity.
OpeningRange ==
    \E found \in RangeFound : orbDay' = IF found /\ seen.day # 0 THEN seen.day ELSE orbDay

QuoteFails ==
    /\ pc = "quote" /\ OpeningRange /\ Again
    /\ UNCHANGED <<brokerVars, aside, faults, state, halted, flatLogged, pending>>

Quote ==
    /\ pc = "quote" /\ OpeningRange
    /\ seen' = [seen EXCEPT !.price = price]
    /\ \/ Goto("read") /\ UNCHANGED faults
       \/ faults < MaxFaults /\ faults' = faults + 1 /\ Goto("hedge")
    /\ UNCHANGED <<brokerVars, aside, state, halted, flatLogged, pending>>

\* hedge_all_positions: the account's net exposure, read and then sold.
Hedge ==
    /\ pc = "hedge"
    /\ \/ Net # 0 /\ seen' = [seen EXCEPT !.net = Net] /\ Goto("lock")
       \/ Again
    /\ UNCHANGED <<brokerVars, aside, faults, state, halted, flatLogged, orbDay, pending>>

\* The order has no stop of its own: route_order puts one 2.5 percent away.
Bug_Volume(net) == net
Volume(net) == IF net > 0 THEN net ELSE -net
FarStop(side) == IF side = 1 THEN 0 ELSE MaxLevel + 1
Lock ==
    /\ pc = "lock"
    /\ LET side == IF seen.net > 0 THEN -1 ELSE 1
       IN \/ MarketFill(side, FarStop(side), Volume(seen.net), FALSE)
          \/ UNCHANGED <<positions, trades>>
    /\ Again
    /\ UNCHANGED <<phase, day, price, orders, aside, faults, state, halted, flatLogged, orbDay, pending>>

Bug_ReadFails ==
    /\ pc = "read" /\ state' = [state EXCEPT !.side = 0]
    /\ IF halted THEN Again ELSE Goto("enter") /\ UNCHANGED seen
    /\ UNCHANGED <<brokerVars, aside, faults, halted, flatLogged, orbDay, pending>>

\* No positions: the state is kept and the iteration ends.
ReadFails ==
    /\ pc = "read" /\ Again
    /\ UNCHANGED <<brokerVars, aside, faults, state, halted, flatLogged, orbDay, pending>>

\* The book as the loop over the positions reads it: the entry price of the
\* first one if none is known, side and stop of the last one.
Synced == IF Own = {} THEN [state EXCEPT !.side = 0]
          ELSE [side |-> Newest(Own).side,
                entry |-> IF state.entry = 0 THEN Oldest(Own).entry ELSE state.entry,
                sl |-> Newest(Own).stop]

Favorable(s) == s.side * (seen.price - s.entry)
Trails(s) == s.side # 0 /\ s.sl > 0 /\ Favorable(s) >= TrailPts
Bug_Trailed(s) == [s EXCEPT !.sl = seen.price - s.side * TrailPts]
Trailed(s) == LET new == seen.price - s.side * TrailPts
              IN IF s.side * (new - s.sl) > 0 THEN [s EXCEPT !.sl = new] ELSE s

Read ==
    /\ pc = "read"
    /\ IF Trails(Synced)
       THEN /\ state' = Trailed(Synced)
            /\ seen' = [seen EXCEPT !.id = Oldest(Own).id]
            /\ Goto("modify")
       ELSE /\ state' = Synced
            /\ IF halted THEN Again ELSE Goto("enter") /\ UNCHANGED seen
    /\ UNCHANGED <<brokerVars, aside, faults, halted, flatLogged, orbDay, pending>>

\* modify_position as the broker carries it out; it refuses a stop beyond the price.
Moved(m) ==
    {IF x.id = m.id /\ ~Stopped([x EXCEPT !.stop = m.stop], price)
     THEN [x EXCEPT !.stop = m.stop] ELSE x : x \in positions}

\* The stop that was computed goes to the first position.  It is carried out, or
\* not, or the five seconds end while it is on its way.
Modify ==
    /\ pc = "modify"
    /\ LET sent == [id |-> seen.id, stop |-> state.sl]
       IN \/ positions' = Moved(sent) /\ UNCHANGED <<late, faults>>
          \/ UNCHANGED <<positions, late, faults>>
          \/ /\ faults < MaxFaults /\ faults' = faults + 1
             /\ late' = late \cup {sent} /\ UNCHANGED positions
    /\ IF halted THEN Again ELSE Goto("enter") /\ UNCHANGED seen
    /\ UNCHANGED <<phase, day, price, orders, trades, mode, state, halted, flatLogged, orbDay,
                   pending>>

\* Whenever it arrives, the loop may have read, computed and sent again.
ModifyLate ==
    /\ \E m \in late : late' = late \ {m} /\ positions' = Moved(m)
    /\ UNCHANGED <<phase, day, price, orders, trades, engineVars, mode, faults>>

-----------------------------------------------------------------------------
(* Entries.  The filters may refuse at any time. *)

MayEnter == state.side = 0 /\ ~pending /\ seen.day # 0 /\ orbDay = seen.day

NoEntry ==
    /\ pc = "enter" /\ Goto("oco")
    /\ UNCHANGED <<brokerVars, aside, faults, state, halted, flatLogged, orbDay, pending, seen>>

\* execute_stop_order, long then short.  Nothing asks what rests already.
LongStop  == [side |-> 1, level |-> OrbHigh + Buffer, stop |-> OrbHigh + Buffer - SlPts, limit |-> FALSE]
ShortStop == [side |-> -1, level |-> OrbLow - Buffer, stop |-> OrbLow - Buffer + SlPts, limit |-> FALSE]

PlaceStop(o) == \/ Acceptable(o) /\ BagCardinality(orders) < MaxOrders
                   /\ orders' = orders (+) SetToBag({o})
                \/ UNCHANGED orders

EnterLongStop ==
    /\ pc = "enter" /\ mode = "stop" /\ MayEnter
    /\ PlaceStop(LongStop) /\ Goto("enter2")
    /\ UNCHANGED <<phase, day, price, positions, trades, aside, faults, state, halted, flatLogged,
                   orbDay, pending, seen>>

EnterShortStop ==
    /\ pc = "enter2"
    /\ PlaceStop(ShortStop) /\ Goto("oco")
    /\ pending' = TRUE
    /\ UNCHANGED <<phase, day, price, positions, trades, aside, faults, state, halted, flatLogged,
                   orbDay, seen>>

\* evaluate_omni_entry on the quote of this iteration.
Signal == IF seen.price > OrbHigh THEN 1 ELSE IF seen.price < OrbLow THEN -1 ELSE 0

\* execute_open, and whether it says the order was filled: a reply that is lost
\* reads as a refusal, whatever the broker did.
ExecuteOpen(side, stop, res) ==
    \/ /\ ~Stopped([side |-> side, stop |-> stop], price)
       /\ MarketFill(side, stop, 1, TRUE)
    \/ ~res /\ UNCHANGED <<positions, trades>>

EnterMarket ==
    /\ pc = "enter" /\ mode = "market" /\ MayEnter /\ Signal # 0
    /\ \E res \in BOOLEAN :
         /\ ExecuteOpen(Signal, seen.price - Signal * SlPts, res)
         /\ state' = IF res THEN [state EXCEPT !.side = Signal, !.entry = seen.price] ELSE state
    /\ pending' = TRUE
    /\ Goto("oco")
    /\ UNCHANGED <<phase, day, price, orders, aside, faults, halted, flatLogged, orbDay, seen>>

\* With a position, everything that rests is canceled, as far as it works.
Oco ==
    /\ pc = "oco"
    /\ IF state.side = 0 THEN UNCHANGED orders
       ELSE \E read \in OrdersRead : \E gone \in SUBSET read : CancelSome(gone)
    /\ Again
    /\ UNCHANGED <<phase, day, price, positions, trades, aside, faults, state, halted, flatLogged,
                   orbDay, pending>>

\* Sixty seconds after an entry.
PendingEnds ==
    /\ pending /\ pending' = FALSE
    /\ UNCHANGED <<brokerVars, aside, faults, pc, state, halted, flatLogged, orbDay, seen>>

\* The unit restarts the process, which cancels what rests.
Restart ==
    /\ faults < MaxFaults /\ faults' = faults + 1
    /\ EngineStart
    /\ \E gone \in SUBSET Resting : CancelSome(gone)
    /\ UNCHANGED <<phase, day, price, positions, trades, aside>>

Engine == \/ Top \/ Cancel \/ Flatten \/ QuoteFails \/ Quote \/ Hedge \/ Lock
          \/ ReadFails \/ Read \/ Modify \/ NoEntry \/ EnterLongStop \/ EnterShortStop
          \/ EnterMarket \/ Oco
Broker == (Move \/ CloseOut \/ Later) /\ UNCHANGED <<engineVars, aside, faults>>

Next == Engine \/ PendingEnds \/ Restart \/ ModifyLate \/ Broker

\* The loop goes on.  A broker that is asked again and again answers in the
\* end: quotes and positions are read, everything that rests can be canceled
\* and everything that is open can be closed.
Fairness ==
    /\ WF_vars(Engine)
    /\ SF_vars(Quote) /\ SF_vars(Read)
    /\ SF_vars(Cancel /\ orders' = EmptyBag)
    /\ SF_vars(Flatten /\ OwnIds \cap {p.id : p \in positions'} = {})

Spec == Init /\ [][Next]_vars /\ Fairness

-----------------------------------------------------------------------------
\* At the end of the day the engine's book gets flat, though a flatten whose
\* read failed counts as done: the state read from the broker starts it again
\* (omni_breakout_engine.py:505-517, 597-629, 904-926).
EodEndsFlat == <>[]EodWindow(phase) => <>[](Own = {} /\ orders = EmptyBag)

\* With market entries no position's stop is ever farther than the one it was
\* opened with, whatever the trailing starts from (the entry price of an earlier
\* trade starts it too soon), and whenever what it sent arrives (921, 935-968).
NoStopBeyondFirst ==
    mode = "market" => \A x \in positions : x.side * (x.stop - x.first) >= 0

\* More is not kept: a modification that arrives late takes back the stop of a
\* later one.
StopsOnlyTighten ==
    [][mode = "market" =>
         \A x \in positions, y \in positions' :
            x.id = y.id => x.side * (y.stop - x.stop) >= 0]_vars

\* With market entries there is never more than one position of the engine,
\* whichever reply is lost and whichever read fails (904-908, 994, 1028-1032).
OnePosition == mode = "market" => Cardinality(Own) <= 1

\* While the lock is on (a leg that is not the engine's makes the account's net
\* exposure zero), no step of the engine takes it off.  omni_breakout_engine.py:633:
\* "Engage 1:1 net exposure hedge lock to freeze equity mark-to-market."
Locked == Net = 0 /\ positions # Own
LockHolds == [][Engine /\ Locked => Net' = 0]_vars
=============================================================================
