----------------------------- MODULE LondonEngine -----------------------------
(***************************************************************************)
(* london_reversal_engine_live.py: fading the Asian range.  One loop over   *)
(* caches: positions are asked for every 5 seconds (every second with a     *)
(* position), orders every 5 (or 2), and an answer that fails leaves the    *)
(* cache as it is.  pc names the await the loop stands at.  "session" is    *)
(* 07:00-13:00 UTC, "close" the hour after it, "before" the rest of a day.  *)
(***************************************************************************)
EXTENDS SessionBroker

CONSTANTS
    RangeHigh, RangeLow,  \* the Asian range, or the buffered levels around it
    SlPts,                \* distance of an entry's stop
    MaxRestarts,          \* restarts (bound)
    MaxOrders             \* resting orders (bound)

ASSUME LondonAssumption ==
    /\ RangeHigh \in Levels /\ RangeLow \in Levels /\ RangeLow < RangeHigh
    /\ {SlPts, MaxRestarts, MaxOrders} \subseteq Nat

VARIABLES
    mode,       \* entry_mode: "limit" for blind_limit and dynamic_buffer, else "market"
    pc,
    side,       \* ReversalState.side
    halted,     \* trading_halted_for_day
    tradesToday,
    orbDay,     \* the day of orb_date, 0 for 1970-01-01
    pending,    \* time.time() <= order_pending_until
    cache,      \* cached_positions (the first own side) and cached_orders
    asked,      \* each cache: asked for in the last 5 seconds, and with what result
    today,      \* the day the iteration began in, 0 outside the session
    tradedDay,  \* the last day this process saw a position of its range (history)
    restarts

engineVars == <<pc, side, halted, tradesToday, orbDay, pending, cache, asked, today,
                tradedDay>>
vars == <<brokerVars, engineVars, mode, restarts>>

Caches == {"positions", "orders"}
Unasked == [c \in Caches |-> "old"]
NoCache == [side |-> 0, orders |-> {}]

TypeOK ==
    /\ BrokerTypeOK
    /\ mode \in {"limit", "market"}
    /\ pc \in {"top", "flatten", "sweep", "read", "orders", "place", "place2", "oco"}
    /\ {side, cache.side} \subseteq {-1, 0, 1} /\ cache.orders \subseteq Order
    /\ {halted, pending} \subseteq BOOLEAN
    /\ asked \in [Caches -> {"old", "answered", "failed"}]
    /\ tradesToday \in {0, 1} /\ {orbDay, tradedDay, today} \subseteq 0 .. MaxDays
    /\ restarts \in 0 .. MaxRestarts

\* The process starts at any hour; the range may be readable at once (357-362).
EngineStart(orb) ==
    /\ pc' = "top" /\ side' = 0 /\ halted' = FALSE /\ tradesToday' = 0 /\ orbDay' = orb
    /\ pending' = FALSE /\ cache' = NoCache /\ asked' = Unasked /\ today' = 0
    /\ tradedDay' = 0

Init ==
    /\ BrokerInit
    /\ mode \in {"limit", "market"}
    /\ pc = "top" /\ side = 0 /\ halted = FALSE /\ tradesToday = 0 /\ orbDay \in {0, day}
    /\ pending = FALSE /\ cache = NoCache /\ asked = Unasked /\ today = 0
    /\ tradedDay = 0 /\ restarts = 0

Goto(l) == pc' = l
Again == pc' = "top" /\ today' = 0

\* Without a position there is nothing left to do.
Finish == IF side' = 0 THEN Again ELSE Goto("oco") /\ UNCHANGED today

-----------------------------------------------------------------------------
\* get_asian_range_levels: levels, or none when a candle or the answer is missing.
RangeFound == BOOLEAN

\* A new iteration.  In the session the range of the day is asked for until it
\* is known, and a new one opens a new trading day; at 13:00 the day is closed.
Bug_LocksRange == phase = "session"
LocksRange == phase = "session" /\ orbDay # day

Top ==
    /\ pc = "top"
    /\ \E found \in RangeFound :
         IF LocksRange /\ found THEN orbDay' = day /\ tradesToday' = 0 /\ halted' = FALSE
         ELSE UNCHANGED <<orbDay, tradesToday, halted>>
    /\ Goto(IF phase = "close" /\ ~halted THEN "flatten" ELSE "read")
    /\ today' = IF phase = "session" THEN day ELSE 0
    /\ UNCHANGED <<brokerVars, mode, restarts, side, pending, cache, asked, tradedDay>>

\* flatten_all_positions: an opposite market order for each of some of the
\* engine's positions; an unreadable book or an exception ends it.  It is not
\* asked again.
FarStop(s) == IF s = 1 THEN 0 ELSE MaxLevel + 1
Opposite(p, id) == [id |-> id, side |-> -p.side, entry |-> price, stop |-> FarStop(-p.side),
                    first |-> FarStop(-p.side), lots |-> p.lots, own |-> FALSE]

Flatten ==
    /\ pc = "flatten"
    /\ \E sent \in SUBSET Own :
         /\ \A p \in sent, q \in Own : q.id < p.id => q \in sent
         /\ trades + Cardinality(sent) <= MaxTrades
         /\ positions' = positions \cup
               {Opposite(p, trades + Cardinality({q \in sent : q.id <= p.id})) : p \in sent}
         /\ trades' = trades + Cardinality(sent)
    /\ Goto("sweep")
    /\ UNCHANGED <<phase, day, price, orders, mode, restarts, side, halted, tradesToday, orbDay,
                   pending, cache, asked, today, tradedDay>>

\* cancel_pending_orders, and the end of the trading day whatever has failed.
Sweep ==
    /\ pc = "sweep"
    /\ \E gone \in SUBSET Resting : CancelSome(gone)
    /\ side' = 0 /\ halted' = TRUE
    /\ Goto("read")
    /\ UNCHANGED <<phase, day, price, positions, trades, mode, restarts, tradesToday, orbDay,
                   pending, cache, asked, today, tradedDay>>

\* Nothing of the quote itself is used but to price an entry.
QuoteFails ==
    /\ pc = "read" /\ Again
    /\ UNCHANGED <<brokerVars, mode, restarts, side, halted, tradesToday, orbDay, pending, cache,
                   asked, tradedDay>>

\* A cache is asked for again unless that was less than 5 seconds ago.
Refreshed(c, value) ==
    \/ cache' = value /\ asked' = [asked EXCEPT ![c] = "answered"]
    \/ UNCHANGED cache /\ asked' = [asked EXCEPT ![c] = "failed"]
    \/ asked[c] # "old" /\ UNCHANGED <<cache, asked>>

FirstOwnSide == IF Own = {} THEN 0 ELSE Oldest(Own).side
PositionsRead == [cache EXCEPT !.side = FirstOwnSide]
OrdersRead == [cache EXCEPT !.orders = Resting]

Read ==
    /\ pc = "read"
    /\ Refreshed("positions", PositionsRead)
    /\ side' = cache'.side
    /\ Goto("orders")
    /\ UNCHANGED <<brokerVars, mode, restarts, halted, tradesToday, orbDay, pending, today, tradedDay>>

-----------------------------------------------------------------------------
(* Entries.  The filters may refuse at any time. *)

MayTrade == /\ side = 0 /\ today # 0 /\ orbDay = today
            /\ tradesToday < 1 /\ ~halted

NoEntry ==
    /\ pc = "orders" /\ UNCHANGED side /\ Finish
    /\ UNCHANGED <<brokerVars, mode, restarts, halted, tradesToday, orbDay, pending, cache, asked,
                   tradedDay>>

AskOrders ==
    /\ pc = "orders" /\ MayTrade
    /\ Refreshed("orders", OrdersRead)
    /\ IF cache'.orders = {} /\ ~pending THEN Goto("place") /\ UNCHANGED today ELSE Again
    /\ UNCHANGED <<brokerVars, mode, restarts, side, halted, tradesToday, orbDay, pending, tradedDay>>

FadeHigh == [side |-> -1, level |-> RangeHigh, stop |-> RangeHigh + SlPts, limit |-> TRUE]
FadeLow  == [side |-> 1, level |-> RangeLow, stop |-> RangeLow - SlPts, limit |-> TRUE]

\* execute_limit_order, whose result nobody reads.
PlaceLimit(o) == \/ Acceptable(o) /\ BagCardinality(orders) < MaxOrders
                    /\ orders' = orders (+) SetToBag({o})
                 \/ UNCHANGED orders

PlaceHigh ==
    /\ pc = "place" /\ mode = "limit"
    /\ PlaceLimit(FadeHigh) /\ Goto("place2")
    /\ UNCHANGED <<phase, day, price, positions, trades, mode, restarts, side, halted, tradesToday,
                   orbDay, pending, cache, asked, today, tradedDay>>

Bug_PlaceLow ==
    /\ pc = "place2"
    /\ PlaceLimit(FadeLow) /\ Again
    /\ UNCHANGED <<pending, phase, day, price, positions, trades, mode, restarts, side, halted, tradesToday,
                   orbDay, cache, asked, tradedDay>>

PlaceLow ==
    /\ pc = "place2"
    /\ PlaceLimit(FadeLow) /\ Again
    /\ pending' = TRUE
    /\ UNCHANGED <<phase, day, price, positions, trades, mode, restarts, side, halted, tradesToday,
                   orbDay, cache, asked, tradedDay>>

\* Whether the order is reported FILLED: a reply that is lost reads as a
\* refusal, whatever the broker did.
ExecuteMarketOrder(signal, filled) ==
    \/ MarketFill(signal, price - signal * SlPts, 1, TRUE)
    \/ ~filled /\ UNCHANGED <<positions, trades>>

Bug_EnterMarket ==
    /\ pc = "place" /\ mode = "market"
    /\ \E signal \in Sides, filled \in BOOLEAN :
         /\ ExecuteMarketOrder(signal, filled)
         /\ IF filled THEN side' = signal /\ tradesToday' = tradesToday + 1
            ELSE UNCHANGED <<side, tradesToday>>
    /\ pending' = (side' # 0)
    /\ Finish
    /\ UNCHANGED <<phase, day, price, orders, mode, restarts, halted, orbDay, cache, asked, tradedDay>>

\* evaluate_london_entry on the quote, then execute_market_order; the price may
\* have moved since.
EnterMarket ==
    /\ pc = "place" /\ mode = "market"
    /\ \E signal \in Sides, filled \in BOOLEAN :
         /\ ExecuteMarketOrder(signal, filled)
         /\ IF filled THEN side' = signal /\ tradesToday' = tradesToday + 1
            ELSE UNCHANGED <<side, tradesToday>>
    /\ pending' = TRUE
    /\ Finish
    /\ UNCHANGED <<phase, day, price, orders, mode, restarts, halted, orbDay, cache, asked, tradedDay>>

Bug_OcoCounts ==
    /\ pc = "oco"
    /\ Refreshed("orders", OrdersRead)
    /\ \E gone \in SUBSET cache'.orders : CancelSome(gone)
    /\ tradesToday' = tradesToday + 1
    /\ tradedDay' = IF orbDay = today /\ today # 0 THEN today ELSE tradedDay
    /\ Again
    /\ UNCHANGED <<phase, day, price, positions, trades, mode, restarts, side, halted, orbDay,
                   pending>>

Bug_OcoStale ==
    /\ pc = "oco"
    /\ UNCHANGED <<cache, asked>>
    /\ \E gone \in SUBSET cache'.orders : CancelSome(gone)
    /\ tradesToday' = 1
    /\ tradedDay' = IF orbDay = today /\ today # 0 THEN today ELSE tradedDay
    /\ Again
    /\ UNCHANGED <<phase, day, price, positions, trades, mode, restarts, side, halted, orbDay,
                   pending>>

\* With a position, what the cache says rests is canceled, as far as it works,
\* and the day has had its trade.
Oco ==
    /\ pc = "oco"
    /\ Refreshed("orders", OrdersRead)
    /\ \E gone \in SUBSET cache'.orders : CancelSome(gone)
    /\ tradesToday' = 1
    /\ tradedDay' = IF orbDay = today /\ today # 0 THEN today ELSE tradedDay
    /\ Again
    /\ UNCHANGED <<phase, day, price, positions, trades, mode, restarts, side, halted, orbDay,
                   pending>>

\* Five seconds pass, or sixty since the last entry.  An iteration's own awaits
\* are too short for either to matter within it.
Tick ==
    /\ pc = "top" /\ asked' = Unasked /\ pending' \in {pending, FALSE}
    /\ UNCHANGED <<brokerVars, mode, restarts, pc, side, halted, tradesToday, orbDay, cache,
                   today, tradedDay>>

\* The unit restarts the process, which cancels what rests.
Restart ==
    /\ restarts < MaxRestarts /\ restarts' = restarts + 1
    /\ \E orb \in {0, day} : EngineStart(orb)
    /\ \E gone \in SUBSET Resting : CancelSome(gone)
    /\ UNCHANGED <<phase, day, price, positions, trades, mode>>

Engine == \/ Top \/ Flatten \/ Sweep \/ QuoteFails \/ Read \/ NoEntry \/ AskOrders
          \/ PlaceHigh \/ PlaceLow \/ EnterMarket \/ Oco
Broker == (Move \/ CloseOut \/ Later) /\ UNCHANGED <<engineVars, mode, restarts>>

Next == Engine \/ Tick \/ Restart \/ Broker

\* The loop goes on.  A broker that is asked again and again answers in the
\* end, and then cancels all that rests.
Fairness ==
    /\ WF_vars(Engine)
    /\ SF_vars(Read /\ cache'.side = FirstOwnSide)
    /\ SF_vars(Oco /\ cache'.orders = Resting /\ orders' = EmptyBag)

Spec == Init /\ [][Next]_vars /\ Fairness

-----------------------------------------------------------------------------
\* A market entry goes out into an empty book, though the book it looks at is a
\* cache and the reply to an earlier entry may have been lost; unless the last
\* read was not answered (465-487, 523-570).
EntersEmptyBook ==
    [][(EnterMarket /\ trades' > trades /\ asked["positions"] = "answered") => Own = {}]_vars

\* A pair of limit orders is placed only when nothing of an earlier pair rests,
\* unless the last read of the orders was not answered (509-540).
OnePair ==
    [][(PlaceHigh /\ orders' # orders /\ asked["orders"] = "answered") => orders = EmptyBag]_vars

\* Once an iteration has seen a position under the range of the day, nothing
\* more is entered that day, whatever is opened, stopped or canceled (509, 569, 585).
TradedDayIsOver ==
    [][((PlaceHigh \/ PlaceLow \/ EnterMarket) /\ today # 0)
         => tradedDay # today]_vars

\* A position that stays is not left beside resting orders of the engine
\* (572-583).
OppositesCanceled == <>[](Own # {}) => <>[](orders = EmptyBag)

\* london_reversal_engine_live.py:210: "Close all open positions on the account
\* at market."  On a hedging account an opposite order closes nothing.
FlattenCloses == [][Flatten => Cardinality(positions') <= Cardinality(positions)]_vars
=============================================================================
