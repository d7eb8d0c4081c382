---------------------------- MODULE SessionBroker ----------------------------
(***************************************************************************)
(* The account as an engine that trades one session a day meets it through  *)
(* MetaApiWrapper.py: a price on a grid of levels, resting orders that fill *)
(* when the price reaches them, positions with a stop at the broker, and    *)
(* the time of day.  It is a hedging account (modules/entry_guard.py:11):   *)
(* an opposite order opens a second position, it closes nothing.            *)
(* Positions are told apart by their ids, which grow as they are opened,    *)
(* and remember in "first" the stop they were opened with; equal orders are *)
(* not told apart, so that what rests is a bag.                             *)
(***************************************************************************)
EXTENDS Integers, FiniteSetsExt, Bags

CONSTANTS
    MaxLevel,     \* prices are the levels 1 .. MaxLevel
    StartLevel,
    MaxTrades,    \* positions ever opened (bound)
    MaxDays       \* days (bound)

ASSUME BrokerAssumption ==
    /\ MaxLevel \in Nat /\ StartLevel \in 1 .. MaxLevel
    /\ MaxTrades \in Nat /\ MaxDays \in Nat \ {0}

VARIABLES
    phase,      \* part of the day
    day,
    price,
    positions,
    orders,     \* the resting orders
    trades      \* positions opened so far; the newest one's id

brokerVars == <<phase, day, price, positions, orders, trades>>

Levels == 1 .. MaxLevel
Phases == {"before", "session", "close"}
Sides == {1, -1}
Position == [id: 1 .. MaxTrades, side: Sides, entry: Levels, stop: Int, first: Int, lots: Nat,
             own: BOOLEAN]
Order == [side: Sides, level: Levels, stop: Int, limit: BOOLEAN]

BrokerTypeOK ==
    /\ phase \in Phases /\ day \in 1 .. MaxDays /\ price \in Levels
    /\ positions \subseteq Position /\ trades \in 0 .. MaxTrades
    /\ IsABag(orders) /\ BagToSet(orders) \subseteq Order

BrokerInit ==
    /\ phase = "before" /\ day = 1 /\ price = StartLevel
    /\ positions = {} /\ orders = EmptyBag /\ trades = 0

\* The positions whose comment starts with the engine's prefix.
Own == {p \in positions : p.own}
OwnIds == {p.id : p \in Own}

\* The broker lists positions in the order they were opened.
Oldest(ps) == CHOOSE p \in ps : \A q \in ps : p.id <= q.id
Newest(ps) == CHOOSE p \in ps : \A q \in ps : q.id <= p.id

Resting == BagToSet(orders)

Net == MapThenSumSet(LAMBDA p : p.side * p.lots, positions)

\* A stop order waits for the price to run away, a limit order for it to come back.
Reached(o, p) == IF (o.side = 1) # o.limit THEN p >= o.level ELSE p <= o.level
Stopped(x, p) == IF x.side = 1 THEN p <= x.stop ELSE p >= x.stop

\* route_order: what an accepted market order leaves in the account.
MarketFill(side, stop, lots, own) ==
    /\ trades < MaxTrades
    /\ trades' = trades + 1
    /\ positions' = positions \cup {[id |-> trades + 1, side |-> side, entry |-> price,
                                      stop |-> stop, first |-> stop, lots |-> lots, own |-> own]}

\* Accepted only on the far side of the price.
Acceptable(o) == ~Reached(o, price)

\* cancel_order on each of some orders: those in gone are canceled, the others
\* fail or are not in the book any more.
CancelSome(gone) == orders' = Restrict(orders, Resting \ gone)

\* The positions that filled orders leave: the i-th fill is of the order fills[i].
Opened(fills) ==
    {[id |-> trades + i, side |-> fills[i].side, entry |-> fills[i].level,
      stop |-> fills[i].stop, first |-> fills[i].stop, lots |-> 1, own |-> TRUE] : i \in DOMAIN fills}

\* The price moves by a level: stops are hit, and every order it reaches fills.
Move ==
    \E p \in {price - 1, price + 1} \cap Levels, n \in 0 .. MaxTrades - trades :
      LET reached == {o \in Resting : Reached(o, p)}
      IN \E fills \in [1 .. n -> reached] :
           /\ \A o \in reached : Cardinality({i \in 1 .. n : fills[i] = o}) = orders[o]
           /\ price' = p
           /\ positions' = {x \in positions : ~Stopped(x, p)} \cup Opened(fills)
           /\ CancelSome(reached)
           /\ trades' = trades + n
           /\ UNCHANGED <<phase, day>>

\* A position reaches its take profit, or is closed by hand.
CloseOut ==
    \E x \in positions :
      /\ positions' = positions \ {x}
      /\ UNCHANGED <<phase, day, price, orders, trades>>

Later ==
    /\ \/ phase = "before" /\ phase' = "session" /\ UNCHANGED day
       \/ phase = "session" /\ phase' = "close" /\ UNCHANGED day
       \/ phase = "close" /\ phase' = "before" /\ day < MaxDays /\ day' = day + 1
    /\ UNCHANGED <<price, positions, orders, trades>>
=============================================================================
