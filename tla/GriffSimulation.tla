--------------------------- MODULE GriffSimulation ---------------------------
(***************************************************************************)
(* The strategy of griff_engine_live.py on a simulated account              *)
(* (GriffSimulationEngine), with the functions that size an order, place    *)
(* its stop and ratchet it.  A step is one completed hour.  Prices are half *)
(* points, so that one and a half ATR is exact; money is in cents, lots in  *)
(* hundredths, at one dollar a point and lot.                               *)
(***************************************************************************)
EXTENDS Integers

CONSTANTS
    Levels,      \* prices of the bars, in half points
    Atrs,        \* values of the ATR, in points
    DayStart,    \* day_start_equity
    Starts,      \* starting_equity
    Floors,      \* hard_floor
    MaxTrades    \* trades (bound)

ASSUME SimulationAssumption ==
    /\ Levels \subseteq Nat /\ Atrs \subseteq Nat \ {0}
    /\ {DayStart} \cup Starts \cup Floors \subseteq Nat \ {0} /\ MaxTrades \in Nat

VARIABLES
    hardFloor,
    state,      \* SEARCHING, PENDING_PLACED, IN_TRADE or HALTED
    equity,
    orders,     \* the two stop orders of an inside bar, None without
    position,   \* active_position, None without
    trades      \* trades opened so far

vars == <<hardFloor, state, equity, orders, position, trades>>

None == [lots |-> 0]
Bars == {b \in [high : Levels, low : Levels, close : Levels] : b.low <= b.close /\ b.close <= b.high}
Distance(atr) == 3 * atr

-----------------------------------------------------------------------------
IsInsideBar(bar, mother) == bar.high < mother.high /\ bar.low > mother.low

\* 1 % of the equity over the distance of the stop, rounded, between 0.01 and 50
\* lots.  A tie goes either way in binary.
PositionSize(money, atr) ==
    LET n == 150 * atr
        clamped(lots) == IF lots > 5000 THEN 5000 ELSE IF lots < 1 THEN 1 ELSE lots
    IN {clamped((2 * money + n) \div (2 * n)), clamped((2 * money + n - 1) \div (2 * n))}

InitialStopLoss(side, price, atr) == price - side * Distance(atr)

Tighter(side, a, b) == IF side * (a - b) > 0 THEN a ELSE b
Bug_TrailingStop(side, sl, close, atr) == close - side * Distance(atr)
TrailingStop(side, sl, close, atr) == Tighter(side, close - side * Distance(atr), sl)

\* round((sl - entry) * volume, 2): half a cent goes either way.
Profit(p) == LET twice == p.side * (p.sl - p.entry) * p.lots
             IN {twice \div 2, (twice + 1) \div 2}

-----------------------------------------------------------------------------
Init ==
    /\ hardFloor \in Floors /\ equity \in Starts
    /\ state = "SEARCHING" /\ orders = None /\ position = None /\ trades = 0

\* check_risk_limits, before anything else an hour does.
Allowed == equity > hardFloor /\ 20 * (DayStart - equity) < DayStart

Halt ==
    /\ ~Allowed /\ state' = "HALTED"
    /\ UNCHANGED <<hardFloor, equity, orders, position, trades>>

\* An hour that is no inside bar changes nothing.
Search ==
    /\ Allowed /\ state = "SEARCHING" /\ trades < MaxTrades
    /\ \E bar, mother \in Bars, atr \in Atrs : \E lots \in PositionSize(equity, atr) :
         /\ IsInsideBar(bar, mother)
         /\ orders' = [high |-> bar.high, buySl |-> InitialStopLoss(1, bar.high, atr),
                       low |-> bar.low, sellSl |-> InitialStopLoss(-1, bar.low, atr), lots |-> lots]
    /\ state' = "PENDING_PLACED"
    /\ UNCHANGED <<hardFloor, equity, position, trades>>

Opened(side, entry, sl) == [side |-> side, entry |-> entry, sl |-> sl, lots |-> orders.lots]

\* The next hour fills one of them, the long one first, or ends them both.
Bug_Pending ==
    /\ Allowed /\ state = "PENDING_PLACED"
    /\ \E bar \in Bars :
         \/ /\ bar.high >= orders.high
            /\ position' = Opened(1, orders.high, orders.buySl)
            /\ state' = "IN_TRADE" /\ trades' = trades + 1 /\ orders' = orders
         \/ /\ bar.high < orders.high /\ bar.low <= orders.low
            /\ position' = Opened(-1, orders.low, orders.sellSl)
            /\ state' = "IN_TRADE" /\ trades' = trades + 1 /\ orders' = orders
         \/ /\ bar.high < orders.high /\ bar.low > orders.low
            /\ state' = "SEARCHING" /\ orders' = None
            /\ UNCHANGED <<position, trades>>
    /\ UNCHANGED <<hardFloor, equity>>

Pending ==
    /\ Allowed /\ state = "PENDING_PLACED"
    /\ \E bar \in Bars :
         \/ /\ bar.high >= orders.high
            /\ position' = Opened(1, orders.high, orders.buySl)
            /\ state' = "IN_TRADE" /\ trades' = trades + 1
         \/ /\ bar.high < orders.high /\ bar.low <= orders.low
            /\ position' = Opened(-1, orders.low, orders.sellSl)
            /\ state' = "IN_TRADE" /\ trades' = trades + 1
         \/ /\ bar.high < orders.high /\ bar.low > orders.low
            /\ state' = "SEARCHING" /\ UNCHANGED <<position, trades>>
    /\ orders' = None
    /\ UNCHANGED <<hardFloor, equity>>

Stopped(p, bar) == IF p.side = 1 THEN bar.low <= p.sl ELSE bar.high >= p.sl

StopExit ==
    /\ Allowed /\ state = "IN_TRADE"
    /\ \E bar \in Bars : Stopped(position, bar)
    /\ \E pnl \in Profit(position) : equity' = equity + pnl
    /\ position' = None /\ state' = "SEARCHING"
    /\ UNCHANGED <<hardFloor, orders, trades>>

Trailed ==
    /\ Allowed /\ state = "IN_TRADE"
    /\ \E bar \in Bars, atr \in Atrs :
         /\ ~Stopped(position, bar)
         /\ position' = [position EXCEPT !.sl = TrailingStop(position.side, @, bar.close, atr)]
    /\ UNCHANGED <<hardFloor, state, equity, orders, trades>>

Next == Halt \/ Search \/ Pending \/ StopExit \/ Trailed

Spec == Init /\ [][Next]_vars

-----------------------------------------------------------------------------
TypeOK ==
    /\ hardFloor \in Floors /\ equity \in Int /\ trades \in 0 .. MaxTrades
    /\ state \in {"SEARCHING", "PENDING_PLACED", "IN_TRADE", "HALTED"}
    /\ orders = None \/ orders \in [high : Levels, buySl : Int, low : Levels, sellSl : Int, lots : Nat \ {0}]
    /\ position = None \/ position \in [side : {1, -1}, entry : Levels, sl : Int, lots : Nat \ {0}]

\* Orders and position are what the state says, so that an account that halts has
\* nothing at work: the limits are looked at before anything else, and only an exit,
\* which leaves both empty, changes the equity (griff_engine_live.py:350, 373-427).
HaltsFlat ==
    /\ (orders # None) = (state = "PENDING_PLACED")
    /\ (position # None) = (state = "IN_TRADE")

\* One trade can take the equity 1 % of it below the limits and no more, but for
\* the rounding of its lots: it is sized by the equity of its setup, its stop only
\* tightens however the ATR changes after that, and no second one follows a breach
\* (griff_engine_live.py:249-254, 294-303, 350).
Limit == LET daily == (19 * DayStart) \div 20 IN IF daily > hardFloor THEN daily ELSE hardFloor
LossBounded == \A atr \in Atrs : (\A a \in Atrs : a <= atr) =>
                   equity + atr + 1 >= (99 * Limit) \div 100
=============================================================================
