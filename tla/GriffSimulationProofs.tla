-------------------------- MODULE GriffSimulationProofs --------------------------
(***************************************************************************)
(* What one trade of the simulated account may cost, for every price, ATR,  *)
(* limit and number of trades.  A trade is sized at its setup and lost hours *)
(* later, so the invariant carries the ATR of the setup along: the lots the *)
(* orders and then the position were given cost 1 % of the equity over three *)
(* half points of it, and the stop is never further away than that.         *)
(***************************************************************************)
EXTENDS GriffSimulation, TLAPS

USE SimulationAssumption

OrderRecords == [high : Levels, buySl : Int, low : Levels, sellSl : Int, lots : Nat \ {0}]
PositionRecords == [side : {1, -1}, entry : Levels, sl : Int, lots : Nat \ {0}]

-----------------------------------------------------------------------------
(* Sizing and stops. *)

LEMMA AtrIs ==
    ASSUME NEW atr \in Atrs
    PROVE  atr \in Int /\ atr >= 1
OBVIOUS

LEMMA LevelIs ==
    ASSUME NEW x \in Levels
    PROVE  x \in Int
OBVIOUS

LEMMA Quotient ==
    ASSUME NEW a \in Int, NEW b \in Int, b > 0, NEW q, q = a \div b
    PROVE  q \in Int /\ b * q <= a
OBVIOUS

\* The money an order may cost, but for the rounding of its lots, over the stop of atr.
Affords(money, lots, atr) == 300 * atr * lots <= 2 * money + 150 * atr

\* The lots of a setup: at least the smallest lot, and no more than the division gives.
LEMMA SizeIs ==
    ASSUME NEW money \in Int, NEW atr \in Atrs, NEW lots \in PositionSize(money, atr)
    PROVE  /\ lots \in Nat \ {0}
           /\ lots = 1 \/ (300 * atr) * lots <= 2 * money + 150 * atr
<1> DEFINE n == 150 * atr
           Clamp(x) == IF x > 5000 THEN 5000 ELSE IF x < 1 THEN 1 ELSE x
           up == 2 * money + n
           down == 2 * money + n - 1
<1>1. n \in Int /\ 2 * n > 0 /\ 2 * n \in Int /\ up \in Int /\ down \in Int /\ 2 * n = 300 * atr
  BY AtrIs
<1>2. lots = Clamp(up \div (2 * n)) \/ lots = Clamp(down \div (2 * n))
  BY DEF PositionSize
<1>3. PICK x \in {up, down} : lots = Clamp(x \div (2 * n))
  BY <1>2
<1> DEFINE q == x \div (2 * n)
<1>4. q \in Int /\ (2 * n) * q <= x
  <2> HIDE DEF up, down, n
  <2> QED
    BY <1>1, <1>3, Quotient
<1>5. (2 * n) * q <= up
  BY <1>1, <1>3, <1>4
<1> HIDE DEF q
<1>6. lots \in Nat \ {0} /\ (lots = 1 \/ lots <= q)
  <2>1. lots = Clamp(q)
    BY <1>3 DEF q
  <2> QED
    BY <1>4, <2>1
<1>7. CASE lots <= q
  <2>1. \A m \in Int, a \in Int, b \in Int : m > 0 /\ a <= b => m * a <= m * b
    OBVIOUS
  <2>2. (2 * n) * lots <= (2 * n) * q
    <3> HIDE DEF n
    <3> QED
      BY <1>1, <1>4, <1>6, <1>7, <2>1
  <2>3. (2 * n) * lots <= up
    BY <1>1, <1>4, <1>5, <1>6, <2>2
  <2> QED
    BY <1>1, <1>6, <2>3
<1> QED
  BY <1>6, <1>7

\* A setup can pay for its lots, when it can pay for the smallest lot.
LEMMA SizeAffords ==
    ASSUME NEW money \in Int, NEW atr \in Atrs, 75 * atr <= money,
           NEW lots \in PositionSize(money, atr)
    PROVE  Affords(money, lots, atr)
<1>1. CASE lots = 1
  BY <1>1, AtrIs DEF Affords
<1>2. CASE (300 * atr) * lots <= 2 * money + 150 * atr
  BY <1>2, AtrIs, SizeIs DEF Affords
<1> QED
  BY <1>1, <1>2, SizeIs

\* A stop no further than three half points of atr away loses what atr was sized for.
LEMMA LossIsSized ==
    ASSUME NEW money \in Int, NEW lots \in Nat, NEW atr \in Int, Affords(money, lots, atr),
           NEW move \in Int, move >= -(3 * atr), NEW pnl \in Int, 2 * pnl >= move * lots - 1
    PROVE  200 * pnl >= -(2 * money + 150 * atr + 100)
<1>1. \A a \in Int, b \in Int, k \in Nat : a >= b => a * k >= b * k
  OBVIOUS
<1>2. move * lots >= (-(3 * atr)) * lots
  BY <1>1
<1>3. 100 * ((-(3 * atr)) * lots) >= -(2 * money + 150 * atr)
  BY DEF Affords
<1> DEFINE x == move * lots
           y == (-(3 * atr)) * lots
<1>4. x \in Int /\ y \in Int
  OBVIOUS
<1> HIDE DEF x, y
<1>5. x >= y /\ 100 * y >= -(2 * money + 150 * atr) /\ 2 * pnl >= x - 1
  BY <1>2, <1>3 DEF x, y
<1> QED
  BY <1>4, <1>5

\* The ratchet moves a stop in the trade's favour only.
LEMMA TrailTightens ==
    ASSUME NEW side \in {1, -1}, NEW sl \in Int, NEW close \in Levels, NEW atr \in Atrs,
           NEW new, new = TrailingStop(side, sl, close, atr)
    PROVE  new \in Int /\ side * new >= side * sl
<1>1. close \in Int /\ atr \in Int
  BY AtrIs, LevelIs
<1>2. CASE side = 1
  BY <1>1, <1>2 DEF TrailingStop, Tighter, Distance
<1>3. CASE side = -1
  BY <1>1, <1>3 DEF TrailingStop, Tighter, Distance
<1> QED
  BY <1>2, <1>3

LEMMA ProfitIs ==
    ASSUME NEW p \in PositionRecords, NEW pnl \in Profit(p)
    PROVE  pnl \in Int /\ 2 * pnl >= (p.side * (p.sl - p.entry)) * p.lots - 1
<1>1. p.side \in Int /\ p.sl \in Int /\ p.entry \in Int /\ p.lots \in Int
  <2>1. p.side \in {1, -1} /\ p.sl \in Int /\ p.entry \in Levels /\ p.lots \in Nat
    BY DEF PositionRecords
  <2>2. p.entry \in Int
    BY <2>1, LevelIs
  <2> QED
    BY <2>1, <2>2
<1> DEFINE twice == p.side * (p.sl - p.entry) * p.lots
<1>2. twice \in Int
  BY <1>1
<1>3. pnl \in {twice \div 2, (twice + 1) \div 2}
  BY DEF Profit
<1>4. \A x \in Int : /\ x \div 2 \in Int /\ 2 * (x \div 2) >= x - 1
                     /\ (x + 1) \div 2 \in Int /\ 2 * ((x + 1) \div 2) >= x - 1
  OBVIOUS
<1>5. pnl \in Int /\ 2 * pnl >= twice - 1
  <2> HIDE DEF twice
  <2> QED
    BY <1>2, <1>3, <1>4
<1> QED
  BY <1>5

-----------------------------------------------------------------------------
(* Steps. *)

\* An order, and a position, made of these parts.
IsOrder(o, h, b, l, s, n) ==
    o \in OrderRecords /\ o.high = h /\ o.buySl = b /\ o.low = l /\ o.sellSl = s /\ o.lots = n
IsPosition(p, d, e, s, n) ==
    p \in PositionRecords /\ p.side = d /\ p.entry = e /\ p.sl = s /\ p.lots = n

LEMMA AnOrder ==
    ASSUME NEW h \in Levels, NEW b \in Int, NEW l \in Levels, NEW s \in Int, NEW n \in Nat \ {0},
           NEW o, o = [high |-> h, buySl |-> b, low |-> l, sellSl |-> s, lots |-> n]
    PROVE  IsOrder(o, h, b, l, s, n)
BY DEF OrderRecords, IsOrder

LEMMA APosition ==
    ASSUME NEW d \in {1, -1}, NEW e \in Levels, NEW s \in Int, NEW n \in Nat \ {0},
           NEW p, p = [side |-> d, entry |-> e, sl |-> s, lots |-> n]
    PROVE  IsPosition(p, d, e, s, n)
BY DEF PositionRecords, IsPosition

\* Something at work is not nothing: it has lots.
LEMMA AtWork ==
    ASSUME NEW r \in OrderRecords \cup PositionRecords
    PROVE  r # None
<1>1. r.lots # 0
  BY DEF OrderRecords, PositionRecords
<1> QED
  BY <1>1 DEF None

\* The hour of an inside bar places two orders with the lots and the stops of its ATR.
LEMMA SearchPlaces ==
    ASSUME Search, equity \in Int
    PROVE  /\ orders' \in OrderRecords
           /\ \E atr \in Atrs : /\ orders'.lots \in PositionSize(equity, atr)
                                /\ orders'.high - orders'.buySl = 3 * atr
                                /\ orders'.sellSl - orders'.low = 3 * atr
<1>0. PICK atr \in Atrs : \E bar \in Bars, lots \in PositionSize(equity, atr) :
        orders' = [high |-> bar.high, buySl |-> InitialStopLoss(1, bar.high, atr),
                   low |-> bar.low, sellSl |-> InitialStopLoss(-1, bar.low, atr), lots |-> lots]
  BY DEF Search
<1>1. PICK bar \in Bars, lots \in PositionSize(equity, atr) :
        orders' = [high |-> bar.high, buySl |-> InitialStopLoss(1, bar.high, atr),
                   low |-> bar.low, sellSl |-> InitialStopLoss(-1, bar.low, atr), lots |-> lots]
  BY <1>0
<1>2. bar.high \in Levels /\ bar.low \in Levels /\ atr \in Int /\ lots \in Nat \ {0}
  BY AtrIs, SizeIs DEF Bars
<1>3. bar.high \in Int /\ bar.low \in Int
  BY <1>2, LevelIs
<1> DEFINE b == bar.high - 3 * atr
           s == bar.low + 3 * atr
<1>4. /\ InitialStopLoss(1, bar.high, atr) = b /\ b \in Int
      /\ InitialStopLoss(-1, bar.low, atr) = s /\ s \in Int
  BY <1>2, <1>3 DEF InitialStopLoss, Distance
<1>5. bar.high - b = 3 * atr /\ s - bar.low = 3 * atr
  BY <1>2, <1>3
<1> HIDE DEF b, s
<1>6. IsOrder(orders', bar.high, b, bar.low, s, lots)
  BY <1>1, <1>2, <1>4, AnOrder
<1> QED
  BY <1>1, <1>5, <1>6 DEF IsOrder

\* A fill gives the position the lots and the stop of its order.
LEMMA OpenedIs ==
    ASSUME orders \in OrderRecords, NEW side \in {1, -1}, NEW entry \in Levels, NEW sl \in Int,
           NEW p, p = Opened(side, entry, sl)
    PROVE  IsPosition(p, side, entry, sl, orders.lots)
<1>1. orders.lots \in Nat \ {0}
  BY DEF OrderRecords
<1> QED
  BY <1>1, APosition DEF Opened

LEMMA PendingFills ==
    ASSUME Pending, orders \in OrderRecords
    PROVE  \/ /\ \/ IsPosition(position', 1, orders.high, orders.buySl, orders.lots)
                 \/ IsPosition(position', -1, orders.low, orders.sellSl, orders.lots)
              /\ state' = "IN_TRADE" /\ trades' = trades + 1
           \/ state' = "SEARCHING" /\ UNCHANGED <<position, trades>>
<1>1. /\ orders.high \in Levels /\ orders.low \in Levels
      /\ orders.buySl \in Int /\ orders.sellSl \in Int
  BY DEF OrderRecords
<1>2. \/ /\ \/ position' = Opened(1, orders.high, orders.buySl)
            \/ position' = Opened(-1, orders.low, orders.sellSl)
         /\ state' = "IN_TRADE" /\ trades' = trades + 1
      \/ state' = "SEARCHING" /\ UNCHANGED <<position, trades>>
  BY DEF Pending
<1>3. ASSUME position' = Opened(1, orders.high, orders.buySl)
      PROVE  IsPosition(position', 1, orders.high, orders.buySl, orders.lots)
  BY <1>1, <1>3, OpenedIs
<1>4. ASSUME position' = Opened(-1, orders.low, orders.sellSl)
      PROVE  IsPosition(position', -1, orders.low, orders.sellSl, orders.lots)
  BY <1>1, <1>4, OpenedIs
<1> QED
  BY <1>2, <1>3, <1>4

\* The ratchet changes the stop and only tightens it.
LEMMA TrailedTightens ==
    ASSUME Trailed, position \in PositionRecords
    PROVE  /\ position' \in PositionRecords
           /\ position'.side = position.side /\ position'.entry = position.entry
           /\ position'.lots = position.lots
           /\ position.side * position'.sl >= position.side * position.sl
<1>1. /\ position.side \in {1, -1} /\ position.sl \in Int
      /\ position.entry \in Levels /\ position.lots \in Nat \ {0}
  BY DEF PositionRecords
<1>2. PICK bar \in Bars, atr \in Atrs :
        position' = [position EXCEPT !.sl = TrailingStop(position.side, position.sl, bar.close, atr)]
  BY DEF Trailed
<1> DEFINE new == TrailingStop(position.side, position.sl, bar.close, atr)
<1>3. bar.close \in Levels
  BY DEF Bars
<1>4. new \in Int /\ position.side * new >= position.side * position.sl
  BY <1>1, <1>3, TrailTightens
<1> HIDE DEF new
<1>5. position' = [position EXCEPT !.sl = new]
  BY <1>2 DEF new
<1>6. /\ position' \in PositionRecords /\ position'.sl = new
      /\ position'.side = position.side /\ position'.entry = position.entry
      /\ position'.lots = position.lots
  BY <1>4, <1>5 DEF PositionRecords
<1> QED
  BY <1>1, <1>4, <1>6

-----------------------------------------------------------------------------
(* Types, and an account that halts flat. *)

\* What is at work was set up within the limits, and nothing has been lost since.
Working == state \in {"PENDING_PLACED", "IN_TRADE"}
FlatInv ==
    /\ TypeOK /\ HaltsFlat
    /\ Working => Allowed
    /\ state = "PENDING_PLACED" => trades < MaxTrades

\* In every hour that acts, orders and position are what the state says they are.
LEMMA AtWorkAre ==
    ASSUME FlatInv
    PROVE  /\ state = "PENDING_PLACED" => orders \in OrderRecords
           /\ state = "IN_TRADE" => position \in PositionRecords
BY DEF FlatInv, TypeOK, HaltsFlat, OrderRecords, PositionRecords

\* Nothing at all satisfies it: no account has traded yet.
LEMMA FlatInit == Init => FlatInv
BY DEF Init, FlatInv, TypeOK, HaltsFlat, Working

LEMMA FlatStep == FlatInv /\ [Next]_vars => FlatInv'
<1> SUFFICES ASSUME FlatInv, [Next]_vars PROVE FlatInv'
  OBVIOUS
<1>0. /\ TypeOK /\ HaltsFlat /\ (Working => Allowed)
      /\ state = "PENDING_PLACED" => trades < MaxTrades
  BY DEF FlatInv
<1>1. CASE Halt
  <2>1. ~Working
    BY <1>0, <1>1 DEF Halt
  <2> QED
    BY <1>0, <1>1, <2>1 DEF Halt, FlatInv, TypeOK, HaltsFlat, Working
<1>2. CASE Search
  <2>1. orders' \in OrderRecords
    BY <1>0, <1>2, SearchPlaces DEF TypeOK
  <2>2. orders' # None
    BY <2>1, AtWork
  <2>3. /\ state = "SEARCHING" /\ state' = "PENDING_PLACED" /\ Allowed
        /\ UNCHANGED <<hardFloor, equity, position, trades>>
    BY <1>2 DEF Search
  <2>4. TypeOK'
    BY <1>0, <2>1, <2>3 DEF TypeOK, OrderRecords
  <2>5. HaltsFlat'
    BY <1>0, <2>2, <2>3 DEF HaltsFlat
  <2>6. Allowed' /\ trades' < MaxTrades
    BY <1>2, <2>3 DEF Allowed, Search
  <2> QED
    BY <2>4, <2>5, <2>6 DEF FlatInv
<1>3. CASE Pending
  <2>1. /\ Allowed /\ state = "PENDING_PLACED" /\ orders' = None
        /\ UNCHANGED <<hardFloor, equity>>
    BY <1>3 DEF Pending
  <2>2. orders \in OrderRecords /\ position = None
    BY <1>0, <2>1, AtWorkAre DEF HaltsFlat
  <2>3. Allowed'
    BY <2>1 DEF Allowed
  <2>4. ASSUME position' \in PositionRecords, state' = "IN_TRADE", trades' = trades + 1
        PROVE  FlatInv'
    <3>1. position' # None
      BY <2>4, AtWork
    <3>2. trades' \in 0 .. MaxTrades
      BY <1>0, <2>1, <2>4 DEF TypeOK
    <3> QED
      BY <1>0, <2>1, <2>3, <2>4, <3>1, <3>2 DEF FlatInv, TypeOK, HaltsFlat, PositionRecords
  <2>5. CASE state' = "SEARCHING" /\ UNCHANGED <<position, trades>>
    BY <1>0, <2>1, <2>2, <2>3, <2>5 DEF FlatInv, TypeOK, HaltsFlat
  <2>6. ASSUME \/ IsPosition(position', 1, orders.high, orders.buySl, orders.lots)
               \/ IsPosition(position', -1, orders.low, orders.sellSl, orders.lots)
        PROVE  position' \in PositionRecords
    BY <2>6 DEF IsPosition
  <2> QED
    BY <1>3, <2>2, <2>4, <2>5, <2>6, PendingFills
<1>4. CASE StopExit
  <2>1. /\ state = "IN_TRADE" /\ position' = None /\ state' = "SEARCHING"
        /\ UNCHANGED <<hardFloor, orders, trades>>
    BY <1>4 DEF StopExit
  <2>2. position \in PositionRecords /\ orders = None
    BY <1>0, <2>1, AtWorkAre DEF HaltsFlat
  <2>3. PICK pnl \in Profit(position) : equity' = equity + pnl
    BY <1>4 DEF StopExit
  <2>4. equity' \in Int
    BY <1>0, <2>2, <2>3, ProfitIs DEF TypeOK
  <2> QED
    BY <1>0, <2>1, <2>2, <2>4 DEF FlatInv, TypeOK, HaltsFlat, Working
<1>5. CASE Trailed
  <2>1. /\ state = "IN_TRADE" /\ Allowed
        /\ UNCHANGED <<hardFloor, state, equity, orders, trades>>
    BY <1>5 DEF Trailed
  <2>2. position \in PositionRecords /\ position # None
    BY <1>0, <2>1, AtWorkAre DEF HaltsFlat
  <2>3. position' \in PositionRecords
    BY <1>5, <2>2, TrailedTightens
  <2>4. position' # None
    BY <2>3, AtWork
  <2> QED
    BY <1>0, <2>1, <2>2, <2>3, <2>4
       DEF FlatInv, TypeOK, HaltsFlat, Working, Allowed, PositionRecords
<1>6. CASE UNCHANGED vars
  BY <1>0, <1>6 DEF vars, FlatInv, TypeOK, HaltsFlat, Working, Allowed
<1> QED
  BY <1>1, <1>2, <1>3, <1>4, <1>5, <1>6 DEF Next

LEMMA FlatAlways == Spec => []FlatInv
BY FlatInit, FlatStep, PTL DEF Spec

\* Every variable keeps its type, for every level, ATR and limit.
THEOREM TypeCorrect == Spec => []TypeOK
<1>1. FlatInv => TypeOK
  BY DEF FlatInv
<1> QED
  BY <1>1, FlatAlways, PTL

\* An account that halts has neither an order nor a position at work, and no state of
\* the engine forgets one.
THEOREM HaltedIsFlat == Spec => []HaltsFlat
<1>1. FlatInv => HaltsFlat
  BY DEF FlatInv
<1> QED
  BY <1>1, FlatAlways, PTL

-----------------------------------------------------------------------------
(* What a trade may cost. *)

\* The account starts within its limits, and the smallest lot on the widest ATR costs
\* no more than the 1 % of an account at its daily limit: the code opens 0.01 lots
\* whatever they cost (griff_engine_live.py:254).
Funded ==
    /\ \A e \in Starts, f \in Floors : e > f /\ 20 * (DayStart - e) < DayStart
    /\ \A a \in Atrs : 75 * a <= (19 * DayStart) \div 20

\* The orders, and the position, are those of a setup that could pay for them.
OrdersPaid(o) ==
    \E atr \in Atrs : /\ Affords(equity, o.lots, atr)
                      /\ o.high - o.buySl = 3 * atr /\ o.sellSl - o.low = 3 * atr
PositionPaid(p) ==
    \E atr \in Atrs : /\ Affords(equity, p.lots, atr)
                      /\ p.side * (p.sl - p.entry) >= -(3 * atr)
Paid ==
    /\ state = "PENDING_PLACED" => OrdersPaid(orders)
    /\ state = "IN_TRADE" => PositionPaid(position)

\* An account within its limits has what they demand.
LEMMA AllowedIs ==
    ASSUME FlatInv, Allowed
    PROVE  Limit \in Int /\ equity >= Limit /\ equity >= (19 * DayStart) \div 20
BY DEF FlatInv, TypeOK, Allowed, Limit

\* A filled order is as far from its stop as its setup said.
LEMMA FillPaid ==
    ASSUME orders \in OrderRecords, OrdersPaid(orders), equity' = equity,
           \/ IsPosition(position', 1, orders.high, orders.buySl, orders.lots)
           \/ IsPosition(position', -1, orders.low, orders.sellSl, orders.lots)
    PROVE  PositionPaid(position)'
<1>1. PICK atr \in Atrs : /\ Affords(equity, orders.lots, atr)
                          /\ orders.high - orders.buySl = 3 * atr
                          /\ orders.sellSl - orders.low = 3 * atr
  BY DEF OrdersPaid
<1>2. /\ orders.high \in Levels /\ orders.low \in Levels
      /\ orders.buySl \in Int /\ orders.sellSl \in Int /\ atr \in Int
  BY AtrIs DEF OrderRecords
<1>3. orders.high \in Int /\ orders.low \in Int
  BY <1>2, LevelIs
<1>4. position'.lots = orders.lots
  BY DEF IsPosition
<1>5. position'.side * (position'.sl - position'.entry) = -(3 * atr)
  BY <1>1, <1>2, <1>3 DEF IsPosition
<1>6. Affords(equity', position'.lots, atr)
  BY <1>1, <1>4
<1>7. position'.side * (position'.sl - position'.entry) >= -(3 * atr)
  BY <1>2, <1>5
<1> QED
  BY <1>6, <1>7 DEF PositionPaid

\* The ratchet never takes the stop further away.
LEMMA TrailPaid ==
    ASSUME Trailed, position \in PositionRecords, PositionPaid(position)
    PROVE  PositionPaid(position)'
<1>1. PICK atr \in Atrs : /\ Affords(equity, position.lots, atr)
                          /\ position.side * (position.sl - position.entry) >= -(3 * atr)
  BY DEF PositionPaid
<1>2. /\ position' \in PositionRecords
      /\ position'.side = position.side /\ position'.entry = position.entry
      /\ position'.lots = position.lots
      /\ position.side * position'.sl >= position.side * position.sl
  BY TrailedTightens
<1>3. /\ position.side \in {1, -1} /\ position.sl \in Int /\ position.entry \in Levels
      /\ position'.sl \in Int /\ atr \in Int
  BY <1>2, AtrIs DEF PositionRecords
<1>4. position.entry \in Int
  BY <1>3, LevelIs
<1>5. position.side * (position'.sl - position.entry) >= -(3 * atr)
  BY <1>1, <1>2, <1>3, <1>4
<1>6. position'.side * (position'.sl - position'.entry) >= -(3 * atr)
  BY <1>2, <1>5
<1>7. equity' = equity
  BY DEF Trailed
<1>8. Affords(equity', position'.lots, atr)
  BY <1>1, <1>2, <1>7
<1> QED
  BY <1>6, <1>8 DEF PositionPaid

LEMMA PaidStep == Funded /\ FlatInv /\ Paid /\ [Next]_vars => Paid'
<1> SUFFICES ASSUME Funded, FlatInv, Paid, [Next]_vars PROVE Paid'
  OBVIOUS
<1>0. equity \in Int
  BY DEF FlatInv, TypeOK
<1>1. CASE Halt \/ StopExit
  BY <1>1 DEF Halt, StopExit, Paid
<1>2. CASE Search
  <2>1. PICK atr \in Atrs : /\ orders'.lots \in PositionSize(equity, atr)
                            /\ orders'.high - orders'.buySl = 3 * atr
                            /\ orders'.sellSl - orders'.low = 3 * atr
    BY <1>0, <1>2, SearchPlaces
  <2>2. Allowed /\ equity' = equity /\ state' = "PENDING_PLACED"
    BY <1>2 DEF Search
  <2>3. 75 * atr <= equity
    BY <1>0, <2>2, AllowedIs, AtrIs DEF Funded
  <2>4. Affords(equity', orders'.lots, atr)
    BY <1>0, <2>1, <2>2, <2>3, SizeAffords
  <2> QED
    BY <2>1, <2>2, <2>4 DEF Paid, OrdersPaid
<1>3. CASE Pending
  <2>1. state = "PENDING_PLACED" /\ equity' = equity
    BY <1>3 DEF Pending
  <2>2. orders \in OrderRecords /\ OrdersPaid(orders)
    BY <2>1, AtWorkAre DEF Paid
  <2>3. CASE \/ IsPosition(position', 1, orders.high, orders.buySl, orders.lots)
             \/ IsPosition(position', -1, orders.low, orders.sellSl, orders.lots)
    <3>1. PositionPaid(position)'
      BY <2>1, <2>2, <2>3, FillPaid
    <3>2. state' # "PENDING_PLACED"
      BY <1>3 DEF Pending
    <3> QED
      BY <3>1, <3>2 DEF Paid
  <2>4. CASE state' = "SEARCHING"
    BY <2>4 DEF Paid
  <2> QED
    BY <1>3, <2>2, <2>3, <2>4, PendingFills
<1>4. CASE Trailed
  <2>1. state = "IN_TRADE" /\ state' = "IN_TRADE"
    BY <1>4 DEF Trailed
  <2>2. position \in PositionRecords /\ PositionPaid(position)
    BY <2>1, AtWorkAre DEF Paid
  <2> QED
    BY <1>4, <2>1, <2>2, TrailPaid DEF Paid
<1>5. CASE UNCHANGED vars
  BY <1>5 DEF vars, Paid, OrdersPaid, PositionPaid
<1> QED
  BY <1>1, <1>2, <1>3, <1>4, <1>5 DEF Next

\* An exit takes what its setup was sized for.
LEMMA ExitCosts ==
    ASSUME FlatInv, Paid, StopExit
    PROVE  LossBounded'
<1>1. state = "IN_TRADE" /\ Allowed
  BY DEF StopExit
<1>2. position \in PositionRecords /\ PositionPaid(position)
  BY <1>1, AtWorkAre DEF Paid
<1>3. PICK atr \in Atrs : /\ Affords(equity, position.lots, atr)
                          /\ position.side * (position.sl - position.entry) >= -(3 * atr)
  BY <1>2 DEF PositionPaid
<1>4. PICK pnl \in Profit(position) : equity' = equity + pnl
  BY DEF StopExit
<1> DEFINE move == position.side * (position.sl - position.entry)
<1>5. pnl \in Int /\ 2 * pnl >= move * position.lots - 1
  BY <1>2, ProfitIs
<1>6. /\ equity \in Int /\ atr \in Int /\ atr >= 1 /\ position.lots \in Nat
      /\ position.side \in {1, -1} /\ position.sl \in Int /\ position.entry \in Levels
  BY <1>2, AtrIs DEF FlatInv, TypeOK, PositionRecords
<1>7. move \in Int
  <2>1. position.entry \in Int
    BY <1>6, LevelIs
  <2> QED
    BY <1>6, <2>1
<1> HIDE DEF move
<1>8. 200 * pnl >= -(2 * equity + 150 * atr + 100)
  <2>1. move >= -(3 * atr)
    BY <1>3 DEF move
  <2> QED
    BY <1>3, <1>5, <1>6, <1>7, <2>1, LossIsSized
<1>9. Limit \in Int /\ equity >= Limit /\ Limit' = Limit
  BY <1>1, AllowedIs DEF StopExit, Limit
<1>10. ASSUME NEW a \in Atrs, atr <= a
       PROVE  equity' + a + 1 >= (99 * Limit) \div 100
  BY <1>4, <1>5, <1>6, <1>8, <1>9, <1>10, AtrIs
<1> QED
  BY <1>9, <1>10 DEF LossBounded

\* However the ATR changes between the setup, the ratchets and the exit, a funded
\* account never falls more than one trade's 1 % and its rounding below its limits.
THEOREM LossIsBounded ==
    ASSUME Funded
    PROVE  Spec => []LossBounded
<1>1. Init => Paid /\ LossBounded
  <2> SUFFICES ASSUME Init PROVE Paid /\ LossBounded
    OBVIOUS
  <2>1. FlatInv /\ Allowed
    BY FlatInit DEF Init, Funded, Allowed
  <2>2. equity \in Int /\ Limit \in Int /\ equity >= Limit /\ Limit >= 0
    BY <2>1, AllowedIs DEF FlatInv, TypeOK, Limit
  <2>3. ASSUME NEW a \in Atrs PROVE equity + a + 1 >= (99 * Limit) \div 100
    BY <2>2, AtrIs
  <2> QED
    BY <2>3 DEF Init, Paid, LossBounded
<1>2. FlatInv /\ Paid /\ LossBounded /\ [Next]_vars => LossBounded'
  <2> SUFFICES ASSUME FlatInv, Paid, LossBounded, [Next]_vars PROVE LossBounded'
    OBVIOUS
  <2>1. CASE StopExit
    BY <2>1, ExitCosts
  <2>2. CASE Halt \/ Search \/ Pending \/ Trailed \/ UNCHANGED vars
    <3>1. equity' = equity /\ hardFloor' = hardFloor
      BY <2>2 DEF Halt, Search, Pending, Trailed, vars
    <3> QED
      BY <3>1 DEF LossBounded, Limit
  <2> QED
    BY <2>1, <2>2 DEF Next
<1>3. FlatInv /\ Paid /\ [Next]_vars => Paid'
  BY PaidStep
<1> QED
  BY <1>1, <1>2, <1>3, FlatAlways, PTL DEF Spec
=============================================================================
