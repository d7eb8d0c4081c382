------------------------------- MODULE Strategy -------------------------------
(***************************************************************************)
(* What decides about a trade before there is one: the entry modes of       *)
(* modules/entry, the filters of modules/filters with the second copy in    *)
(* backtester/engine.py, and the position sizes of modules/risk with the    *)
(* second copy there.  Pure functions of a candle, a context and an         *)
(* account: prices in points, risk in thousandths of a percent, lots in     *)
(* hundredths, dollars.                                                     *)
(***************************************************************************)
EXTENDS Position

CONSTANTS
    Levels,       \* prices of the candles
    Low, High,    \* the range of the session before
    Widths,       \* range widths the filters see
    Balances,     \* account equities, in dollars
    Atrs,         \* ATRs a simulator is given, 0 for none
    Results       \* sizes of recorded wins and losses, in dollars

ASSUME StrategyAssumption ==
    /\ Levels \cup Widths \cup Balances \cup Atrs \cup {Low, High} \subseteq Nat /\ Low < High
    /\ Results \subseteq Nat \ {0}

-----------------------------------------------------------------------------
(* modules/entry: a candle against the range, giving a direction and a price. *)

NoSignal == [dir |-> 0, price |-> 0]
Signal(above, dir, high, below, low) ==
    IF above THEN [dir |-> dir, price |-> high]
    ELSE IF below THEN [dir |-> -dir, price |-> low]
    ELSE NoSignal
Width(c) == c.high - c.low

\* london.py fades the break of a range.
BlindLimit(c, r) == Signal(c.high >= r.high, -1, r.high, c.low <= r.low, r.low)
SweepConfirmation(c, r) ==
    Signal(c.high > r.high /\ c.close < r.high, -1, c.close, c.low < r.low /\ c.close > r.low, c.close)
Bug_DynamicBuffer(c, r, atr) ==
    LET buffer == IF atr = 0 THEN 5 ELSE (3 * atr) \div 10
    IN Signal(c.high >= r.high, -1, r.high + buffer, c.low <= r.low, r.low - buffer)
DynamicBuffer(c, r, atr) ==
    LET buffer == IF atr = 0 THEN 5 ELSE (3 * atr) \div 10
    IN BlindLimit(c, [high |-> r.high + buffer, low |-> r.low - buffer])
TimeWeighted(c, r) == BlindLimit(c, r)
OrderFlowSpreadGate(c, r) == IF Width(c) < 3 THEN BlindLimit(c, r) ELSE NoSignal
MultiTimeframe(c, r) ==
    Signal(c.high >= r.high /\ c.close < c.open, -1, c.close, c.low <= r.low /\ c.close > c.open, c.close)
HybridSweepTimeSpread(c, r) == IF Width(c) < 3 THEN SweepConfirmation(c, r) ELSE NoSignal

LondonModes == {"blind_limit", "sweep_confirmation", "dynamic_buffer", "time_weighted",
                "order_flow_spread_gate", "multi_timeframe", "hybrid_sweep_time_spread"}
LondonEntry(mode, c, r, atr) ==
    CASE mode = "blind_limit" -> BlindLimit(c, r)
      [] mode = "sweep_confirmation" -> SweepConfirmation(c, r)
      [] mode = "dynamic_buffer" -> DynamicBuffer(c, r, atr)
      [] mode = "time_weighted" -> TimeWeighted(c, r)
      [] mode = "order_flow_spread_gate" -> OrderFlowSpreadGate(c, r)
      [] mode = "multi_timeframe" -> MultiTimeframe(c, r)
      [] mode = "hybrid_sweep_time_spread" -> HybridSweepTimeSpread(c, r)
      [] OTHER -> NoSignal

\* omni.py goes with it.
StopOrderAtRange(c, r) == Signal(c.high >= r.high, 1, r.high, c.low <= r.low, r.low)
CloseConfirmation(c, r) == Signal(c.close > r.high, 1, c.close, c.close < r.low, c.close)
VolumeSpikeGate(c, r) == IF c.volume > 0 THEN StopOrderAtRange(c, r) ELSE NoSignal
RetestEntry(c, r) ==
    Signal(c.low <= r.high /\ c.close > r.high, 1, c.close, c.high >= r.low /\ c.close < r.low, c.close)
MomentumThreshold(c, r) ==
    Signal(c.close > r.high + 10, 1, c.close, c.close < r.low - 10, c.close)
DualTimeframe(c, r) ==
    Signal(c.close > r.high /\ c.close > c.open, 1, c.close, c.close < r.low /\ c.close < c.open, c.close)
HybridRetestVolumeSpread(c, r) ==
    IF Width(c) < 5 /\ c.volume > 0 THEN RetestEntry(c, r) ELSE NoSignal

OmniModes == {"stop_order_at_range", "close_confirmation", "volume_spike_gate", "retest_entry",
              "momentum_threshold", "dual_timeframe", "hybrid_retest_volume_spread"}
OmniEntry(mode, c, r) ==
    CASE mode = "stop_order_at_range" -> StopOrderAtRange(c, r)
      [] mode = "close_confirmation" -> CloseConfirmation(c, r)
      [] mode = "volume_spike_gate" -> VolumeSpikeGate(c, r)
      [] mode = "retest_entry" -> RetestEntry(c, r)
      [] mode = "momentum_threshold" -> MomentumThreshold(c, r)
      [] mode = "dual_timeframe" -> DualTimeframe(c, r)
      [] mode = "hybrid_retest_volume_spread" -> HybridRetestVolumeSpread(c, r)
      [] OTHER -> NoSignal

-----------------------------------------------------------------------------
(* modules/filters: the contexts a day can be in.  None of the engines gives  *)
(* the signals that four of the filters could refuse on.                      *)

Contexts == [atr : {0, Atr}, width : Widths, spread : {1, 4, 5}, weekday : 0 .. 6, news : BOOLEAN,
             signals : {{}}]

Bug_AtrGate(x) == x.atr = 0 \/ (2 * x.width > x.atr /\ x.width <= 2 * x.atr)
\* An ATR of 0 stands for none as well.
AtrGate(x) == x.atr = 0 \/ (2 * x.width >= x.atr /\ x.width <= 2 * x.atr)
SpreadGate(x) == x.spread < 5
DayOfWeek(x) == x.weekday \notin {0, 4}
OrbWidthGate(x) == AtrGate(x)
VixRegime(x) == "low_vix" \notin x.signals
NewsBlackout(x) == ~x.news
PreSessionMomentum(x) == "drifted" \notin x.signals
VolatilityPercentile(x) == "extreme" \notin x.signals
PreOpenTrend(x) == "against" \notin x.signals

Filters == {"atr_gate", "spread_gate", "day_of_week", "orb_width_gate", "vix_regime", "news_blackout",
            "pre_session_momentum", "volatility_percentile", "pre_open_trend", "london_session_result"}
Aliases == {"session_overlap_gate", "spread_health_gate"}
Resolved(name) ==
    CASE name = "session_overlap_gate" -> "volatility_percentile"
      [] name = "spread_health_gate" -> "spread_gate"
      [] OTHER -> name

Passes(name, x) ==
    CASE name = "atr_gate" -> AtrGate(x)
      [] name = "spread_gate" -> SpreadGate(x)
      [] name = "day_of_week" -> DayOfWeek(x)
      [] name = "orb_width_gate" -> OrbWidthGate(x)
      [] name = "vix_regime" -> VixRegime(x)
      [] name = "news_blackout" -> NewsBlackout(x)
      [] name = "pre_session_momentum" -> PreSessionMomentum(x)
      [] name = "volatility_percentile" -> VolatilityPercentile(x)
      [] name = "pre_open_trend" -> PreOpenTrend(x)
      [] OTHER -> TRUE
ShouldTrade(active, x) == \A name \in active : Passes(Resolved(name), x)

\* The backtester's copy of the filters, which knows no alias.
CheckFilter(name, x) ==
    CASE name \in {"atr_gate", "orb_width_gate"} ->
           x.atr = 0 \/ (2 * x.width >= x.atr /\ x.width <= 2 * x.atr)
      [] name = "spread_gate" -> x.spread < 5
      [] name = "day_of_week" -> x.weekday \notin {0, 4}
      [] OTHER -> TRUE
BacktestTrades(active, x) == \A name \in active : CheckFilter(name, x)

-----------------------------------------------------------------------------
(* modules/risk: what is risked on the next trade, in thousandths of a        *)
(* percent of the equity.  A record h holds what is kept of the trades so far *)
(* (up to a hundred, with the wins among the last three as streak) and of the *)
(* equities (up to two hundred; is the equity above the mean of the last 20). *)

Histories ==
    {h \in [trades : {0, 2, 20, 100}, wins : {0, 2, 10, 19}, losses : {0, 1, 10}, win : Results,
            loss : Results, streak : 0 .. 3, readings : {0, 20}, above : BOOLEAN] :
       /\ h.wins + h.losses <= h.trades /\ h.streak <= h.wins
       /\ (h.trades <= 3 => h.streak = h.wins)}

Bug_Clamped(pct) == IF pct < 100 THEN 100 ELSE pct
Clamped(pct) == IF pct < 100 THEN 100 ELSE IF pct > 1000 THEN 1000 ELSE pct

ConservativeRamp(equity) == IF equity < 98000 THEN 250 ELSE IF equity < 102000 THEN 500 ELSE 750
\* Half of win_rate - (1 - win_rate) * avg_loss / avg_win.
HalfKelly(h) == (50000 * (h.wins * h.win - (h.trades - h.wins) * h.loss)) \div (h.trades * h.win)
Kelly(h) == IF h.trades < 20 \/ h.wins = 0 \/ h.losses = 0 THEN 350 ELSE Clamped(HalfKelly(h))
Bug_AntiMartingale(h) ==
    IF h.trades < 3 THEN 500 ELSE IF h.streak >= 2 THEN 750 ELSE 250
AntiMartingale(h) ==
    IF h.trades < 3 \/ h.streak = 2 THEN 500 ELSE IF h.streak = 3 THEN 750 ELSE 250
VolatilityScaled(atr) == IF atr = 0 THEN 500 ELSE Clamped(25000 \div atr)
EquityCurve(h) == IF h.readings < 20 \/ h.above THEN 500 ELSE 250

RiskModels == {"conservative_ramp", "fixed_low", "aggressive_flat", "kelly_criterion",
               "anti_martingale", "volatility_scaled", "equity_curve"}
RiskPct(model, equity, h, atr) ==
    CASE model = "conservative_ramp" -> ConservativeRamp(equity)
      [] model = "fixed_low" -> 350
      [] model = "aggressive_flat" -> 750
      [] model = "kelly_criterion" -> Kelly(h)
      [] model = "anti_martingale" -> AntiMartingale(h)
      [] model = "volatility_scaled" -> VolatilityScaled(atr)
      [] model = "equity_curve" -> EquityCurve(h)
      [] OTHER -> 500

\* The backtester's copies.
BacktestKelly(h) ==
    IF h.trades >= 20 /\ h.wins > 0 /\ h.losses > 0 THEN Clamped(HalfKelly(h)) ELSE 350
BacktestAntiMartingale(h) ==
    CASE h.trades < 3 -> 500 [] h.trades >= 3 -> <<250, 250, 500, 750>>[h.streak + 1]
BacktestVolatilityScaled(atr) == IF atr > 0 THEN Clamped(25000 \div atr) ELSE 500
BacktestEquityCurve(h) == IF h.readings >= 20 /\ ~h.above THEN 250 ELSE 500
BacktestRiskPct(model, equity, h, atr) ==
    CASE model = "conservative_ramp" /\ equity < 98000 -> 250
      [] model = "conservative_ramp" /\ equity >= 102000 -> 750
      [] model = "fixed_low" -> 350
      [] model = "aggressive_flat" -> 750
      [] model = "kelly_criterion" -> BacktestKelly(h)
      [] model = "anti_martingale" -> BacktestAntiMartingale(h)
      [] model = "volatility_scaled" -> BacktestVolatilityScaled(atr)
      [] model = "equity_curve" -> BacktestEquityCurve(h)
      [] OTHER -> 500
BacktestStop(exit, atr) ==
    CASE exit = "fixed_sl_tp" -> -SlPts
      [] exit \in {"fixed_sl_trail", "breakeven_runner", "multi_target_cascade"} -> -30
      [] exit = "atr_dynamic_trail" -> -((3 * atr) \div 2)
      [] exit = "time_based" -> -40
      [] OTHER -> -(3 * atr)

\* round(equity * risk / stop, 2); a tie goes up here, either way in binary.
RiskedLots(equity, pct, stop) == (2 * equity * pct + 1000 * stop) \div (2000 * stop)

\* The module's sizer keeps a size between 0.01 and 50 lots, the backtester's copy
\* between 0.01 and whatever comes out.
ComputeLots(equity, pct, stop) ==
    IF stop <= 0 THEN 0
    ELSE LET lots == Higher(RiskedLots(equity, pct, stop), 1) IN IF lots > 5000 THEN 5000 ELSE lots
BacktestLots(equity, pct, stop) ==
    IF stop <= 0 THEN 0 ELSE Higher(RiskedLots(equity, pct, stop), 1)

Engines == {"london", "omni"}
\* The distance a simulator sizes a trade for, London's by _get_sl_pts.
SizingStop(engine, exit, atr) ==
    IF exit = "atr_dynamic_trail" /\ atr # 0 THEN (3 * atr) \div 2
    ELSE IF engine # "london" THEN 75
    ELSE IF exit = "chandelier" /\ atr # 0 THEN 3 * atr
    ELSE 40
\* The distance of the stop it gets; each simulator has a fixed one of its own, and
\* the exits take 40 for an ATR they are not given.
Held(atr) == IF atr = 0 THEN 40 ELSE atr
StopGiven(engine, exit, atr) ==
    CASE exit = "fixed_sl_tp" /\ engine = "london" -> 40
      [] exit = "fixed_sl_tp" /\ engine # "london" -> 75
      [] OTHER -> -BacktestStop(exit, Held(atr))

-----------------------------------------------------------------------------
(* LondonReversalSimulator.simulate_day up to the position: the filters look at *)
(* the day, the account is sized, the candles are shown to the entry mode one   *)
(* by one.  OmniBreakoutSimulator differs in its modes and its distances.       *)

VARIABLES
    at,     \* the question: "filters", "sizing", "entry", or how the day ended
    asked   \* what it is decided on

strategyVars == <<at, asked>>

Bounds == [low |-> Low, high |-> High]
Bars == {c \in [open : Levels, high : Levels, low : Levels, close : Levels, volume : {0, 1}] :
           c.low <= c.open /\ c.open <= c.high /\ c.low <= c.close /\ c.close <= c.high}
Unasked == <<>>
Known == Filters \cup Aliases
\* Up to three filters at a time, as the tournament combines them.
Days == [active : {{f, g, h} : f \in Known, g \in Known, h \in Known}, day : Contexts]
Accounts == [engine : Engines, model : RiskModels, exit : ExitModels, equity : Balances,
             history : Histories, atr : Atrs]
Looks == [mode : LondonModes \cup OmniModes, candle : Bars, atr : {0, 10}]

Entry(look) ==
    IF look.mode \in LondonModes THEN LondonEntry(look.mode, look.candle, Bounds, look.atr)
    ELSE OmniEntry(look.mode, look.candle, Bounds)
Stake(a) == BacktestRiskPct(a.model, a.equity, a.history, a.atr)
SizedFor(a) == SizingStop(a.engine, a.exit, a.atr)
SimulatedLots(a) == BacktestLots(a.equity, Stake(a), SizedFor(a))

StrategyInit == at = "filters" /\ asked \in Days

\* The simulators give no spread, which makes it 1.
Filter ==
    /\ at = "filters"
    /\ at' = IF asked.day.width > 0 /\ BacktestTrades(asked.active, [asked.day EXCEPT !.spread = 1])
             THEN "sizing" ELSE "refused"
    /\ asked' = Unasked

Account == at = "sizing" /\ asked = Unasked /\ asked' \in Accounts /\ UNCHANGED at

Size ==
    /\ at = "sizing" /\ asked # Unasked
    /\ at' = IF SimulatedLots(asked) > 0 THEN "entry" ELSE "refused"
    /\ asked' = Unasked

Candle ==
    /\ at = "entry" /\ asked = Unasked
    /\ \/ asked' \in Looks /\ UNCHANGED at
       \/ at' = "over" /\ UNCHANGED asked

Look ==
    /\ at = "entry" /\ asked # Unasked
    /\ at' = IF Entry(asked) = NoSignal THEN "entry" ELSE "entered"
    /\ asked' = Unasked

StrategyNext == Filter \/ Account \/ Size \/ Candle \/ Look

StrategySpec == StrategyInit /\ [][StrategyNext]_strategyVars

-----------------------------------------------------------------------------
\* A candle that opens inside the range is entered, in every mode of both engines,
\* at a price it traded at: no simulated fill is made up (entry/london.py,
\* entry/omni.py; a candle that opens beyond the range is another matter).
EnteredWhereTraded ==
    at = "entry" /\ asked # Unasked =>
        LET c == asked.candle
            s == Entry(asked)
        IN s.dir # 0 /\ Low <= c.open /\ c.open <= High => c.low <= s.price /\ s.price <= c.high

\* The two copies of the filters refuse the same days, but for the dates of the
\* news blackout and the aliases, which only the module knows: what it admits
\* the backtester has traded (filters/engine.py:181, backtester/engine.py:490).
FilterCopiesAgree ==
    at = "filters" =>
        (ShouldTrade(asked.active, asked.day) <=>
            /\ BacktestTrades(asked.active, asked.day)
            /\ "news_blackout" \in asked.active => ~asked.day.news
            /\ "spread_health_gate" \in asked.active => asked.day.spread < 5)

\* The two copies of the risk models stake the same on every account and history,
\* and the two copies of the exits give every trade the same stop (risk/sizer.py:52,
\* exit/manager.py:49, backtester/engine.py:364, 548).
SizingCopiesAgree ==
    at = "sizing" /\ asked # Unasked =>
        /\ RiskPct(asked.model, asked.equity, asked.history, asked.atr) = Stake(asked)
        /\ InitialStop(asked.exit) = BacktestStop(asked.exit, Atr)

\* The trades whose stop is farther than the distance they are sized for.  The Omni
\* simulator sizes a chandelier for 75 points whatever its ATR; London, without an
\* ATR, sizes the exits that go by one for 40 points, and they take 60 and 120
\* (backtester/engine.py:557, 568, 802-807, 847-849).
Undersized(a) ==
    \/ a.engine # "london" /\ a.exit = "chandelier" /\ 3 * Held(a.atr) > 75
    \/ a.engine = "london" /\ a.exit \in {"atr_dynamic_trail", "chandelier"} /\ a.atr = 0

\* No other trade of a simulator, and none the module's sizer sizes for the same
\* distance, can lose more than 1 % of the account on its initial stop, whatever risk
\* model, history, exit and ATR, but for rounding and the 0.01 minimum; and these no
\* more than 3 %, of an Omni simulator as long as the ATR is at most 75.
LossWithinPercent ==
    (at = "sizing" /\ asked # Unasked /\ (asked.engine = "london" \/ asked.atr <= 75)) =>
        LET stop == StopGiven(asked.engine, asked.exit, asked.atr)
            percent == IF Undersized(asked) THEN 3 ELSE 1
            bounded(lots) == lots = 1 \/ 2 * lots * stop <= 2 * percent * asked.equity + stop
        IN /\ bounded(ComputeLots(asked.equity, Stake(asked), SizedFor(asked)))
           /\ bounded(SimulatedLots(asked))
=============================================================================
