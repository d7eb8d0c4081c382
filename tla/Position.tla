------------------------------- MODULE Position -------------------------------
(***************************************************************************)
(* What modules/exit/manager.py and modules/pyramid/manager.py do to one    *)
(* simulated position on one candle.  backtester/engine.py carries a second *)
(* copy of the exits.  Prices are points in the trade's favour, counted     *)
(* from its entry, which makes longs and shorts the same: a candle has the  *)
(* best price hi, the worst lo, and a close.  Lots are 1/100000 of a lot.   *)
(***************************************************************************)
EXTENDS Integers, Sequences, FiniteSets

CONSTANTS
    Atr,         \* the exit manager's atr
    SlPts,       \* parameters.sl_pts
    TpPts,       \* parameters.tp_pts
    TimeLimit,   \* minutes of a time-based trade, 120 in the code
    Planned      \* total_planned_lots, in hundredths of a lot

ASSUME PositionAssumption ==
    /\ {SlPts, TpPts} \subseteq Nat /\ {Atr, TimeLimit, Planned} \subseteq Nat \ {0}

ExitModels == {"fixed_sl_tp", "fixed_sl_trail", "atr_dynamic_trail", "breakeven_runner",
               "time_based", "chandelier", "multi_target_cascade"}
Pyramids == {"no_pyramid", "equal_split", "front_loaded", "inverse_pyramid",
             "momentum_confirmed", "adaptive_tranche", "risk_free_runner"}
Closes == {"runner", "first", "second"}

\* The larger of two numbers.
Higher(a, b) == IF a > b THEN a ELSE b

\* Hundredths of a lot in the units of lots.
Hundredth == 1000

-----------------------------------------------------------------------------
(* Opening. *)

\* The stop compute_sl_tp sets; its take profit is TpPts with a fixed exit only.
InitialStop(exit) ==
    CASE exit = "fixed_sl_tp" -> -SlPts
      [] exit = "atr_dynamic_trail" -> -((3 * Atr) \div 2)
      [] exit = "chandelier" -> -(3 * Atr)
      [] exit = "time_based" -> -40
      [] OTHER -> -30

\* Each tranche's share of the planned lots, in sixtieths.
Shares(pyramid) ==
    CASE pyramid = "equal_split" -> <<20, 20, 20>>
      [] pyramid = "front_loaded" -> <<30, 18, 12>>
      [] pyramid = "inverse_pyramid" -> <<12, 18, 30>>
      [] pyramid = "momentum_confirmed" -> <<30, 30>>
      [] pyramid = "adaptive_tranche" -> <<15, 15, 15, 15>>
      [] OTHER -> <<60>>

\* round(Planned * share, 2), a tie going either way in binary, and at least 0.01.
TrancheLots(share) == {Higher(r, 1) * Hundredth : r \in
    {q \in 0 .. Planned : 2 * (60 * q - Planned * share) \in -60 .. 60}}

Opened(exit, high, lots) ==
    [sl |-> InitialStop(exit), high |-> high, active |-> FALSE, minutes |-> 0, closes |-> {},
     tranches |-> 1, lots |-> lots]

-----------------------------------------------------------------------------
(* check_scale_in and check_scale_out. *)

\* The excursion that adds tranche n + 1, and the stop that comes with it.
Triggers(pyramid) ==
    CASE pyramid \in {"equal_split", "front_loaded"} -> <<15, 30>>
      [] pyramid = "inverse_pyramid" -> <<20, 40>>
      [] pyramid = "momentum_confirmed" -> <<15>>
      [] pyramid = "adaptive_tranche" -> <<10, 20, 30>>
      [] OTHER -> <<>>

TrancheStop(pyramid, p) ==
    IF pyramid = "adaptive_tranche" THEN Higher(p.sl, Triggers(pyramid)[p.tranches] - 10)
    ELSE IF p.tranches = 1 THEN Higher(p.sl, 0)
    ELSE p.sl

ScalesIn(pyramid, p, c) == /\ p.tranches \in DOMAIN Triggers(pyramid)
                           /\ c.hi >= Triggers(pyramid)[p.tranches]

\* Every position the new tranche may leave; the paper trader caps it (Cap), the
\* backtester does not.
ScaledIn(pyramid, p, c, Cap(_)) ==
    IF ScalesIn(pyramid, p, c)
    THEN {[p EXCEPT !.lots = Cap(p.lots + add), !.tranches = p.tranches + 1,
                    !.sl = TrancheStop(pyramid, p)] :
             add \in TrancheLots(Shares(pyramid)[p.tranches + 1])}
    ELSE {p}

ScalesOut(pyramid, p, c) == pyramid = "risk_free_runner" /\ p.closes = {} /\ c.hi >= 15

\* The stop goes to one point above the entry, wherever it was.
ScaledOut(pyramid, p, c) ==
    IF ScalesOut(pyramid, p, c)
    THEN [p EXCEPT !.closes = {"runner"}, !.sl = 1, !.active = TRUE]
    ELSE p

\* round(lots * 0.5, 2), at least 0.01, leaves; at least 0.01 stays.
Halved(lots) ==
    LET half == {Higher(q, 1) * Hundredth : q \in
                   {r \in 0 .. lots \div Hundredth : 2 * r * Hundredth - lots \in -Hundredth .. Hundredth}}
    IN {Higher(lots - h, Hundredth) : h \in half}

-----------------------------------------------------------------------------
(* check_exit. *)

Bug_Trail(p, c, trigger, dist) ==
    IF c.hi >= trigger THEN [p EXCEPT !.active = TRUE, !.sl = c.hi - dist] ELSE p

\* _update_trailing
Trail(p, c, trigger, dist) ==
    IF c.hi >= trigger THEN [p EXCEPT !.active = TRUE, !.sl = Higher(p.sl, c.hi - dist)] ELSE p

BreakEven(p, c) ==
    IF c.hi >= 20 /\ ~p.active THEN [p EXCEPT !.sl = 1, !.active = TRUE] ELSE p

Chandelier(p, c) ==
    LET high == Higher(p.high, c.hi)
    IN [p EXCEPT !.high = high, !.sl = Higher(p.sl, high - 3 * Atr)]

\* Two partial closes, which change the lots and book nothing.
Cascade(p, c) ==
    LET first == IF c.hi >= 15 /\ "first" \notin p.closes
                 THEN [p EXCEPT !.closes = @ \cup {"first"}, !.lots = (67 * @) \div 100] ELSE p
        second == IF c.hi >= 30 /\ "second" \notin p.closes
                  THEN [first EXCEPT !.closes = @ \cup {"second"}, !.lots = @ \div 2, !.active = TRUE]
                  ELSE first
    IN IF second.active THEN Trail(second, c, 0, 15) ELSE second

Managed(exit, p, c) ==
    CASE exit = "fixed_sl_trail" -> Trail(p, c, 15, 15)
      [] exit = "atr_dynamic_trail" -> Trail(p, c, Atr, Atr)
      [] exit = "breakeven_runner" -> BreakEven(p, c)
      [] exit = "time_based" -> [p EXCEPT !.minutes = @ + 1]
      [] exit = "chandelier" -> Chandelier(p, c)
      [] exit = "multi_target_cascade" -> Cascade(p, c)
      [] OTHER -> p

Stays(p) == [position |-> p, exit |-> "none", price |-> 0]
Leaves(p, reason, price) == [position |-> p, exit |-> reason, price |-> price]

Bug_CheckExitOnce(exit, p, c) ==
    IF c.lo <= p.sl THEN Leaves(p, "stop_loss", p.sl) ELSE Stays(Managed(exit, p, c))
Bug_CheckExitTime(exit, p, c) ==
    LET m == Managed(exit, p, c)
    IN IF exit = "time_based" /\ m.minutes >= TimeLimit THEN Leaves(m, "time_exit", c.close)
       ELSE IF c.lo <= p.sl THEN Leaves(p, "stop_loss", p.sl)
       ELSE IF c.lo <= m.sl THEN Leaves(m, "trailing_stop", m.sl)
       ELSE Stays(m)

CheckExit(exit, p, c) ==
    LET m == Managed(exit, p, c)
    IN IF c.lo <= p.sl THEN Leaves(p, "stop_loss", p.sl)
       ELSE IF exit = "fixed_sl_tp" /\ c.hi >= TpPts THEN Leaves(p, "take_profit", TpPts)
       ELSE IF exit = "time_based" /\ m.minutes >= TimeLimit THEN Leaves(m, "time_exit", c.close)
       ELSE IF c.lo <= m.sl THEN Leaves(m, "trailing_stop", m.sl)
       ELSE Stays(m)
=============================================================================
