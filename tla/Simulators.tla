------------------------------ MODULE Simulators ------------------------------
(***************************************************************************)
(* The two programs that trade a profile on recorded candles:               *)
(* paper_trader.py, an account with a daily limit and a circuit breaker,    *)
(* and backtester/engine.py, whose two simulators run one session of one    *)
(* day.  Both manage the one position with the operators of Position, in    *)
(* different orders.                                                        *)
(***************************************************************************)
EXTENDS Position

CONSTANTS
    Gains, Losses,  \* prices of the candles, in points above and below the entry
    ExitCost,       \* spread_pts / 2 + slippage_pts, 0.95 points in the code
    MaxDays         \* days (bound)

ASSUME SimulatorsAssumption ==
    Gains \cup Losses \subseteq Nat /\ ExitCost \in Nat /\ MaxDays \in Nat \ {0}

VARIABLES
    venue, exit, pyramid,  \* "paper" or "backtest", and the profile's dimensions
    phase,       \* hour of the candles: before, session, close (hour 13, or from 19:45), after
    day,
    position,    \* None or a record of Position
    trades,      \* daily_trades_count, trade_taken
    tripped      \* circuit_breaker_tripped

profile == <<venue, exit, pyramid>>
vars == <<profile, phase, day, position, trades, tripped>>

None == [sl |-> 0]
Phases == <<"before", "session", "close", "after">>
Points == Gains \cup {-x : x \in Losses}
Candles == {[hi |-> h, lo |-> l, close |-> c] : h \in Points, l \in Points, c \in Points}
Valid(c) == c.lo <= c.close /\ c.close <= c.hi
\* Candles with their close at one end tell as much as all of them.
Fed == {c \in Candles : Valid(c) /\ c.close \in {c.lo, c.hi}}

TypeOK ==
    /\ venue \in {"paper", "backtest"} /\ exit \in ExitModels /\ pyramid \in Pyramids
    /\ phase \in 1 .. 4 /\ day \in 1 .. MaxDays /\ trades \in {0, 1} /\ tripped \in BOOLEAN
    /\ \/ position = None
       \/ /\ position.sl \in Int /\ position.high \in Int /\ position.active \in BOOLEAN
          /\ position.minutes \in 0 .. TimeLimit - 1 /\ position.closes \subseteq Closes
          /\ position.tranches \in 1 .. Len(Shares(pyramid)) /\ position.lots \in Nat \ {0}

Init ==
    /\ venue \in {"paper", "backtest"} /\ exit \in ExitModels /\ pyramid \in Pyramids
    /\ phase = 1 /\ day = 1 /\ position = None /\ trades = 0 /\ tripped = FALSE

InSession == Phases[phase] = "session"

\* The model PyramidManager works by.  It knows a name, as the paper trader gives
\* it; the backtester gives a member of its own PyramidModel, which equals none of
\* the manager's, and every comparison with them fails.
Recognised == IF venue = "paper" THEN pyramid ELSE "no_pyramid"

-----------------------------------------------------------------------------
(* paper_trader.py *)

Bug_PaperCap(lots) == lots
\* min(round(lots, 4), 0.01)
PaperCap(lots) == IF lots > Hundredth THEN Hundredth ELSE lots

\* _close_position: half the spread and the slippage come off every price.
Priced(r) == IF r.exit = "none" THEN r ELSE [r EXCEPT !.price = @ - ExitCost]

\* A scale-out closes nothing here: it moves the stop.
PaperManaged(p, c) ==
    LET q == [p EXCEPT !.high = Higher(@, c.hi)]
    IN {Priced(CheckExit(exit, r, c)) :
          r \in ScaledIn(Recognised, ScaledOut(Recognised, q, c), c, PaperCap)}

\* A candle for an account with a position.  The circuit breaker may close it before
\* anything looks at the stop, and the session's last hour does; both at the candle's
\* close.  Between sessions nothing else looks at it.
PaperSteps(p, c) ==
    {Priced(Leaves(p, "circuit_breaker", c.close))} \cup
    CASE InSession -> PaperManaged(p, c)
      [] Phases[phase] = "close" -> {Priced(Leaves(p, "session_end", c.close))}
      [] OTHER -> {}

PaperCandle ==
    /\ venue = "paper" /\ position # None
    /\ \E c \in Fed : \E r \in PaperSteps(position, c) :
         /\ position' = IF r.exit = "none" THEN r.position ELSE None
         /\ tripped' = (tripped \/ r.exit = "circuit_breaker")
    /\ UNCHANGED <<profile, phase, day, trades>>

\* The breaker also sees the loss an earlier close has left.
Trip ==
    /\ venue = "paper" /\ position = None /\ trades > 0 /\ ~tripped
    /\ tripped' = TRUE
    /\ UNCHANGED <<profile, phase, day, position, trades>>

\* An entry, if filters and entry mode agree; the candle it fills on counts as
\* its best price so far.
PaperEntry ==
    /\ venue = "paper" /\ InSession /\ position = None /\ trades < 1 /\ ~tripped
    /\ \E h \in {p \in Points : p >= 0} : position' = Opened(exit, h, Hundredth)
    /\ trades' = trades + 1
    /\ UNCHANGED <<profile, phase, day, tripped>>

-----------------------------------------------------------------------------
(* backtester/engine.py *)

Uncapped(lots) == lots

\* A scale-in first, then a scale-out that books its half, then the exits.
BacktestManaged(p, c) ==
    LET out(q) == IF ScalesOut(Recognised, q, c)
                  THEN {[ScaledOut(Recognised, q, c) EXCEPT !.lots = l] : l \in Halved(q.lots)}
                  ELSE {q}
    IN {CheckExit(exit, r, c) : r \in UNION {out(q) : q \in ScaledIn(Recognised, p, c, Uncapped)}}

BacktestCandle ==
    /\ venue = "backtest" /\ InSession /\ position # None
    /\ \E c \in Fed : \E r \in BacktestManaged(position, c) :
         position' = IF r.exit = "none" THEN r.position ELSE None
    /\ UNCHANGED <<profile, phase, day, trades, tripped>>

BacktestEntry ==
    /\ venue = "backtest" /\ InSession /\ position = None /\ trades < 1
    /\ \E lots \in TrancheLots(Shares(Recognised)[1]) : position' = Opened(exit, 0, lots)
    /\ trades' = trades + 1
    /\ UNCHANGED <<profile, phase, day, tripped>>

-----------------------------------------------------------------------------
\* The candles go on to another hour; some hours may have none.  The backtester
\* closes what is open on the session's last candle, and starts each day anew.
LastCandle == IF venue = "backtest" THEN position' = None ELSE UNCHANGED position

Later ==
    /\ \E next \in (phase + 1) .. 4 : phase' = next
    /\ LastCandle
    /\ UNCHANGED <<profile, day, trades, tripped>>

NewDay ==
    /\ day < MaxDays /\ day' = day + 1
    /\ phase' \in 1 .. 4
    /\ LastCandle
    /\ trades' = 0 /\ tripped' = FALSE
    /\ UNCHANGED profile

Next == PaperCandle \/ Trip \/ PaperEntry \/ BacktestCandle \/ BacktestEntry \/ Later \/ NewDay

Spec == Init /\ [][Next]_vars

-----------------------------------------------------------------------------
Open == position # None
Steps(c) == IF venue = "paper" THEN PaperSteps(position, c) ELSE BacktestManaged(position, c)
Cost == IF venue = "paper" THEN ExitCost ELSE 0
AtClose == {"circuit_breaker", "session_end"}

\* From one candle to the next a stop never moves away from the price, though
\* the break-even exit and the scale-out assign it without looking at where the
\* trailing or a tranche has put it (exit/manager.py:135, paper_trader.py:432).
StopNeverLoosens == [][Open /\ position' # None => position'.sl >= position.sl]_vars

\* A candle that looks at a position and reaches the stop it had before ends the
\* trade, whatever else the candle does to the stop first.
StopHonoured ==
    Open => \A c \in Fed : c.lo <= position.sl => \A r \in Steps(c) : r.exit # "none"

\* An exit by stop, target or time never costs a trade more than its initial stop
\* and what every exit costs, and a trade that goes on closed its candle above that
\* stop.  The breaker and the paper account's last hour close wherever the candle
\* does (paper_trader.py:256-262, 410-413), and bound nothing.
RiskBounded ==
    Open => \A c \in Fed : \A r \in Steps(c) :
              /\ r.exit = "none" => c.close >= InitialStop(exit)
              /\ r.exit \notin {"none"} \cup AtClose => r.price >= InitialStop(exit) - Cost

\* "strict 0.01 micro-lot cap" (paper_trader.py:563): tranches and partial closes
\* in any order never take a paper position above it; an account whose breaker
\* has tripped holds nothing until the next day.
PaperCapped == venue = "paper" => /\ Open => position.lots <= Hundredth
                                  /\ tripped => ~Open

\* backtester/engine.py:4: "Supports both London Reversal and Omni Breakout engines
\* with all 5 design dimensions (risk sizing, entry mode, pyramiding, ...)": a candle
\* that reaches the next tranche of the profile's pyramid adds it.
PyramidsScaleIn ==
    Open => \A c \in Fed : ScalesIn(pyramid, position, c) =>
              \A r \in Steps(c) : r.exit \notin AtClose => r.position.tranches = position.tranches + 1
=============================================================================
