-------------------------- MODULE ProfileVerifier --------------------------
(***************************************************************************)
(* The admission of a strategy profile.  Three programs decide, each with  *)
(* code and tables of its own, whether a profile may trade:                *)
(*   "ocaml"  - the formal verifier (verifier/src/model_checker.ml),       *)
(*   "python" - the validator in front of the paper trader and the         *)
(*              tournament (verifier/validator.py),                        *)
(*   "fuzz"   - the Haskell model whose properties QuickCheck exercises    *)
(*              (fuzzer/src/Model.hs).                                     *)
(* A behaviour submits one profile and lets the three give their verdicts. *)
(*                                                                         *)
(* Units: money in cents, lots in hundredths (the cap and the base lot in  *)
(* half hundredths, so that a size the rounding has to decide exists),     *)
(* risk in hundredths of a percent, stops in points, distances in          *)
(* hundredths of a point.  Amounts are whole cents; a base lot of 0 is none.*)
(***************************************************************************)
EXTENDS Integers, Sequences, FiniteSets, TLC

CONSTANTS
    Engines, RiskModels, EntryModes, PyramidModels, ExitModels, FilterLists,
    Instruments, Stops, BaseLots, LotCaps, RiskCaps, DailyCaps, Tranches,
    Spellings,
    Streak,             \* length of the losing run the floor is checked on
    Equities            \* equities at which lot sizes are compared

ASSUME NumbersAreNatural ==
    /\ Stops \cup LotCaps \cup RiskCaps \cup DailyCaps \cup Equities \subseteq Nat
    /\ BaseLots \subseteq Nat /\ Tranches \subseteq Nat /\ Streak \in Nat

VARIABLES
    profile,            \* the profile under admission
    report              \* checker -> its verdict, or Pending

vars == <<profile, report>>

Checkers == {"ocaml", "python", "fuzz"}

Equity == 9493928       \* current_account_equity
Floor == 9000000        \* absolute_total_loss_floor
Emergency == 9050000    \* emergency_liquidation_floor

SmallerOf(a, b) == IF a < b THEN a ELSE b
LargerOf(a, b) == IF a < b THEN b ELSE a

-----------------------------------------------------------------------------
(* Instrument tables: asset class, margin of one lot in dollars (contract  *)
(* size times default price over leverage), value of a point in cents,     *)
(* commission in cents per lot, spread and gap-shock distance (1.5 ATR     *)
(* plus 3 spreads) in hundredths of a point.                               *)

Instrument(class, margin, tick, comm, spread, shock) ==
    [class |-> class, margin |-> margin, tick |-> tick, comm |-> comm,
     spread |-> spread, shock |-> shock]

IndexTable ==
    "US100.cash" :> Instrument("index", 390, 100, 0, 100, 6300) @@
    "US30.cash"  :> Instrument("index", 820, 100, 0, 150, 12450) @@
    "US500.cash" :> Instrument("index", 112, 100, 0, 30, 2340) @@
    "GER40.cash" :> Instrument("index", 370, 100, 0, 100, 7050) @@
    "UK100.cash" :> Instrument("index", 166, 100, 0, 150, 4200)

CryptoTable ==
    "BTCUSD" :> Instrument("crypto", 60000, 100, 0, 1500, 124500) @@
    "ETHUSD" :> Instrument("crypto", 2500, 100, 0, 100, 7050)

MajorTable ==
    "EURUSD" :> Instrument("forex", 1090, 1000, 300, 20, 60) @@
    "GBPUSD" :> Instrument("forex", 1310, 1000, 300, 50, 150) @@
    "XAUUSD" :> Instrument("commodity", 8333, 100, 300, 250, 3000)

\* Thirteen instruments only the OCaml verifier knows.
MinorTable ==
    "JPN225.cash" :> Instrument("index", 740, 1, 0, 1000, 21000) @@
    "FRA40.cash"  :> Instrument("index", 152, 100, 0, 150, 4200) @@
    "AUS200.cash" :> Instrument("index", 162, 100, 0, 200, 4350) @@
    "EU50.cash"   :> Instrument("index", 98, 100, 0, 200, 3600) @@
    "USDJPY" :> Instrument("forex", 145000, 667, 300, 30, 210) @@
    "AUDUSD" :> Instrument("forex", 670, 1000, 300, 40, 120) @@
    "USDCAD" :> Instrument("forex", 1350, 740, 300, 50, 150) @@
    "USDCHF" :> Instrument("forex", 850, 1120, 300, 60, 180) @@
    "NZDUSD" :> Instrument("forex", 620, 1000, 300, 60, 180) @@
    "EURGBP" :> Instrument("forex", 840, 1250, 300, 50, 150) @@
    "EURJPY" :> Instrument("forex", 158000, 667, 300, 80, 375) @@
    "GBPJPY" :> Instrument("forex", 190000, 667, 300, 150, 615) @@
    "XAGUSD" :> Instrument("commodity", 4833, 5000, 300, 3, 69)

PythonTable == IndexTable @@ CryptoTable @@ MajorTable
OcamlTable == PythonTable @@ MinorTable

Unlisted == Instrument("index", 380, 100, 0, 150, 6450)

OcamlSpec(symbol) ==
    IF symbol \in DOMAIN OcamlTable THEN OcamlTable[symbol] ELSE Unlisted

PythonSpec(symbol) ==
    IF symbol \in DOMAIN PythonTable THEN PythonTable[symbol] ELSE Unlisted

FuzzSpec(symbol) ==
    IF symbol \in DOMAIN CryptoTable \cup DOMAIN MajorTable
    THEN PythonTable[symbol] ELSE IndexTable["US100.cash"]

-----------------------------------------------------------------------------
(* Profiles.  `written` says how the numbers stand in the file: plainly,   *)
(* with max_tranches as a float (3.0), or with sl_pts as a text.           *)

LondonEntries ==
    {"blind_limit", "sweep_confirmation", "dynamic_buffer", "time_weighted",
     "order_flow_spread_gate", "multi_timeframe", "hybrid_sweep_time_spread"}

OmniEntries ==
    {"stop_order_at_range", "close_confirmation", "volume_spike_gate",
     "retest_entry", "momentum_threshold", "dual_timeframe",
     "hybrid_retest_volume_spread"}

ScaleIn == {"equal_split", "front_loaded", "inverse_pyramid",
            "adaptive_tranche", "momentum_confirmed"}
HighRisk == {"aggressive_flat", "anti_martingale"}
Backloaded == {"inverse_pyramid", "adaptive_tranche"}
ComplexScaleIn == {"adaptive_tranche", "momentum_confirmed"}

KnownDimensions(p) ==
    /\ p.engine \in {"london_reversal", "omni_breakout"}
    /\ p.risk \in HighRisk \cup {"conservative_ramp", "fixed_low",
            "kelly_criterion", "volatility_scaled", "equity_curve"}
    /\ p.entry \in LondonEntries \cup OmniEntries
    /\ p.pyramid \in ScaleIn \cup {"no_pyramid", "risk_free_runner"}
    /\ p.exit \in {"fixed_sl_tp", "fixed_sl_trail", "atr_dynamic_trail",
            "breakeven_runner", "time_based", "chandelier",
            "multi_target_cascade"}

\* Every combination of the five dimensions, with one set of numbers ...
Shapes ==
    [engine : Engines, risk : RiskModels, entry : EntryModes,
     pyramid : PyramidModels, exit : ExitModels, filters : FilterLists,
     instrument : {"US100.cash"}, sl : {15, 40}, base : {0}, cap : {3000},
     maxRisk : {75}, maxDaily : {450}, tranches : {1}, written : {"plain"}]

\* ... and every combination of the numbers, on a few shapes.
Sizes ==
    [engine : {"london_reversal"},
     risk : {"conservative_ramp", "aggressive_flat"},
     entry : {"sweep_confirmation"}, pyramid : {"no_pyramid", "equal_split"},
     exit : {"fixed_sl_trail"}, filters : {"known"},
     instrument : Instruments, sl : Stops, base : BaseLots, cap : LotCaps,
     maxRisk : RiskCaps, maxDaily : DailyCaps, tranches : Tranches,
     written : Spellings]

-----------------------------------------------------------------------------
(* What the three programs compute alike, though each from code of its     *)
(* own: base risk of a risk model, loss of a stop, one simulated trade.    *)

\* Bug_ operators are defects a change could introduce; no action uses them.

\* The ramp upside down: the further the account has fallen, the more.
Bug_BaseRisk(model, equity) ==
    CASE model = "conservative_ramp" ->
            IF equity < 9800000 THEN 75
            ELSE IF equity < 10200000 THEN 50 ELSE 25
      [] model = "fixed_low" -> 35
      [] model = "volatility_scaled" -> 60
      [] model = "equity_curve" -> 50
      [] OTHER -> 75

BaseRisk(model, equity) ==
    CASE model = "conservative_ramp" ->
            IF equity < 9800000 THEN 25
            ELSE IF equity < 10200000 THEN 50 ELSE 75
      [] model = "fixed_low" -> 35
      [] model = "volatility_scaled" -> 60
      [] model = "equity_curve" -> 50
      [] OTHER -> 75

Loss(lots, distance, spec) ==
    (lots * ((distance * spec.tick) \div 100 + spec.comm)) \div 100

\* The size before rounding, in half hundredths; `tie` when rounding to a
\* whole hundredth has to break an exact tie.
RawLots(p, sl, spec, equity) ==
    LET num == equity * SmallerOf(BaseRisk(p.risk, equity), p.maxRisk)
        den == 100 * sl * spec.tick
        calculated == (2 * num) \div den
        wanted == LargerOf(p.base, calculated)
        half == SmallerOf(wanted, p.cap)
    IN  [half |-> half,
         tie |-> /\ half % 2 = 1
                 /\ \/ half # calculated
                    \/ (2 * num) % den = 0]

RoundAway(raw) == LargerOf(1, (raw.half + 1) \div 2)
RoundEven(raw) ==
    LargerOf(1, IF raw.tie /\ (raw.half \div 2) % 2 = 0
                THEN raw.half \div 2 ELSE (raw.half + 1) \div 2)

BreakerLimit(equity) == (equity * 45) \div 1000
CompositeBudget == SmallerOf((Equity * 15) \div 1000, (Equity - Floor) \div 4)
CompositeCeiling == (Equity * 13) \div 1000

\* One losing trade of the floor simulation: the loss counts in full unless
\* it carries the day over the breaker, which then caps it and ends the day.
LosingTrade(s, loss) ==
    LET allowance == BreakerLimit(s.watermark)
        applied == SmallerOf(loss, allowance - s.daily)
        breached == s.breached \/ s.equity - loss < Floor
        low == IF s.equity - loss < Floor
               THEN SmallerOf(s.low, s.equity - loss) ELSE s.low
    IN  IF s.daily + loss >= allowance
        THEN [equity |-> s.equity - applied, watermark |-> s.equity - applied,
              daily |-> 0, low |-> SmallerOf(low, s.equity - applied),
              breached |-> breached \/ s.equity - applied < Floor]
        ELSE [equity |-> s.equity - loss, watermark |-> s.watermark,
              daily |-> s.daily + loss, low |-> SmallerOf(low, s.equity - loss),
              breached |-> breached]

Simulations == [equity : Int, watermark : Int, daily : Int, low : Int,
                breached : BOOLEAN]

Untouched == [equity |-> Equity, watermark |-> Equity, daily |-> 0,
              low |-> Equity, breached |-> FALSE]

\* The state after n losing trades, each sized at the equity it is taken at
\* and taken only above the emergency floor.
Losing(LossAt(_), n) ==
    LET after[k \in Nat, s \in Simulations] ==
            IF k = 0 \/ s.equity <= Emergency THEN s
            ELSE after[k - 1, LosingTrade(s, LossAt(s.equity))]
    IN  after[n, Untouched]

-----------------------------------------------------------------------------
(* Verdicts.  inv[i] is the checker's invariant i: floor preserved, daily  *)
(* loss bounded, composite risk, gap shock, margin.                        *)

Invariants == 1 .. 5

Verdict(inv, compat, clean, worst, lots) ==
    [outcome |-> "report", inv |-> inv, compat |-> compat,
     verified |-> compat /\ clean /\ \A i \in Invariants : inv[i],
     worst |-> worst, lots |-> lots]

Failed(outcome) ==
    [outcome |-> outcome, inv |-> [i \in Invariants |-> FALSE],
     compat |-> FALSE, verified |-> FALSE, worst |-> 0, lots |-> 0]

Pending == Failed("pending")

(* The OCaml verifier.  A filter it does not know is dropped; a number of  *)
(* another JSON type than it expects takes its default.                    *)

OcamlParse(p) ==
    [p EXCEPT !.filters = IF @ = "known" THEN "known" ELSE "none",
              !.sl = IF p.written = "text" THEN 40 ELSE @,
              !.tranches = IF p.written = "float" THEN 1 ELSE @]

OcamlIncompatible(q) ==
    \/ q.engine = "london_reversal" /\ q.entry \notin LondonEntries
    \/ q.engine = "omni_breakout" /\ q.entry \notin OmniEntries
    \/ q.pyramid \in ScaleIn /\ q.exit = "fixed_sl_tp"
    \/ q.risk \in HighRisk /\ q.pyramid \in Backloaded
    \/ q.pyramid \in ComplexScaleIn /\ q.exit = "time_based"
    \/ q.entry = "blind_limit" /\ q.filters = "none"
    \/ /\ q.exit = "chandelier"
       /\ q.sl < 20 \/ q.risk = "aggressive_flat" \/ q.maxRisk > 100
    \/ /\ q.instrument \in {"BTCUSD", "ETHUSD"}
       /\ q.cap > 100 \/ q.base > 100

OcamlVerify(q) ==
    LET spec == OcamlSpec(q.instrument)
        validSl == q.sl > 0
        baseTooBig == q.base > q.cap
        Lots(e) == IF validSl THEN RoundAway(RawLots(q, q.sl, spec, e)) ELSE 0
        total == Lots(Equity) * (IF q.pyramid = "no_pyramid" THEN 1
                                 ELSE LargerOf(1, q.tranches))
        composite == Loss(total, 100 * q.sl, spec)
        LossAt(e) == Loss(Lots(e), 100 * q.sl, spec)
        run == Losing(LossAt, 10)
        simulated == IF validSl /\ ~baseTooBig THEN run ELSE Untouched
        inv == << /\ validSl /\ ~baseTooBig
                  /\ ~simulated.breached /\ simulated.low >= Floor,
                  /\ validSl /\ LossAt(Equity) <= BreakerLimit(Equity)
                  /\ q.maxDaily <= 450,
                  /\ validSl /\ composite <= CompositeBudget
                  /\ composite <= CompositeCeiling,
                  /\ validSl
                  /\ Loss(total, 100 * q.sl + spec.shock, spec)
                        <= BreakerLimit(Equity),
                  /\ validSl /\ total * spec.margin <= Equity \div 2
                  /\ spec.class = "crypto" => total <= 50 >>
        compatible == ~OcamlIncompatible(q)
    IN  Verdict(inv, compatible, validSl /\ ~baseTooBig, simulated.low, total)

OcamlVerdict(p) ==
    IF KnownDimensions(p) THEN OcamlVerify(OcamlParse(p)) ELSE Failed("refused")

(* The Python validator.  Any filter name counts as a filter; a text in    *)
(* sl_pts makes the conversion in check_incompatibilities raise, ahead of  *)
(* the handler validate_profile has for it.                                *)

PythonSchema(p) == KnownDimensions(p) /\ p.filters # "notlist"

PythonIncompatible(p) ==
    \/ p.engine = "london_reversal" /\ p.entry \notin LondonEntries
    \/ p.engine = "omni_breakout" /\ p.entry \notin OmniEntries
    \/ p.pyramid \in ScaleIn /\ p.exit = "fixed_sl_tp"
    \/ p.risk \in HighRisk /\ p.pyramid \in Backloaded
    \/ p.pyramid \in ComplexScaleIn /\ p.exit = "time_based"
    \/ p.entry = "blind_limit" /\ p.filters = "none"
    \/ /\ p.exit = "chandelier"
       /\ p.sl < 20 \/ p.risk = "aggressive_flat" \/ p.maxRisk > 100
    \/ /\ p.instrument \in {"BTCUSD", "ETHUSD"}
       /\ p.cap > 100 \/ p.base > 100

\* The configured base lot is forgotten.
Bug_PythonLots(p, equity) ==
    RoundEven(RawLots([p EXCEPT !.base = 0], p.sl, PythonSpec(p.instrument),
                      equity))

\* compute_lot_size; it raises on a stop that is not positive.
PythonLots(p, equity) ==
    RoundEven(RawLots(p, p.sl, PythonSpec(p.instrument), equity))

\* Half the simulated run.
Bug_PythonSimulation(p) ==
    IF p.sl > 0 /\ p.base <= p.cap
    THEN LET LossAt(e) == Loss(PythonLots(p, e), 100 * p.sl,
                               PythonSpec(p.instrument))
         IN  Losing(LossAt, 5)
    ELSE [Untouched EXCEPT !.breached = TRUE]

PythonSimulation(p) ==
    IF p.sl > 0 /\ p.base <= p.cap
    THEN LET LossAt(e) == Loss(PythonLots(p, e), 100 * p.sl,
                               PythonSpec(p.instrument))
         IN  Losing(LossAt, 10)
    ELSE [Untouched EXCEPT !.breached = TRUE]

PythonValidate(p) ==
    LET spec == PythonSpec(p.instrument)
        validSl == p.sl > 0
        baseTooBig == p.base > p.cap
        initial == IF validSl THEN PythonLots(p, Equity) ELSE 0
        total == initial * (IF p.pyramid = "no_pyramid" THEN 1
                            ELSE LargerOf(1, p.tranches))
        composite == Loss(total, 100 * p.sl, spec)
        simulated == PythonSimulation(p)
        inv == << /\ validSl /\ ~baseTooBig
                  /\ ~simulated.breached /\ simulated.low >= Floor,
                  /\ validSl /\ p.maxDaily <= 450
                  /\ Loss(initial, 100 * p.sl, spec) <= BreakerLimit(Equity),
                  /\ validSl /\ composite <= CompositeBudget
                  /\ composite <= CompositeCeiling,
                  /\ validSl
                  /\ Loss(total, 100 * p.sl + spec.shock, spec)
                        <= BreakerLimit(Equity),
                  /\ validSl /\ total * spec.margin <= Equity \div 2
                  /\ spec.class # "crypto" \/ total <= 50 >>
    IN  Verdict(inv, ~PythonIncompatible(p), validSl /\ ~baseTooBig,
                simulated.low, total)

\* A refusal without its invariants.
Bug_PythonVerdict(p) ==
    IF ~PythonSchema(p) THEN [Failed("refused") EXCEPT !.inv = << >>]
    ELSE IF p.written = "text" THEN Failed("raised") ELSE PythonValidate(p)

PythonVerdict(p) ==
    IF ~PythonSchema(p) THEN Failed("refused")
    ELSE IF p.written = "text" THEN Failed("raised") ELSE PythonValidate(p)

(* The Haskell model.  It has no rule on the base lot, none on the stop's  *)
(* sign, and its floor simulation looks at the equity after each loss.     *)

\* INC-03 alone, and on every scale-in model.
Bug_FuzzIncompatible(p) ==
    p.risk \in HighRisk /\ p.pyramid \in ScaleIn

FuzzIncompatible(p) ==
    \/ p.engine = "london_reversal" /\ p.entry \notin LondonEntries
    \/ p.engine = "omni_breakout" /\ p.entry \notin OmniEntries
    \/ p.pyramid \in ScaleIn /\ p.exit = "fixed_sl_tp"
    \/ p.risk \in HighRisk /\ p.pyramid \in Backloaded
    \/ p.pyramid \in ComplexScaleIn /\ p.exit = "time_based"
    \/ p.entry = "blind_limit" /\ p.filters = "none"
    \/ /\ p.exit = "chandelier"
       /\ p.sl < 20 \/ p.risk = "aggressive_flat" \/ p.maxRisk > 100
    \/ /\ p.instrument \in {"BTCUSD", "ETHUSD"}
       /\ p.cap > 100 \/ p.base > 100

FuzzVerify(p) ==
    LET spec == FuzzSpec(p.instrument)
        Lots(e) == IF p.sl > 0 THEN RoundEven(RawLots(p, p.sl, spec, e)) ELSE 0
        total == Lots(Equity) * (IF p.pyramid = "no_pyramid" THEN 1
                                 ELSE LargerOf(1, p.tranches))
        composite == Loss(total, 100 * p.sl, spec)
        LossAt(e) == Loss(Lots(e), 100 * p.sl, spec)
        worst == Losing(LossAt, 10).equity
        inv == << worst >= Floor,
                  LossAt(Equity) <= BreakerLimit(Equity) /\ p.maxDaily <= 450,
                  composite <= CompositeBudget /\ composite <= CompositeCeiling,
                  Loss(total, 100 * p.sl + spec.shock, spec)
                        <= BreakerLimit(Equity),
                  /\ total * spec.margin <= Equity \div 2
                  /\ spec.class = "crypto" => total <= 50 >>
    IN  Verdict(inv, ~FuzzIncompatible(p), TRUE, worst, total)

FuzzVerdict(p) ==
    IF KnownDimensions(p) THEN FuzzVerify(OcamlParse(p)) ELSE Failed("refused")

-----------------------------------------------------------------------------
Init ==
    /\ profile \in Shapes \cup Sizes
    /\ report = [c \in Checkers |-> Pending]

VerdictOf(c) ==
    CASE c = "ocaml" -> OcamlVerdict(profile)
      [] c = "python" -> PythonVerdict(profile)
      [] OTHER -> FuzzVerdict(profile)

\* One profile goes through the three programs.
Admit ==
    /\ report["ocaml"] = Pending
    /\ report' = [c \in Checkers |-> VerdictOf(c)]
    /\ UNCHANGED profile

Next == Admit

Spec == Init /\ [][Next]_vars

-----------------------------------------------------------------------------
(* Properties.                                                             *)

\* profiles/profile_schema.json, for what the model tells apart.
SchemaConforming(p) ==
    /\ KnownDimensions(p) /\ p.filters \in {"none", "known"}
    /\ p.instrument \in DOMAIN OcamlTable
    /\ p.sl \in 5 .. 500 /\ p.tranches \in 1 .. 4 /\ p.written # "text"
    /\ p.maxDaily \in 100 .. 450 /\ p.maxRisk \in 10 .. 150

Decided == report["ocaml"] # Pending

\* Types of the two variables.
TypeOK ==
    /\ profile \in Shapes \cup Sizes
    /\ DOMAIN report = Checkers
    /\ \A c \in Checkers :
          /\ report[c].outcome \in {"pending", "report", "refused", "raised"}
          /\ report[c].verified \in BOOLEAN
          /\ report[c].inv \in [Invariants -> BOOLEAN]

\* The validator gives the OCaml verifier's report - verdict, invariants,
\* worst equity, size - for every schema-conforming profile of an instrument
\* both know, whose numbers have one reading and whose sizes no rounding has
\* to decide: two programs written apart, compared on every rule.
ParityInCommon ==
    Decided /\ SchemaConforming(profile) /\ profile.written = "plain"
    /\ profile.instrument \in DOMAIN PythonTable
    /\ profile.base % 2 = 0 /\ profile.cap % 2 = 0
        => report["python"] = report["ocaml"]

\* What QuickCheck shows of the Haskell model holds of the verifier only if
\* the model verifies every profile the verifier verifies: so it does, on the
\* four instruments the generator draws and sizes no rounding decides.
FuzzModelCovers ==
    Decided /\ report["ocaml"].verified
    /\ profile.instrument \in {"US100.cash", "BTCUSD", "EURUSD", "XAUUSD"}
    /\ profile.base % 2 = 0 /\ profile.cap % 2 = 0
        => report["fuzz"].verified

\* Ten simulated trades are enough: the equity of a verified profile stays
\* above the floor however long the losing run, although the simulation
\* stops after ten and a small loss has not brought it to the emergency
\* floor by then.
FloorOutlastsTheRun ==
    Decided /\ report["python"].verified =>
        LET LossAt(e) == Loss(PythonLots(profile, e), 100 * profile.sl,
                              PythonSpec(profile.instrument))
        IN  Losing(LossAt, Streak).low >= Floor

\* Losing money never raises the size: an account with less equity is given
\* no more lots, whatever the risk model, the base lot and the cap.
LotsFollowEquity ==
    profile.sl > 0 =>
        \A e1, e2 \in Equities :
            e1 <= e2 => PythonLots(profile, e1) <= PythonLots(profile, e2)

\* "exact semantic parity to the OCaml formal verifier" (validator.py:5), for
\* the profiles the repository's schema admits.
ExactParity ==
    Decided /\ SchemaConforming(profile)
        => report["python"].verified = report["ocaml"].verified
=============================================================================
