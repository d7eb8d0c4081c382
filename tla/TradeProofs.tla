----------------------------- MODULE TradeProofs -----------------------------
(***************************************************************************)
(* Proofs about a trade, from the decision to what it may lose, and about   *)
(* the tournament that chooses who trades.                                  *)
(*                                                                          *)
(* What a stop, a candle and a day may cost in the simulators: one lemma    *)
(* for each operator of Position, then the inductive invariant IInv of      *)
(* Simulators, of which Placed is the part about an open position:          *)
(*   Records      its shape and types                                       *)
(*   Sized        what the partial closes and tranches leave is not nothing *)
(*   NotYet       before the break-even exit has armed, the stop is at the  *)
(*                entry at most, so that arming it does not loosen          *)
(*   BeforeRunner before the risk-free runner has scaled out, the stop is   *)
(*                where this candle's trailing puts it again                *)
(* and its stop is never below the initial one, its size within the paper   *)
(* cap.                                                                     *)
(*                                                                          *)
(* What the two copies of the strategy code agree on, and what a trade may  *)
(* lose, for every range, candle, account and history.  The invariant Typed *)
(* only says what is asked in which question; the rest are facts about the  *)
(* functions that answer.                                                   *)
(*                                                                          *)
(* Which profiles a tournament ranks.  JoinInv: what has arrived, in any    *)
(* order, is what the tasks not open any more have answered; and an id      *)
(* tells two profiles apart.                                                *)
(***************************************************************************)
EXTENDS Simulators, Strategy, Tournament, TLAPS

Records == [sl : Int, high : Int, active : BOOLEAN, minutes : Int, closes : SUBSET Closes,
            tranches : Int, lots : Int]
CandleRecords == [hi : Int, lo : Int, close : Int]

-----------------------------------------------------------------------------
(* Operators. *)

LEMMA HigherIs ==
    ASSUME NEW a \in Int, NEW b \in Int
    PROVE  /\ Higher(a, b) \in Int
           /\ Higher(a, b) >= a /\ Higher(a, b) >= b
           /\ Higher(a, b) \in {a, b}
BY DEF Higher

\* An initial stop is an integer, and not in profit.
LEMMA InitialStopIs ==
    ASSUME NEW x \in ExitModels
    PROVE  InitialStop(x) \in Int /\ InitialStop(x) <= 0
BY PositionAssumption DEF ExitModels, InitialStop

\* Nothing but stop, best price and the armed flag differs.
Same(p, q) == q.minutes = p.minutes /\ q.closes = p.closes /\ q.tranches = p.tranches /\ q.lots = p.lots
SameHigh(p, q) == q.high = p.high
Untouched(p, q) == q = p
Armed(q) == q.active = TRUE

LEMMA Arming ==
    ASSUME NEW p \in Records, NEW s \in Int, NEW q, q = [p EXCEPT !.sl = s, !.active = TRUE]
    PROVE  q \in Records /\ Same(p, q) /\ SameHigh(p, q) /\ q.sl = s /\ q.active = TRUE
BY DEF Records, Same, SameHigh

LEMMA TrailRaises ==
    ASSUME NEW p \in Records, NEW c \in CandleRecords, NEW t \in Int, NEW d \in Int,
           NEW q, q = Trail(p, c, t, d)
    PROVE  /\ q \in Records /\ Same(p, q) /\ SameHigh(p, q)
           /\ q.sl >= p.sl /\ q.sl \in {p.sl, c.hi - d}
           /\ c.hi >= t => q.sl >= c.hi - d /\ Armed(q)
           /\ c.hi < t => Untouched(p, q)
<1> DEFINE s == Higher(p.sl, c.hi - d)
<1>0. p.sl \in Int /\ c.hi \in Int /\ c.hi - d \in Int
  BY DEF Records, CandleRecords
<1>1. s \in Int /\ s >= p.sl /\ s >= c.hi - d /\ s \in {p.sl, c.hi - d}
  BY <1>0, HigherIs
<1>2. CASE c.hi >= t
  <2>1. q = [p EXCEPT !.active = TRUE, !.sl = s]
    BY <1>2 DEF Trail
  <2> HIDE DEF s
  <2>2. q \in Records /\ Same(p, q) /\ SameHigh(p, q) /\ q.sl = s /\ q.active = TRUE
    BY <1>1, <2>1 DEF Records, Same, SameHigh
  <2>3. ~ c.hi < t
    BY <1>0, <1>2
  <2> QED
    BY <1>1, <2>2, <2>3 DEF Armed
<1>3. CASE c.hi < t
  BY <1>0, <1>3 DEF Trail, Records, CandleRecords, Same, SameHigh, Untouched
<1>4. c.hi >= t \/ c.hi < t
  BY <1>0
<1> QED
  BY <1>2, <1>3, <1>4

LEMMA BreakEvenArms ==
    ASSUME NEW p \in Records, NEW c \in CandleRecords, NEW q, q = BreakEven(p, c)
    PROVE  /\ q \in Records /\ Same(p, q) /\ SameHigh(p, q)
           /\ c.hi >= 20 /\ p.active = FALSE => q.sl = 1 /\ Armed(q)
           /\ ~(c.hi >= 20 /\ p.active = FALSE) => Untouched(p, q)
<1>1. CASE c.hi >= 20 /\ p.active = FALSE
  <2>1. q = [p EXCEPT !.sl = 1, !.active = TRUE]
    BY <1>1 DEF BreakEven
  <2>2. q \in Records /\ Same(p, q) /\ SameHigh(p, q) /\ q.sl = 1 /\ q.active = TRUE
    BY <2>1, 1 \in Int, Arming, Zenon
  <2> QED
    BY <1>1, <2>2 DEF Armed
<1>2. CASE ~(c.hi >= 20 /\ p.active = FALSE)
  <2>1. p.active \in BOOLEAN
    BY DEF Records
  <2>2. q = p
    BY <1>2, <2>1 DEF BreakEven
  <2> QED
    BY <1>2, <2>2 DEF Same, SameHigh, Untouched
<1> QED
  BY <1>1, <1>2

LEMMA ChandelierRaises ==
    ASSUME NEW p \in Records, NEW c \in CandleRecords, NEW q, q = Chandelier(p, c)
    PROVE  /\ q \in Records /\ Same(p, q) /\ q.active = p.active
           /\ q.high >= p.high /\ q.high >= c.hi
           /\ q.sl >= p.sl /\ q.sl >= q.high - 3 * Atr
           /\ q.sl \in {p.sl, q.high - 3 * Atr}
<1> DEFINE h == Higher(p.high, c.hi)
           s == Higher(p.sl, h - 3 * Atr)
<1>0. p.sl \in Int /\ p.high \in Int /\ c.hi \in Int /\ 3 * Atr \in Int
  BY PositionAssumption DEF Records, CandleRecords
<1>1. h \in Int /\ h >= p.high /\ h >= c.hi
  BY <1>0, HigherIs
<1>2. s \in Int /\ s >= p.sl /\ s >= h - 3 * Atr /\ s \in {p.sl, h - 3 * Atr}
  <2> HIDE DEF h
  <2>1. h - 3 * Atr \in Int
    BY <1>0, <1>1
  <2> QED
    BY <1>0, <2>1, HigherIs
<1>3. q = [p EXCEPT !.high = h, !.sl = s]
  BY DEF Chandelier
<1> HIDE DEF h, s
<1> QED
  BY <1>1, <1>2, <1>3 DEF Records, Same

\* What is left of a position's lots after the partial closes in cs.
Floor(cs) == IF "second" \in cs THEN 300 ELSE IF "first" \in cs THEN 600 ELSE 1000
Sized(p) == p.lots >= Floor(p.closes) /\ ("second" \in p.closes => "first" \in p.closes)
KeptByCloses(p, q) == q.minutes = p.minutes /\ q.tranches = p.tranches

\* The cascade's closes: 67 % stay, then half of them.
LEMMA CascadeRaises ==
    ASSUME NEW p \in Records, Sized(p), NEW c \in CandleRecords, NEW q, q = Cascade(p, c)
    PROVE  /\ q \in Records /\ Sized(q)
           /\ KeptByCloses(p, q) /\ SameHigh(p, q)
           /\ q.sl >= p.sl /\ q.lots <= p.lots
           /\ q.closes = {} => p.closes = {} /\ (p.active = FALSE => q.active = FALSE)
           /\ q.active = FALSE => q.sl = p.sl
<1> DEFINE f == IF c.hi >= 15 /\ "first" \notin p.closes
                THEN [p EXCEPT !.closes = @ \cup {"first"}, !.lots = (67 * @) \div 100] ELSE p
           g == IF c.hi >= 30 /\ "second" \notin p.closes
                THEN [f EXCEPT !.closes = @ \cup {"second"}, !.lots = @ \div 2, !.active = TRUE] ELSE f
<1>0. c.hi \in Int /\ p.lots \in Int
  BY DEF CandleRecords, Records
<1>1. /\ f \in Records /\ Sized(f) /\ f.minutes = p.minutes /\ f.tranches = p.tranches
      /\ f.high = p.high /\ f.sl = p.sl /\ f.active = p.active /\ f.lots <= p.lots
      /\ "second" \in f.closes <=> "second" \in p.closes
      /\ c.hi >= 15 => "first" \in f.closes
      /\ f.closes = {} => p.closes = {}
  <2>1. CASE c.hi >= 15 /\ "first" \notin p.closes
    <3>1. f = [p EXCEPT !.closes = p.closes \cup {"first"}, !.lots = (67 * p.lots) \div 100]
      BY <2>1
    <3>2. p.lots \in Int /\ p.lots >= 1000 /\ "second" \notin p.closes
      BY <2>1 DEF Sized, Floor, Records
    <3>3. (67 * p.lots) \div 100 \in Int /\ (67 * p.lots) \div 100 >= 600
         /\ (67 * p.lots) \div 100 <= p.lots
      BY <3>2
    <3>4. f.lots >= 600 /\ f.lots <= p.lots /\ f.closes = p.closes \cup {"first"} /\ f \in Records
      BY <3>1, <3>3 DEF Records, Closes
    <3>5. Sized(f)
      BY <3>2, <3>4 DEF Sized, Floor
    <3> HIDE DEF f
    <3> QED
      BY <3>1, <3>4, <3>5 DEF Records
  <2>2. CASE ~(c.hi >= 15 /\ "first" \notin p.closes)
    <3>1. f = p
      BY <2>2
    <3> QED
      BY <1>0, <2>2, <3>1
  <2> QED
    BY <2>1, <2>2
<1>2. /\ g \in Records /\ Sized(g) /\ g.minutes = p.minutes /\ g.tranches = p.tranches
      /\ g.high = p.high /\ g.sl = p.sl /\ g.lots <= p.lots
      /\ g.closes = {} => p.closes = {} /\ g.active = p.active
  <2> HIDE DEF f
  <2>1. CASE c.hi >= 30 /\ "second" \notin p.closes
    <3>1. g = [f EXCEPT !.closes = f.closes \cup {"second"}, !.lots = f.lots \div 2, !.active = TRUE]
      BY <2>1
    <3>2. f.lots \in Int /\ f.lots >= 600 /\ "first" \in f.closes
      BY <1>0, <1>1, <2>1 DEF Sized, Floor, Records
    <3>3. f.lots \div 2 \in Int /\ f.lots \div 2 >= 300 /\ f.lots \div 2 <= f.lots
      BY <3>2
    <3>4. g.lots >= 300 /\ g.lots <= f.lots /\ g.closes = f.closes \cup {"second"} /\ g \in Records
      BY <1>1, <3>1, <3>3 DEF Records, Closes
    <3>5. Sized(g)
      BY <3>2, <3>4 DEF Sized, Floor
    <3> HIDE DEF g
    <3>6. g.lots <= p.lots
      BY <1>0, <1>1, <3>2, <3>4 DEF Records
    <3> QED
      BY <1>1, <3>1, <3>4, <3>5, <3>6 DEF Records
  <2>2. CASE ~(c.hi >= 30 /\ "second" \notin p.closes)
    BY <1>1, <2>2
  <2> QED
    BY <2>1, <2>2
<1>3. q = IF g.active THEN Trail(g, c, 0, 15) ELSE g
  BY DEF Cascade
<1> HIDE DEF f, g
<1>4. CASE g.active
  <2>1. q = Trail(g, c, 0, 15)
    BY <1>3, <1>4
  <2>2. g \in Records
    BY <1>2
  <2>3. q \in Records /\ Same(g, q) /\ SameHigh(g, q) /\ q.sl >= g.sl
    BY <2>1, <2>2, TrailRaises
  <2>4. q.active = TRUE
    BY <1>2, <1>4, <2>1 DEF Trail, Records
  <2> QED
    BY <1>1, <1>2, <1>4, <2>3, <2>4 DEF Same, SameHigh, Sized, KeptByCloses
<1>5. CASE ~g.active
  BY <1>1, <1>2, <1>3, <1>5 DEF Records, SameHigh, KeptByCloses
<1> QED
  BY <1>4, <1>5

-----------------------------------------------------------------------------
(* The pyramid. *)

LEMMA TriggersAre ==
    ASSUME NEW m \in Pyramids, NEW n \in Int, n \in DOMAIN Triggers(m)
    PROVE  /\ n >= 1 /\ n + 1 \in 1 .. Len(Shares(m))
           /\ Triggers(m)[n] \in Int
           /\ m = "adaptive_tranche" => Triggers(m)[n] = 10 * n
           /\ m # "risk_free_runner" /\ m # "no_pyramid"
<1>1. CASE m \in {"equal_split", "front_loaded", "inverse_pyramid"}
  <2>1. /\ Len(Shares(m)) = 3
        /\ Triggers(m) = <<15, 30>> \/ Triggers(m) = <<20, 40>>
    BY <1>1 DEF Shares, Triggers
  <2> QED
    BY <1>1, <2>1
<1>2. CASE m = "momentum_confirmed"
  <2>1. Len(Shares(m)) = 2 /\ Triggers(m) = <<15>>
    BY <1>2 DEF Shares, Triggers
  <2>2. n = 1
    BY <2>1
  <2> QED
    BY <1>2, <2>1, <2>2
<1>3. CASE m = "adaptive_tranche"
  <2>1. Len(Shares(m)) = 4 /\ Triggers(m) = <<10, 20, 30>>
    BY <1>3 DEF Shares, Triggers
  <2>2. n \in {1, 2, 3}
    BY <2>1
  <2>3. Triggers(m)[n] = 10 * n
    <3>1. CASE n = 1
      BY <2>1, <3>1
    <3>2. CASE n = 2
      BY <2>1, <3>2
    <3>3. CASE n = 3
      BY <2>1, <3>3
    <3> QED
      BY <2>2, <3>1, <3>2, <3>3
  <2>4. 10 * n \in Int /\ n + 1 \in 1 .. 4
    BY <2>2
  <2> QED
    BY <1>3, <2>1, <2>2, <2>3, <2>4
<1>4. CASE m \in {"no_pyramid", "risk_free_runner"}
  <2>1. Triggers(m) = << >>
    BY <1>4 DEF Triggers
  <2> QED
    BY <2>1
<1> QED
  BY <1>1, <1>2, <1>3, <1>4 DEF Pyramids

LEMMA TrancheLotsAre ==
    ASSUME NEW share, NEW lots \in TrancheLots(share)
    PROVE  lots \in Int /\ lots >= Hundredth
<1>1. PICK q \in 0 .. Planned : lots = Higher(q, 1) * Hundredth
  BY DEF TrancheLots
<1>2. q \in Int
  BY PositionAssumption
<1>3. Higher(q, 1) \in Int /\ Higher(q, 1) >= 1
  BY <1>2, HigherIs
<1> QED
  BY <1>1, <1>3 DEF Hundredth

LEMMA PaperCapIs ==
    ASSUME NEW lots \in Int
    PROVE  /\ PaperCap(lots) \in Int /\ PaperCap(lots) <= Hundredth
           /\ lots >= Hundredth => PaperCap(lots) = Hundredth
BY DEF PaperCap, Hundredth

\* A stop that comes with a tranche does not loosen; the adaptive pyramid's is
\* ten points behind the tranche's own trigger.
LEMMA TrancheStopIs ==
    ASSUME NEW m \in Pyramids, NEW p \in Records, NEW c \in CandleRecords, ScalesIn(m, p, c),
           NEW s, s = TrancheStop(m, p)
    PROVE  s \in Int /\ s >= p.sl /\ (c.hi < 20 /\ p.sl <= 0 => s <= 0)
<1> DEFINE t == Triggers(m)[p.tranches]
<1>1. p.sl \in Int /\ p.tranches \in Int /\ c.hi \in Int
  BY DEF Records, CandleRecords
<1>2. t \in Int /\ c.hi >= t /\ (m = "adaptive_tranche" => t = 10 * p.tranches) /\ p.tranches >= 1
  BY <1>1, TriggersAre DEF ScalesIn
<1> HIDE DEF t
<1>3. CASE m = "adaptive_tranche"
  <2>1. t - 10 \in Int /\ s = Higher(p.sl, t - 10)
    BY <1>2, <1>3 DEF TrancheStop, t
  <2>2. s \in Int /\ s >= p.sl /\ s \in {p.sl, t - 10}
    BY <1>1, <2>1, HigherIs
  <2>3. c.hi < 20 => t - 10 <= 0
    BY <1>1, <1>2, <1>3
  <2> QED
    BY <2>2, <2>3
<1>4. CASE m # "adaptive_tranche" /\ p.tranches = 1
  <2>1. s = Higher(p.sl, 0)
    BY <1>4 DEF TrancheStop
  <2> QED
    BY <1>1, <2>1 DEF Higher
<1>5. CASE m # "adaptive_tranche" /\ p.tranches # 1
  BY <1>1, <1>5 DEF TrancheStop
<1> QED
  BY <1>3, <1>4, <1>5

\* The scale-out's record: closes, stop and flag change, nothing else does.
Moved(p, cs, x, o) ==
    /\ o.closes = cs /\ o.sl = x /\ o.active = TRUE
    /\ o.minutes = p.minutes /\ o.high = p.high /\ o.tranches = p.tranches /\ o.lots = p.lots

LEMMA MovedIs ==
    ASSUME NEW p \in Records, NEW cs \in SUBSET Closes, NEW x \in Int,
           NEW o, o = [p EXCEPT !.closes = cs, !.sl = x, !.active = TRUE]
    PROVE  o \in Records /\ Moved(p, cs, x, o)
BY DEF Records, Moved

LEMMA ScaledOutIs ==
    ASSUME NEW m, NEW p \in Records, NEW c, ScalesOut(m, p, c), NEW o, o = ScaledOut(m, p, c)
    PROVE  o \in Records /\ Moved(p, {"runner"}, 1, o)
<1>1. o = [p EXCEPT !.closes = {"runner"}, !.sl = 1, !.active = TRUE]
  BY DEF ScaledOut
<1>2. {"runner"} \in SUBSET Closes
  BY DEF Closes
<1> QED
  BY <1>1, <1>2, 1 \in Int, MovedIs, Zenon

\* What the paper trader's best price, scale-out and scale-in leave for the exits.
\* A scale-out puts the stop at +1 wherever it was; it happens on the first
\* candle that reaches 15 points.
OutOn(m, p, c, d) ==
    m = "risk_free_runner" /\ p.closes = {} /\ c.hi >= 15 /\ d.closes # {} /\ d.sl = 1 /\ d.active = TRUE

Prepared(m, p, c, d) ==
    /\ d.minutes = p.minutes /\ d.high >= p.high
    /\ d.sl >= p.sl \/ OutOn(m, p, c, d)
    /\ d.tranches = p.tranches \/ d.tranches \in 1 .. Len(Shares(m))
    /\ m = "risk_free_runner" /\ d.closes = {} =>
         p.closes = {} /\ c.hi < 15 /\ d.sl = p.sl /\ (p.active = FALSE => d.active = FALSE)
    /\ d.active = FALSE => p.active = FALSE /\ (c.hi < 20 /\ p.sl <= 0 => d.sl <= 0)

Marked(p, q) == q.high >= p.high /\ q.sl = p.sl /\ q.active = p.active /\ Same(p, q)

LEMMA MarkedIs ==
    ASSUME NEW p \in Records, NEW c \in CandleRecords, NEW q, q = [p EXCEPT !.high = Higher(p.high, c.hi)]
    PROVE  q \in Records /\ Marked(p, q)
<1> DEFINE h == Higher(p.high, c.hi)
<1>1. p.high \in Int /\ c.hi \in Int /\ h \in Int /\ h >= p.high
  BY HigherIs DEF Records, CandleRecords
<1>2. q = [p EXCEPT !.high = h]
  OBVIOUS
<1> HIDE DEF h
<1> QED
  BY <1>1, <1>2 DEF Records, Same, Marked

LEMMA PaperPrepares ==
    ASSUME NEW m \in Pyramids, NEW p \in Records, Sized(p), p.lots <= Hundredth, NEW c \in CandleRecords,
           NEW q \in Records, Marked(p, q),
           NEW d \in ScaledIn(m, ScaledOut(m, q, c), c, PaperCap)
    PROVE  d \in Records /\ Sized(d) /\ d.lots <= Hundredth /\ Prepared(m, p, c, d)
<1> DEFINE o == ScaledOut(m, q, c)
<1>1. c.hi \in Int
  BY DEF CandleRecords
<1>2. /\ q \in Records /\ q.high >= p.high
      /\ q.sl = p.sl /\ q.active = p.active /\ q.closes = p.closes /\ Same(p, q)
  BY DEF Marked, Same
<1>3. CASE ScalesOut(m, q, c)
  <2>1. m = "risk_free_runner" /\ q.closes = {} /\ c.hi >= 15
    BY <1>3 DEF ScalesOut
  <2> HIDE DEF o
  <2>3. /\ o \in Records /\ o.closes = {"runner"} /\ o.sl = 1 /\ o.active = TRUE
        /\ o.minutes = q.minutes /\ o.high = q.high /\ o.tranches = q.tranches /\ o.lots = q.lots
    <3>1. o \in Records /\ Moved(q, {"runner"}, 1, o)
      BY <1>3, ScaledOutIs DEF o
    <3> QED
      BY <3>1 DEF Moved
  <2>4. ~ScalesIn(m, o, c)
    BY <2>1, <2>3, TriggersAre DEF ScalesIn, Records
  <2>5. d = o
    BY <2>4 DEF ScaledIn, o
  <2>6. Sized(d) /\ d.lots <= Hundredth
    BY <1>2, <2>1, <2>3, <2>5 DEF Sized, Floor, Same
  <2>7. OutOn(m, p, c, d)
    BY <1>2, <2>1, <2>3, <2>5 DEF OutOn
  <2> QED
    BY <1>2, <2>3, <2>5, <2>6, <2>7 DEF Prepared, Same
<1>4. CASE ~ScalesOut(m, q, c) /\ ~ScalesIn(m, q, c)
  <2>1. d = q
    BY <1>4 DEF ScaledIn, ScaledOut
  <2>2. Sized(d) /\ d.lots <= Hundredth
    BY <1>2, <2>1 DEF Sized, Same
  <2>3. m = "risk_free_runner" /\ q.closes = {} => c.hi < 15
    BY <1>1, <1>4 DEF ScalesOut
  <2>4. p.sl \in Int /\ p.sl >= p.sl
    BY DEF Records
  <2> QED
    BY <1>2, <2>1, <2>2, <2>3, <2>4 DEF Prepared, Same
<1>5. CASE ~ScalesOut(m, q, c) /\ ScalesIn(m, q, c)
  <2>1. PICK add \in TrancheLots(Shares(m)[q.tranches + 1]) :
          d = [q EXCEPT !.lots = PaperCap(q.lots + add), !.tranches = q.tranches + 1,
                        !.sl = TrancheStop(m, q)]
    BY <1>5 DEF ScaledIn, ScaledOut
  <2>2. add \in Int /\ add >= Hundredth
    BY TrancheLotsAre
  <2> DEFINE l == PaperCap(q.lots + add)
             s == TrancheStop(m, q)
  <2>3. l \in Int /\ l = Hundredth
    <3>1. p.lots \in Int /\ p.lots >= 0
      BY DEF Records, Sized, Floor
    <3>2. q.lots = p.lots
      BY <1>2 DEF Same
    <3> QED
      <4> DEFINE sum == q.lots + add
      <4>1. sum \in Int /\ sum >= Hundredth
        BY <2>2, <3>1, <3>2 DEF Hundredth
      <4> HIDE DEF sum
      <4>2. PaperCap(sum) \in Int /\ PaperCap(sum) = Hundredth
        BY <4>1, PaperCapIs
      <4> QED
        BY <4>2 DEF sum
  <2>4. s \in Int /\ s >= q.sl /\ (c.hi < 20 /\ q.sl <= 0 => s <= 0)
    BY <1>2, <1>5, TrancheStopIs
  <2>5. q.tranches \in Int /\ q.tranches + 1 \in 1 .. Len(Shares(m)) /\ m # "risk_free_runner"
    BY <1>2, <1>5, TriggersAre DEF ScalesIn, Records
  <2>6. d = [q EXCEPT !.lots = l, !.tranches = q.tranches + 1, !.sl = s]
    BY <2>1
  <2> HIDE DEF l, s
  <2>7. /\ d \in Records /\ d.lots = l /\ d.tranches = q.tranches + 1 /\ d.sl = s
        /\ d.minutes = q.minutes /\ d.high = q.high /\ d.active = q.active /\ d.closes = q.closes
    <3>1. l \in Int /\ s \in Int /\ q.tranches + 1 \in Int
      BY <2>3, <2>4, <2>5
    <3> QED
      BY <1>2, <2>6, <3>1 DEF Records
  <2>8. Sized(d) /\ d.lots <= Hundredth
    BY <1>2, <2>3, <2>7 DEF Sized, Floor, Hundredth
  <2> QED
    BY <1>2, <2>4, <2>5, <2>7, <2>8 DEF Prepared, Same
<1> QED
  BY <1>3, <1>4, <1>5

-----------------------------------------------------------------------------
(* The exits. *)

\* What the exits leave of the prepared position d, whose stop was p's before the
\* candle: the stop has not loosened.
NotYet(x, p) == x = "breakeven_runner" /\ p.active = FALSE => p.sl <= 0

BeforeRunner(x, p) ==
    p.closes = {} =>
      \/ p.sl <= 0 /\ (x = "multi_target_cascade" => p.active = FALSE)
      \/ x = "atr_dynamic_trail" /\ p.sl < 15 - Atr
      \/ x = "chandelier" /\ p.sl <= p.high - 3 * Atr

Fit(x, m, p) == Sized(p) /\ NotYet(x, p) /\ (m = "risk_free_runner" => BeforeRunner(x, p))

Kept(x, m, p, d, n) ==
    /\ n \in Records /\ Fit(x, m, n) /\ n.sl >= p.sl
    /\ n.tranches = d.tranches /\ n.lots <= d.lots
    /\ n.minutes = IF x = "time_based" THEN d.minutes + 1 ELSE d.minutes

LEMMA TrailKeeps ==
    ASSUME NEW x \in {"fixed_sl_trail", "atr_dynamic_trail"}, NEW m \in Pyramids,
           NEW p \in Records, Fit(x, m, p), NEW d \in Records, Sized(d), NEW c \in CandleRecords,
           Prepared(m, p, c, d),
           NEW t, t = IF x = "fixed_sl_trail" THEN 15 ELSE Atr, NEW n, n = Trail(d, c, t, t)
    PROVE  Kept(x, m, p, d, n)
<1>0. /\ t \in Int /\ p.sl \in Int /\ d.sl \in Int /\ c.hi \in Int /\ Atr \in Int
      /\ d.lots \in Int
  BY PositionAssumption DEF Records, CandleRecords
<1>1. /\ n \in Records /\ Same(d, n) /\ SameHigh(d, n) /\ n.sl >= d.sl /\ n.sl \in {d.sl, c.hi - t}
      /\ c.hi >= t => n.sl >= c.hi - t
      /\ c.hi < t => Untouched(d, n)
  BY <1>0, TrailRaises
<1>2. n.sl \in Int
  BY <1>1 DEF Records
<1>3. Sized(n)
  BY <1>1 DEF Sized, Same
<1>4. m = "risk_free_runner" /\ p.closes = {} => p.sl <= 0 \/ (t = Atr /\ p.sl < 15 - Atr)
  BY DEF Fit, BeforeRunner
<1>5. n.sl >= p.sl
  <2>1. CASE d.sl >= p.sl
    BY <1>0, <1>1, <1>2, <2>1
  <2>2. CASE OutOn(m, p, c, d)
    <3>1. m = "risk_free_runner" /\ p.closes = {} /\ c.hi >= 15 /\ d.sl = 1
      BY <2>2 DEF OutOn
    <3>2. n.sl >= 1
      BY <1>0, <1>1, <1>2, <3>1
    <3> QED
      BY <1>0, <1>1, <1>2, <1>4, <3>1, <3>2
  <2> QED
    BY <2>1, <2>2 DEF Prepared
<1>6. m = "risk_free_runner" => BeforeRunner(x, n)
  <2> SUFFICES ASSUME m = "risk_free_runner", n.closes = {}
               PROVE  n.sl <= 0 \/ (x = "atr_dynamic_trail" /\ n.sl < 15 - Atr)
    BY DEF BeforeRunner
  <2>1. p.closes = {} /\ c.hi < 15 /\ d.sl = p.sl
    BY <1>1 DEF Prepared, Same
  <2>2. CASE c.hi < t
    BY <1>0, <1>1, <1>4, <2>1, <2>2 DEF Untouched
  <2>3. CASE c.hi >= t
    BY <1>0, <1>1, <1>2, <1>4, <2>1, <2>3
  <2> QED
    BY <1>0, <2>2, <2>3
<1> QED
  BY <1>0, <1>1, <1>3, <1>5, <1>6 DEF Kept, Fit, NotYet, Same

LEMMA BreakEvenKeeps ==
    ASSUME NEW x, x = "breakeven_runner", NEW m \in Pyramids,
           NEW p \in Records, Fit(x, m, p), NEW d \in Records, Sized(d), NEW c \in CandleRecords,
           Prepared(m, p, c, d), NEW n, n = BreakEven(d, c)
    PROVE  Kept(x, m, p, d, n)
<1>0. /\ p.sl \in Int /\ d.sl \in Int /\ c.hi \in Int /\ d.lots \in Int
      /\ p.active \in BOOLEAN /\ d.active \in BOOLEAN
  BY DEF Records, CandleRecords
<1>1. /\ n \in Records /\ Same(d, n) /\ SameHigh(d, n)
      /\ c.hi >= 20 /\ d.active = FALSE => n.sl = 1 /\ Armed(n)
      /\ ~(c.hi >= 20 /\ d.active = FALSE) => Untouched(d, n)
  BY BreakEvenArms
<1>2. Sized(n)
  BY <1>1 DEF Sized, Same
<1>3. m = "risk_free_runner" /\ p.closes = {} => p.sl <= 0
  BY DEF Fit, BeforeRunner
<1>4. p.active = FALSE => p.sl <= 0
  BY DEF Fit, NotYet
<1>5. n.sl >= p.sl
  <2>1. CASE c.hi >= 20 /\ d.active = FALSE
    BY <1>0, <1>1, <1>4, <2>1 DEF Prepared
  <2>2. CASE ~(c.hi >= 20 /\ d.active = FALSE) /\ d.sl >= p.sl
    BY <1>1, <2>2 DEF Untouched
  <2>3. CASE ~(c.hi >= 20 /\ d.active = FALSE) /\ OutOn(m, p, c, d)
    BY <1>0, <1>1, <1>3, <2>3 DEF Untouched, OutOn
  <2> QED
    BY <2>1, <2>2, <2>3 DEF Prepared
<1>6. NotYet(x, n)
  <2> SUFFICES ASSUME n.active = FALSE
               PROVE  n.sl <= 0
    BY DEF NotYet
  <2>1. ~(c.hi >= 20 /\ d.active = FALSE) /\ n = d
    BY <1>1 DEF Armed, Untouched
  <2> QED
    BY <1>0, <1>4, <2>1 DEF Prepared
<1>7. m = "risk_free_runner" => BeforeRunner(x, n)
  <2> SUFFICES ASSUME m = "risk_free_runner", n.closes = {}
               PROVE  n.sl <= 0
    BY DEF BeforeRunner
  <2>1. p.closes = {} /\ c.hi < 15 /\ d.sl = p.sl
    BY <1>1 DEF Prepared, Same
  <2>2. ~(c.hi >= 20)
    BY <1>0, <2>1
  <2> QED
    BY <1>1, <1>3, <2>1, <2>2 DEF Untouched
<1> QED
  BY <1>0, <1>1, <1>2, <1>5, <1>6, <1>7 DEF Kept, Fit, Same

LEMMA ChandelierKeeps ==
    ASSUME NEW x, x = "chandelier", NEW m \in Pyramids,
           NEW p \in Records, Fit(x, m, p), NEW d \in Records, Sized(d), NEW c \in CandleRecords,
           Prepared(m, p, c, d), NEW n, n = Chandelier(d, c)
    PROVE  Kept(x, m, p, d, n)
<1>0. /\ p.sl \in Int /\ p.high \in Int /\ d.sl \in Int /\ d.high \in Int /\ c.hi \in Int
      /\ d.lots \in Int /\ Atr \in Nat
  BY PositionAssumption DEF Records, CandleRecords
<1>1. /\ n \in Records /\ Same(d, n) /\ n.high >= d.high
      /\ n.sl >= d.sl /\ n.sl >= n.high - 3 * Atr
      /\ n.sl \in {d.sl, n.high - 3 * Atr}
  <2>1. /\ n \in Records /\ Same(d, n)
        /\ n.high >= d.high /\ n.high >= c.hi
        /\ n.sl >= d.sl /\ n.sl >= n.high - 3 * Atr
        /\ n.sl \in {d.sl, n.high - 3 * Atr}
    BY ChandelierRaises
  <2> QED
    BY <2>1
<1>2. n.sl \in Int /\ n.high \in Int
  BY <1>1 DEF Records
<1>3. Sized(n)
  BY <1>1 DEF Sized, Same
<1>4. m = "risk_free_runner" /\ p.closes = {} => p.sl <= 0 \/ p.sl <= p.high - 3 * Atr
  BY DEF Fit, BeforeRunner
<1>5. d.high >= p.high
  BY DEF Prepared
<1>6. n.sl >= p.sl
  <2>1. CASE d.sl >= p.sl
    BY <1>0, <1>1, <1>2, <2>1
  <2>2. CASE OutOn(m, p, c, d)
    <3>1. m = "risk_free_runner" /\ p.closes = {} /\ d.sl = 1
      BY <2>2 DEF OutOn
    <3> QED
      BY <1>0, <1>1, <1>2, <1>4, <1>5, <3>1
  <2> QED
    BY <2>1, <2>2 DEF Prepared
<1>7. m = "risk_free_runner" => BeforeRunner(x, n)
  <2> SUFFICES ASSUME m = "risk_free_runner", n.closes = {}
               PROVE  n.sl <= 0 \/ n.sl <= n.high - 3 * Atr
    BY DEF BeforeRunner
  <2>1. p.closes = {} /\ d.sl = p.sl
    BY <1>1 DEF Prepared, Same
  <2> QED
    BY <1>0, <1>1, <1>2, <1>4, <1>5, <2>1
<1> QED
  BY <1>0, <1>1, <1>3, <1>6, <1>7 DEF Kept, Fit, NotYet, Same

LEMMA CascadeKeeps ==
    ASSUME NEW x, x = "multi_target_cascade", NEW m \in Pyramids,
           NEW p \in Records, Fit(x, m, p), NEW d \in Records, Sized(d), NEW c \in CandleRecords,
           Prepared(m, p, c, d), NEW n, n = Cascade(d, c)
    PROVE  Kept(x, m, p, d, n)
<1>0. /\ p.sl \in Int /\ d.sl \in Int /\ c.hi \in Int
  BY DEF Records, CandleRecords
<1>1. /\ n \in Records /\ Sized(n) /\ KeptByCloses(d, n)
      /\ n.sl >= d.sl /\ n.lots <= d.lots
      /\ n.closes = {} => d.closes = {} /\ (d.active = FALSE => n.active = FALSE)
      /\ n.active = FALSE => n.sl = d.sl
  BY CascadeRaises
<1>2. n.sl \in Int
  BY <1>1 DEF Records
<1>3. m = "risk_free_runner" /\ p.closes = {} => p.sl <= 0 /\ p.active = FALSE
  BY DEF Fit, BeforeRunner
<1>4. n.sl >= p.sl
  <2>1. CASE d.sl >= p.sl
    BY <1>0, <1>1, <1>2, <2>1
  <2>2. CASE OutOn(m, p, c, d)
    <3>1. m = "risk_free_runner" /\ p.closes = {} /\ d.sl = 1
      BY <2>2 DEF OutOn
    <3> QED
      BY <1>0, <1>1, <1>2, <1>3, <3>1
  <2> QED
    BY <2>1, <2>2 DEF Prepared
<1>5. m = "risk_free_runner" => BeforeRunner(x, n)
  <2> SUFFICES ASSUME m = "risk_free_runner", n.closes = {}
               PROVE  n.sl <= 0 /\ n.active = FALSE
    BY DEF BeforeRunner
  <2>1. p.closes = {} /\ d.sl = p.sl /\ (p.active = FALSE => d.active = FALSE)
    BY <1>1 DEF Prepared
  <2> QED
    BY <1>1, <1>3, <2>1
<1> QED
  BY <1>1, <1>4, <1>5 DEF Kept, Fit, NotYet, KeptByCloses

\* A fixed exit and a time-based one leave the stop alone.
LEMMA PlainKeeps ==
    ASSUME NEW x \in {"fixed_sl_tp", "time_based"}, NEW m \in Pyramids,
           NEW p \in Records, Fit(x, m, p), NEW d \in Records, Sized(d), NEW c \in CandleRecords,
           Prepared(m, p, c, d),
           NEW n, n = IF x = "time_based" THEN [d EXCEPT !.minutes = @ + 1] ELSE d
    PROVE  Kept(x, m, p, d, n)
<1>0. /\ p.sl \in Int /\ d.sl \in Int /\ c.hi \in Int /\ d.lots \in Int /\ d.minutes \in Int
  BY DEF Records, CandleRecords
<1>1. /\ n \in Records /\ n.sl = d.sl /\ n.closes = d.closes /\ n.tranches = d.tranches
      /\ n.lots = d.lots /\ n.minutes = IF x = "time_based" THEN d.minutes + 1 ELSE d.minutes
  <2>1. CASE x = "time_based"
    <3> DEFINE k == d.minutes + 1
    <3>1. k \in Int /\ n = [d EXCEPT !.minutes = k]
      BY <1>0, <2>1
    <3> HIDE DEF k
    <3>2. /\ n \in Records /\ n.sl = d.sl /\ n.closes = d.closes /\ n.tranches = d.tranches
          /\ n.lots = d.lots /\ n.minutes = k
      BY <3>1 DEF Records
    <3> QED
      BY <2>1, <3>2 DEF k
  <2>2. CASE x # "time_based"
    BY <2>2
  <2> QED
    BY <2>1, <2>2
<1>2. Sized(n)
  BY <1>1 DEF Sized
<1>3. m = "risk_free_runner" /\ p.closes = {} => p.sl <= 0
  BY DEF Fit, BeforeRunner
<1>4. n.sl >= p.sl
  BY <1>0, <1>1, <1>3 DEF Prepared, OutOn
<1>5. m = "risk_free_runner" => BeforeRunner(x, n)
  BY <1>1, <1>3 DEF BeforeRunner, Prepared
<1> QED
  BY <1>0, <1>1, <1>2, <1>4, <1>5 DEF Kept, Fit, NotYet

LEMMA ManagedKeeps ==
    ASSUME NEW x \in ExitModels, NEW m \in Pyramids,
           NEW p \in Records, Fit(x, m, p), NEW d \in Records, Sized(d), NEW c \in CandleRecords,
           Prepared(m, p, c, d), NEW n, n = Managed(x, d, c)
    PROVE  Kept(x, m, p, d, n)
<1>1. CASE x \in {"fixed_sl_trail", "atr_dynamic_trail"}
  <2> DEFINE t == IF x = "fixed_sl_trail" THEN 15 ELSE Atr
  <2>1. n = Trail(d, c, t, t)
    BY <1>1 DEF Managed
  <2> QED
    BY <1>1, <2>1, TrailKeeps
<1>2. CASE x = "breakeven_runner"
  <2>1. n = BreakEven(d, c)
    BY <1>2 DEF Managed
  <2> QED
    BY <1>2, <2>1, BreakEvenKeeps
<1>3. CASE x = "chandelier"
  <2>1. n = Chandelier(d, c)
    BY <1>3 DEF Managed
  <2> QED
    BY <1>3, <2>1, ChandelierKeeps
<1>4. CASE x = "multi_target_cascade"
  <2>1. n = Cascade(d, c)
    BY <1>4 DEF Managed
  <2> QED
    BY <1>4, <2>1, CascadeKeeps
<1>5. CASE x \in {"fixed_sl_tp", "time_based"}
  <2>1. n = IF x = "time_based" THEN [d EXCEPT !.minutes = @ + 1] ELSE d
    BY <1>5 DEF Managed
  <2> QED
    BY <1>5, <2>1, PlainKeeps
<1> QED
  BY <1>1, <1>2, <1>3, <1>4, <1>5 DEF ExitModels

LEMMA CheckExitIs ==
    ASSUME NEW x \in ExitModels, NEW d \in Records, NEW c \in CandleRecords,
           NEW n \in Records, n = Managed(x, d, c), NEW r, r = CheckExit(x, d, c)
    PROVE  \/ /\ r = Stays(n) /\ c.lo > d.sl /\ c.lo > n.sl
              /\ x = "time_based" => n.minutes < TimeLimit
           \/ r = Leaves(d, "stop_loss", d.sl)
           \/ r = Leaves(d, "take_profit", TpPts)
           \/ r = Leaves(n, "time_exit", c.close) /\ c.lo > d.sl
           \/ r = Leaves(n, "trailing_stop", n.sl)
<1>1. /\ d.sl \in Int /\ n.sl \in Int /\ n.minutes \in Int /\ c.lo \in Int
      /\ TimeLimit \in Int
  BY PositionAssumption DEF Records, CandleRecords
<1>2. CASE c.lo <= d.sl
  BY <1>2 DEF CheckExit
<1>3. CASE ~(c.lo <= d.sl) /\ x = "fixed_sl_tp" /\ c.hi >= TpPts
  BY <1>3 DEF CheckExit
<1>4. CASE ~(c.lo <= d.sl) /\ x = "time_based" /\ n.minutes >= TimeLimit
  BY <1>1, <1>4 DEF CheckExit
<1>5. CASE /\ ~(c.lo <= d.sl) /\ ~(x = "fixed_sl_tp" /\ c.hi >= TpPts)
           /\ ~(x = "time_based" /\ n.minutes >= TimeLimit) /\ c.lo <= n.sl
  BY <1>5 DEF CheckExit
<1>6. CASE /\ ~(c.lo <= d.sl) /\ ~(x = "fixed_sl_tp" /\ c.hi >= TpPts)
           /\ ~(x = "time_based" /\ n.minutes >= TimeLimit) /\ ~(c.lo <= n.sl)
  <2>1. r = Stays(n)
    BY <1>6 DEF CheckExit
  <2> QED
    BY <1>1, <1>6, <2>1
<1> QED
  BY <1>2, <1>3, <1>4, <1>5, <1>6

\* What the candle leaves: a trade that goes on is fit for the next candle, has its
\* stop where it was or nearer, and below the candle; one that ends has lost no more
\* than its initial stop.
GoesOn(x, m, p, c, d, n) ==
    /\ n \in Records /\ Fit(x, m, n) /\ n.sl >= p.sl /\ c.lo > n.sl
    /\ n.minutes \in 0 .. TimeLimit - 1
    /\ n.tranches = d.tranches /\ n.lots <= d.lots

Result(x, m, p, c, d, r) ==
    /\ DOMAIN r = {"position", "exit", "price"} /\ r.price \in Int
    /\ r.exit = "none" => GoesOn(x, m, p, c, d, r.position) /\ c.close >= InitialStop(x)
    /\ r.exit # "none" => r.price >= InitialStop(x)

LEMMA CandleIs ==
    ASSUME NEW x \in ExitModels, NEW m \in Pyramids,
           NEW p \in Records, Fit(x, m, p), p.minutes \in 0 .. TimeLimit - 1, p.sl >= InitialStop(x),
           NEW c \in CandleRecords, c.lo <= c.close,
           NEW d \in Records, Sized(d), Prepared(m, p, c, d),
           NEW r, r = CheckExit(x, d, c)
    PROVE  Result(x, m, p, c, d, r)
<1> DEFINE n == Managed(x, d, c)
           i == InitialStop(x)
<1>0. /\ p.sl \in Int /\ d.sl \in Int /\ c.lo \in Int /\ c.close \in Int /\ d.minutes \in Int
      /\ TimeLimit \in Int /\ TpPts \in Nat
  BY PositionAssumption DEF Records, CandleRecords
<1>1. Kept(x, m, p, d, n)
  BY ManagedKeeps
<1>2. n \in Records
  BY <1>1 DEF Kept
<1>3. i \in Int /\ i <= 0
  BY InitialStopIs
<1>4. \/ /\ r = Stays(n) /\ c.lo > d.sl /\ c.lo > n.sl
         /\ x = "time_based" => n.minutes < TimeLimit
      \/ r = Leaves(d, "stop_loss", d.sl)
      \/ r = Leaves(d, "take_profit", TpPts)
      \/ r = Leaves(n, "time_exit", c.close) /\ c.lo > d.sl
      \/ r = Leaves(n, "trailing_stop", n.sl)
  BY <1>2, CheckExitIs
<1> HIDE DEF n
<1>5. n.sl \in Int /\ n.sl >= p.sl /\ n.minutes \in Int
  BY <1>1 DEF Kept, Records
<1>6. d.sl >= i
  <2>1. d.sl >= p.sl \/ d.sl = 1
    BY DEF Prepared, OutOn
  <2>2. p.sl >= i
    OBVIOUS
  <2> HIDE DEF i
  <2> QED
    BY <1>0, <1>3, <2>1, <2>2
<1>7. n.sl >= i
  <2>1. p.sl >= i
    OBVIOUS
  <2> HIDE DEF i
  <2> QED
    BY <1>0, <1>3, <1>5, <2>1
<1>8. CASE r = Stays(n) /\ c.lo > n.sl /\ (x = "time_based" => n.minutes < TimeLimit)
  <2>1. /\ r.exit = "none" /\ r.position = n /\ r.price = 0
        /\ DOMAIN r = {"position", "exit", "price"}
    BY <1>8 DEF Stays
  <2>2. n.minutes \in 0 .. TimeLimit - 1
    <3>1. p.minutes \in Int /\ 0 <= p.minutes /\ p.minutes <= TimeLimit - 1 /\ d.minutes = p.minutes
      BY <1>0 DEF Prepared
    <3>2. n.minutes = IF x = "time_based" THEN d.minutes + 1 ELSE d.minutes
      BY <1>1 DEF Kept
    <3> QED
      BY <1>0, <1>5, <1>8, <3>1, <3>2
  <2>3. GoesOn(x, m, p, c, d, n)
    BY <1>1, <1>8, <2>2 DEF Kept, GoesOn
  <2>4. c.close >= i
    <3> HIDE DEF i
    <3> QED
      BY <1>0, <1>3, <1>5, <1>7, <1>8
  <2> QED
    BY <2>1, <2>3, <2>4 DEF Result
<1>9. CASE r = Leaves(d, "stop_loss", d.sl)
  BY <1>0, <1>6, <1>9 DEF Leaves, Result
<1>10. CASE r = Leaves(d, "take_profit", TpPts)
  <2>1. TpPts >= i
    <3> HIDE DEF i
    <3> QED
      BY <1>0, <1>3
  <2> QED
    BY <1>0, <1>10, <2>1 DEF Leaves, Result
<1>11. CASE r = Leaves(n, "time_exit", c.close) /\ c.lo > d.sl
  <2>1. c.close >= i
    <3> HIDE DEF i
    <3> QED
      BY <1>0, <1>3, <1>6, <1>11
  <2> QED
    BY <1>0, <1>11, <2>1 DEF Leaves, Result
<1>12. CASE r = Leaves(n, "trailing_stop", n.sl)
  BY <1>5, <1>7, <1>12 DEF Leaves, Result
<1> QED
  BY <1>4, <1>8, <1>9, <1>10, <1>11, <1>12

-----------------------------------------------------------------------------
(* The inductive invariant. *)

Placed ==
    /\ position \in Records
    /\ position.minutes \in 0 .. TimeLimit - 1 /\ position.tranches \in 1 .. Len(Shares(pyramid))
    /\ position.sl >= InitialStop(exit)
    /\ Fit(exit, Recognised, position)
    /\ venue = "paper" => position.lots <= Hundredth

IInv ==
    /\ venue \in {"paper", "backtest"} /\ exit \in ExitModels /\ pyramid \in Pyramids
    /\ phase \in 1 .. 4 /\ day \in 1 .. MaxDays /\ trades \in {0, 1} /\ tripped \in BOOLEAN
    /\ position = None \/ Placed
    /\ venue = "paper" /\ tripped => position = None

LEMMA FedIs ==
    ASSUME NEW c \in Fed
    PROVE  c \in CandleRecords /\ c.lo <= c.close
<1>1. Points \subseteq Int
  BY SimulatorsAssumption DEF Points
<1>2. c \in Candles /\ Valid(c)
  BY DEF Fed
<1>3. PICK h \in Points, l \in Points, k \in Points : c = [hi |-> h, lo |-> l, close |-> k]
  BY <1>2 DEF Candles
<1>4. h \in Int /\ l \in Int /\ k \in Int
  BY <1>1
<1> QED
  BY <1>2, <1>3, <1>4 DEF CandleRecords, Valid

LEMMA RecognisedIs ==
    IInv => /\ Recognised \in Pyramids
            /\ venue = "paper" => Recognised = pyramid
            /\ venue # "paper" => Recognised = "no_pyramid"
BY DEF IInv, Recognised, Pyramids

\* A backtester's position goes to the exits as it is.
LEMMA UntouchedPrepared ==
    ASSUME NEW p \in Records, NEW c \in CandleRecords
    PROVE  Prepared("no_pyramid", p, c, p)
<1>1. p.sl \in Int /\ p.high \in Int
  BY DEF Records
<1> QED
  BY <1>1 DEF Prepared

LEMMA BacktestSteps ==
    ASSUME NEW p, NEW c, Recognised = "no_pyramid", NEW r \in BacktestManaged(p, c)
    PROVE  r = CheckExit(exit, p, c)
<1>1. ~ScalesIn("no_pyramid", p, c)
  BY DEF ScalesIn, Triggers
<1>2. ScaledIn("no_pyramid", p, c, Uncapped) = {p}
  BY <1>1 DEF ScaledIn
<1>3. \A q : ~ScalesOut("no_pyramid", q, c)
  BY DEF ScalesOut
<1> QED
  BY <1>2, <1>3 DEF BacktestManaged

\* What a candle leaves once the cost of an exit is off its price; an exit at the close
\* bounds nothing.
Ends(c, d, r) ==
    /\ r.exit = "none" => /\ GoesOn(exit, Recognised, position, c, d, r.position)
                          /\ c.close >= InitialStop(exit)
    /\ r.exit \notin {"none"} \cup AtClose => r.price >= InitialStop(exit) - Cost

\* One candle of the exit manager, for the position a venue finds.
LEMMA ManagedResult ==
    ASSUME IInv, position # None, NEW c \in Fed,
           NEW r, \/ venue = "paper" /\ r \in PaperManaged(position, c)
                  \/ venue = "backtest" /\ r \in BacktestManaged(position, c)
    PROVE  \E d \in Records :
             /\ Ends(c, d, r)
             /\ d.tranches \in 1 .. Len(Shares(pyramid))
             /\ venue = "paper" => d.lots <= Hundredth
<1>1. c \in CandleRecords /\ c.lo <= c.close
  BY FedIs
<1>2. Placed /\ position \in Records /\ exit \in ExitModels /\ Recognised \in Pyramids
  BY RecognisedIs DEF IInv, Placed
<1>3. /\ Fit(exit, Recognised, position) /\ Sized(position) /\ position.minutes \in 0 .. TimeLimit - 1
      /\ position.sl >= InitialStop(exit)
  BY <1>2 DEF Placed, Fit
<1>4. InitialStop(exit) \in Int /\ ExitCost \in Nat
  BY <1>2, InitialStopIs, SimulatorsAssumption
<1>5. CASE venue = "paper"
  <2> DEFINE q == [position EXCEPT !.high = Higher(position.high, c.hi)]
  <2>1. r \in PaperManaged(position, c)
    BY <1>5
  <2>2. PICK d \in ScaledIn(Recognised, ScaledOut(Recognised, q, c), c, PaperCap) :
          r = Priced(CheckExit(exit, d, c))
    BY <2>1 DEF PaperManaged
  <2>3. q \in Records /\ Marked(position, q)
    BY <1>1, <1>2, MarkedIs
  <2> HIDE DEF q
  <2>4. position.lots <= Hundredth
    BY <1>2, <1>5 DEF Placed
  <2>5. d \in Records /\ Sized(d) /\ d.lots <= Hundredth /\ Prepared(Recognised, position, c, d)
    BY <1>1, <1>2, <1>3, <2>3, <2>4, PaperPrepares
  <2> PICK u : u = CheckExit(exit, d, c)
    OBVIOUS
  <2>6. Result(exit, Recognised, position, c, d, u)
    BY <1>1, <1>2, <1>3, <2>5, CandleIs
  <2>7. Ends(c, d, r)
    <3>1. r = Priced(u) /\ Cost = ExitCost
      BY <1>5, <2>2 DEF Cost
    <3>2. CASE u.exit = "none"
      <4>1. r = u
        BY <3>1, <3>2 DEF Priced
      <4> QED
        BY <2>6, <3>2, <4>1 DEF Result, Ends
    <3>3. CASE u.exit # "none"
      <4>1. r.exit = u.exit /\ r.price = u.price - ExitCost
        BY <2>6, <3>1, <3>3 DEF Priced, Result
      <4>2. u.price \in Int /\ u.price >= InitialStop(exit)
        BY <2>6, <3>3 DEF Result
      <4>3. r.price >= InitialStop(exit) - ExitCost
        BY <1>4, <4>1, <4>2
      <4> QED
        BY <3>1, <3>3, <4>1, <4>3 DEF Ends
    <3> QED
      BY <3>2, <3>3
  <2>8. d.tranches \in 1 .. Len(Shares(pyramid))
    <3>1. Recognised = pyramid
      BY <1>5, RecognisedIs
    <3>2. position.tranches \in 1 .. Len(Shares(pyramid))
      BY <1>2 DEF Placed
    <3> QED
      BY <2>5, <3>1, <3>2 DEF Prepared
  <2> QED
    BY <2>5, <2>7, <2>8
<1>6. CASE venue = "backtest"
  <2>1. Recognised = "no_pyramid" /\ Cost = 0
    BY <1>6, RecognisedIs DEF Cost
  <2>2. r \in BacktestManaged(position, c)
    BY <1>6
  <2>3. r = CheckExit(exit, position, c)
    BY <2>1, <2>2, BacktestSteps
  <2>4. Prepared(Recognised, position, c, position)
    BY <1>1, <1>2, <2>1, UntouchedPrepared
  <2>5. Result(exit, Recognised, position, c, position, r)
    BY <1>1, <1>2, <1>3, <2>3, <2>4, CandleIs
  <2>6. Ends(c, position, r)
    BY <1>4, <2>1, <2>5 DEF Result, Ends
  <2>7. position.tranches \in 1 .. Len(Shares(pyramid))
    BY <1>2 DEF Placed
  <2> QED
    BY <1>2, <1>6, <2>6, <2>7
<1> QED
  BY <1>5, <1>6

\* One candle of either venue, for the position it finds.
LEMMA StepResult ==
    ASSUME IInv, position # None, NEW c \in Fed, NEW r \in Steps(c)
    PROVE  \E d \in Records :
             /\ Ends(c, d, r)
             /\ d.tranches \in 1 .. Len(Shares(pyramid))
             /\ venue = "paper" => d.lots <= Hundredth
<1>1. \A reason : Priced(Leaves(position, reason, c.close)).exit = reason
  BY DEF Priced, Leaves
<1>2. CASE venue = "backtest"
  BY <1>2, ManagedResult DEF Steps
<1>3. CASE venue = "paper" /\ r \in PaperManaged(position, c)
  BY <1>3, ManagedResult
<1>4. CASE venue = "paper" /\ r \notin PaperManaged(position, c)
  <2>1. r \in PaperSteps(position, c)
    BY <1>4 DEF Steps
  <2>2. \/ r = Priced(Leaves(position, "circuit_breaker", c.close))
        \/ r = Priced(Leaves(position, "session_end", c.close))
    BY <1>4, <2>1 DEF PaperSteps
  <2>3. r.exit \in AtClose /\ r.exit # "none"
    BY <1>1, <2>2 DEF AtClose
  <2>4. Ends(c, position, r)
    BY <2>3 DEF Ends
  <2> QED
    BY <1>4, <2>4 DEF IInv, Placed
<1> QED
  BY <1>2, <1>3, <1>4 DEF IInv

LEMMA OpenedIs ==
    ASSUME NEW x \in ExitModels, NEW m, NEW high \in Int, NEW lots \in Int, lots >= Hundredth,
           NEW o, o = Opened(x, high, lots)
    PROVE  /\ o \in Records /\ Fit(x, m, o)
           /\ o.minutes = 0 /\ o.tranches = 1 /\ o.lots = lots /\ o.sl >= InitialStop(x)
<1> DEFINE i == InitialStop(x)
<1>1. i \in Int /\ i <= 0
  BY InitialStopIs
<1>2. o = [sl |-> i, high |-> high, active |-> FALSE, minutes |-> 0, closes |-> {}, tranches |-> 1,
           lots |-> lots]
  BY DEF Opened
<1> HIDE DEF i
<1>3. o \in Records
  BY <1>1, <1>2 DEF Records
<1>4. /\ o.sl = i /\ o.active = FALSE /\ o.minutes = 0 /\ o.closes = {} /\ o.tranches = 1
      /\ o.lots = lots
  BY <1>2
<1>5. Sized(o)
  BY <1>4 DEF Sized, Floor, Hundredth
<1>6. NotYet(x, o) /\ BeforeRunner(x, o)
  BY <1>1, <1>4 DEF NotYet, BeforeRunner
<1>7. o.sl >= i
  BY <1>1, <1>4
<1> QED
  BY <1>3, <1>4, <1>5, <1>6, <1>7 DEF Fit, i

LEMMA SharesAre ==
    ASSUME NEW m \in Pyramids
    PROVE  1 \in 1 .. Len(Shares(m))
<1>1. Shares(m) \in {<<20, 20, 20>>, <<30, 18, 12>>, <<12, 18, 30>>, <<30, 30>>, <<15, 15, 15, 15>>, <<60>>}
  BY DEF Shares
<1> QED
  BY <1>1

LEMMA InitInv ==
    Init => IInv
<1>1. 1 \in 1 .. MaxDays
  BY SimulatorsAssumption
<1>2. Init => phase \in 1 .. 4 /\ trades \in {0, 1}
  BY DEF Init
<1>3. Init => tripped \in BOOLEAN /\ ~(venue = "paper" /\ tripped)
  BY Zenon DEF Init
<1> QED
  BY <1>1, <1>2, <1>3, Zenon DEF Init, IInv

LEMMA OpenedPlaced ==
    ASSUME IInv, UNCHANGED profile, NEW h \in Int, NEW l \in Int, l >= Hundredth,
           venue = "paper" => l <= Hundredth, position' = Opened(exit, h, l)
    PROVE  Placed'
<1>1. exit \in ExitModels /\ pyramid \in Pyramids /\ exit' = exit /\ pyramid' = pyramid /\ venue' = venue
  BY DEF IInv, profile
<1>2. Recognised' = Recognised
  BY <1>1 DEF Recognised
<1>3. \A o : o = Opened(exit, h, l) =>
        /\ o \in Records /\ Fit(exit, Recognised, o)
        /\ o.minutes = 0 /\ o.tranches = 1 /\ o.lots = l /\ o.sl >= InitialStop(exit)
  BY <1>1, OpenedIs
<1>4. 1 \in 1 .. Len(Shares(pyramid)) /\ 0 \in 0 .. TimeLimit - 1
  BY <1>1, SharesAre, PositionAssumption
<1> QED
  BY <1>1, <1>2, <1>3, <1>4 DEF Placed

LEMMA GoneOn ==
    ASSUME IInv, UNCHANGED profile, position # None, NEW c \in Fed, NEW r \in Steps(c),
           r.exit = "none", position' = r.position
    PROVE  Placed' /\ position'.sl >= position.sl
<1>1. exit' = exit /\ pyramid' = pyramid /\ venue' = venue
  BY DEF profile
<1>2. Recognised' = Recognised
  BY <1>1 DEF Recognised
<1>3. PICK d \in Records :
        /\ Ends(c, d, r)
        /\ d.tranches \in 1 .. Len(Shares(pyramid))
        /\ venue = "paper" => d.lots <= Hundredth
  BY StepResult
<1>4. GoesOn(exit, Recognised, position, c, d, position')
  BY <1>3 DEF Ends
<1>5. position' \in Records /\ position'.sl >= position.sl
  BY <1>4 DEF GoesOn
<1>6. position'.sl >= InitialStop(exit)
  <2>1. position \in Records /\ position.sl >= InitialStop(exit) /\ exit \in ExitModels
    BY DEF IInv, Placed
  <2>2. InitialStop(exit) \in Int /\ position.sl \in Int /\ position'.sl \in Int
    BY <1>5, <2>1, InitialStopIs DEF Records
  <2> QED
    BY <1>5, <2>1, <2>2
<1>7. venue = "paper" => position'.lots <= Hundredth
  BY <1>3, <1>4, <1>5 DEF GoesOn, Records, Hundredth
<1> QED
  BY <1>1, <1>2, <1>3, <1>4, <1>5, <1>6, <1>7 DEF GoesOn, Placed

\* Between two states the position goes on, is opened, or is gone.
LEMMA NextInv ==
    ASSUME IInv, [Next]_vars
    PROVE  IInv' /\ (position # None /\ position' # None => position'.sl >= position.sl)
<1>0. position # None => position \in Records /\ position.sl \in Int
  BY DEF IInv, Placed, Records
<1>1. CASE PaperCandle
  <2>1. /\ venue = "paper" /\ position # None /\ UNCHANGED <<profile, phase, day, trades>>
    BY <1>1 DEF PaperCandle
  <2>2. CASE position' = None
    <3>1. tripped' \in BOOLEAN
      BY <1>1 DEF PaperCandle, IInv
    <3> QED
      BY <2>1, <2>2, <3>1 DEF IInv, profile
  <2>3. CASE position' # None
    <3> DEFINE Left(r) == /\ position' = IF r.exit = "none" THEN r.position ELSE None
                          /\ tripped' = (tripped \/ r.exit = "circuit_breaker")
    <3>0. PICK c \in Fed : \E r \in PaperSteps(position, c) : Left(r)
      BY <1>1 DEF PaperCandle
    <3>1. PICK r \in PaperSteps(position, c) : Left(r)
      BY <3>0
    <3>2. r.exit = "none" /\ position' = r.position
      BY <2>3, <3>1
    <3>3. tripped' = tripped
      BY <3>1, <3>2 DEF IInv
    <3>4. r \in Steps(c)
      BY <2>1, <3>1 DEF Steps
    <3>5. Placed' /\ position'.sl >= position.sl
      BY <2>1, <3>2, <3>4, GoneOn
    <3> QED
      BY <2>1, <3>3, <3>5 DEF IInv, profile
  <2> QED
    BY <2>2, <2>3
<1>2. CASE Trip
  BY <1>2 DEF Trip, IInv, profile
<1>3. CASE PaperEntry
  <2>1. /\ position = None /\ tripped = FALSE /\ trades' = 1
        /\ UNCHANGED <<profile, phase, day, tripped>>
    BY <1>3 DEF PaperEntry, IInv
  <2>2. PICK h \in Points : position' = Opened(exit, h, Hundredth)
    BY <1>3 DEF PaperEntry
  <2>3. h \in Int
    BY SimulatorsAssumption DEF Points
  <2>4. Hundredth \in Int /\ Hundredth >= Hundredth /\ Hundredth <= Hundredth
    BY DEF Hundredth
  <2>5. Placed'
    BY <2>1, <2>2, <2>3, <2>4, OpenedPlaced
  <2> QED
    BY <2>1, <2>5 DEF IInv, profile
<1>4. CASE BacktestCandle
  <2>1. venue = "backtest" /\ position # None /\ UNCHANGED <<profile, phase, day, trades, tripped>>
    BY <1>4 DEF BacktestCandle
  <2>2. CASE position' = None
    BY <2>1, <2>2 DEF IInv, profile
  <2>3. CASE position' # None
    <3>1. PICK c \in Fed : \E r \in BacktestManaged(position, c) :
             position' = IF r.exit = "none" THEN r.position ELSE None
      BY <1>4, <2>3 DEF BacktestCandle
    <3>2. PICK r \in BacktestManaged(position, c) : r.exit = "none" /\ position' = r.position
      BY <2>3, <3>1
    <3>3. r \in Steps(c)
      BY <2>1, <3>2 DEF Steps
    <3>4. Placed' /\ position'.sl >= position.sl
      BY <2>1, <3>2, <3>3, GoneOn
    <3> QED
      BY <2>1, <3>4 DEF IInv, profile
  <2> QED
    BY <2>2, <2>3
<1>5. CASE BacktestEntry
  <2>1. /\ venue = "backtest" /\ position = None /\ trades' = 1
        /\ UNCHANGED <<profile, phase, day, tripped>>
    BY <1>5 DEF BacktestEntry, IInv
  <2>2. PICK l \in TrancheLots(Shares(Recognised)[1]) : position' = Opened(exit, 0, l)
    BY <1>5 DEF BacktestEntry
  <2>3. l \in Int /\ l >= Hundredth
    BY TrancheLotsAre
  <2>4. Placed'
    BY <2>1, <2>2, <2>3, OpenedPlaced
  <2> QED
    BY <2>1, <2>4 DEF IInv, profile
<1>6. CASE Later
  <2>1. /\ phase' \in 1 .. 4 /\ position' \in {None, position}
        /\ UNCHANGED <<profile, day, trades, tripped>>
    BY <1>6 DEF Later, LastCandle, IInv
  <2>2. Recognised' = Recognised /\ venue' = venue /\ exit' = exit /\ pyramid' = pyramid
    BY <2>1 DEF Recognised, profile
  <2>3. position' = None \/ Placed'
    BY <2>1, <2>2 DEF IInv, Placed
  <2> QED
    BY <1>0, <2>1, <2>2, <2>3 DEF IInv
<1>7. CASE NewDay
  <2>1. /\ phase' \in 1 .. 4 /\ day' \in 1 .. MaxDays /\ position' \in {None, position}
        /\ UNCHANGED profile /\ trades' = 0 /\ tripped' = FALSE
    BY <1>7, SimulatorsAssumption DEF NewDay, LastCandle, IInv
  <2>2. Recognised' = Recognised /\ venue' = venue /\ exit' = exit /\ pyramid' = pyramid
    BY <2>1 DEF Recognised, profile
  <2>3. position' = None \/ Placed'
    BY <2>1, <2>2 DEF IInv, Placed
  <2>4. trades' \in {0, 1} /\ tripped' \in BOOLEAN /\ ~(venue' = "paper" /\ tripped')
    BY <2>1, Zenon
  <2>5. IInv'
    BY <2>1, <2>2, <2>3, <2>4, Zenon DEF IInv
  <2>6. position # None /\ position' # None => position'.sl >= position.sl
    BY <1>0, <2>1
  <2> QED
    BY <2>5, <2>6
<1>8. CASE UNCHANGED vars
  <2>1. position' = position /\ UNCHANGED <<profile, phase, day, trades, tripped>>
    BY <1>8 DEF vars
  <2>2. Recognised' = Recognised /\ venue' = venue /\ exit' = exit /\ pyramid' = pyramid
    BY <2>1 DEF Recognised, profile
  <2>3. position' = None \/ Placed'
    BY <2>1, <2>2 DEF IInv, Placed
  <2>4. phase' = phase /\ day' = day /\ trades' = trades /\ tripped' = tripped
    BY <2>1
  <2>5. IInv'
    BY <2>1, <2>2, <2>3, <2>4 DEF IInv
  <2>6. position # None /\ position' # None => position'.sl >= position.sl
    BY <1>0, <2>1
  <2> QED
    BY <2>5, <2>6
<1> QED
  BY <1>1, <1>2, <1>3, <1>4, <1>5, <1>6, <1>7, <1>8 DEF Next

-----------------------------------------------------------------------------
(* Theorems. *)

\* The invariant holds in every reachable state.
THEOREM Invariance == Spec => []IInv
<1>1. IInv /\ [Next]_vars => IInv'
  BY NextInv
<1> QED
  BY <1>1, InitInv, PTL DEF Spec

\* A position is a record whose minutes, tranches and lots are what its models allow.
THEOREM TypeCorrect == Spec => []TypeOK
<1>1. IInv => TypeOK
  <2>1. Placed => position.lots \in Nat \ {0}
    BY DEF Placed, Records, Fit, Sized, Floor
  <2> QED
    BY <2>1 DEF IInv, TypeOK, Placed, Records
<1> QED
  BY <1>1, Invariance, PTL

\* No candle moves a stop away from the price, whatever trailing, break-even, tranche
\* and scale-out it meets and in whatever order (modules/exit/manager.py).
THEOREM StopsHold == Spec => StopNeverLoosens
<1>1. IInv /\ [Next]_vars => [Open /\ position' # None => position'.sl >= position.sl]_vars
  BY NextInv DEF Open
<1> QED
  BY <1>1, Invariance, PTL DEF Spec, StopNeverLoosens

\* A candle that reaches the stop a position had before it ends the trade.
THEOREM StopsHonoured == Spec => []StopHonoured
<1>1. IInv => StopHonoured
  <2> SUFFICES ASSUME IInv, Open, NEW c \in Fed, c.lo <= position.sl, NEW r \in Steps(c),
                      r.exit = "none"
               PROVE  FALSE
    BY DEF StopHonoured
  <2>1. PICK d \in Records : Ends(c, d, r)
    BY StepResult DEF Open
  <2>2. /\ r.position \in Records /\ r.position.sl >= position.sl /\ c.lo > r.position.sl
    BY <2>1 DEF Ends, GoesOn
  <2>3. position \in Records /\ c \in CandleRecords
    BY FedIs DEF IInv, Placed, Open
  <2>4. r.position.sl \in Int /\ position.sl \in Int /\ c.lo \in Int
    BY <2>2, <2>3 DEF Records, CandleRecords
  <2> QED
    BY <2>2, <2>4
<1> QED
  BY <1>1, Invariance, PTL

\* An exit by stop, target or time costs a trade no more than its initial stop and the
\* cost of an exit; the breaker and the last hour, which close at any price, aside
\* (paper_trader.py:256-262, 282-286, 410-413).
THEOREM RiskIsBounded == Spec => []RiskBounded
<1>1. IInv => RiskBounded
  BY StepResult DEF RiskBounded, Open, Ends
<1> QED
  BY <1>1, Invariance, PTL

\* Tranches and partial closes never take a paper position above the cap, and a
\* tripped account holds nothing.
THEOREM PaperIsCapped == Spec => []PaperCapped
<1>1. IInv => PaperCapped
  BY DEF IInv, Placed, PaperCapped, Open
<1> QED
  BY <1>1, Invariance, PTL

-----------------------------------------------------------------------------
(* Strategy. *)

Typed ==
    /\ at = "filters" => asked \in Days
    /\ at = "sizing" /\ asked # Unasked => asked \in Accounts
    /\ at = "entry" /\ asked # Unasked => asked \in Looks

\* A question is asked with what it is decided on.
THEOREM QuestionsTyped == StrategySpec => []Typed
<1>1. StrategyInit => Typed
  BY DEF StrategyInit, Typed
<1>2. Typed /\ [StrategyNext]_strategyVars => Typed'
  BY DEF Typed, StrategyNext, Filter, Account, Size, Candle, Look, strategyVars
<1> QED
  BY <1>1, <1>2, PTL DEF StrategySpec

-----------------------------------------------------------------------------
(* Entry modes. *)

Within(c, price) == c.low <= price /\ price <= c.high

LEMMA BarsAre ==
    ASSUME NEW c \in Bars
    PROVE  /\ c.open \in Int /\ c.high \in Int /\ c.low \in Int /\ c.close \in Int
           /\ c.low <= c.open /\ c.open <= c.high /\ c.low <= c.close /\ c.close <= c.high
BY StrategyAssumption DEF Bars

\* The break of a range as wide as Bounds or wider is filled at its edge.
LEMMA BlindLimitIs ==
    ASSUME NEW c \in Bars, Low <= c.open, c.open <= High, NEW h \in Int, NEW l \in Int, h >= High, l <= Low,
           NEW s, s = BlindLimit(c, [high |-> h, low |-> l]), s # NoSignal
    PROVE  Within(c, s.price)
<1>1. Low \in Int /\ High \in Int
  BY StrategyAssumption
<1>2. \/ c.high >= h /\ s.price = h
      \/ c.low <= l /\ s.price = l
  BY DEF BlindLimit, Signal, NoSignal
<1> QED
  BY <1>1, <1>2, BarsAre DEF Within

\* The other modes ask for the candle's close.
LEMMA CloseModes ==
    ASSUME NEW c \in Bars, NEW above, NEW below, NEW dir, NEW s, s = Signal(above, dir, c.close, below, c.close),
           s # NoSignal
    PROVE  Within(c, s.price)
<1>1. s.price = c.close
  BY DEF Signal
<1> QED
  BY <1>1, BarsAre DEF Within

LEMMA LondonWithin ==
    ASSUME NEW mode \in LondonModes, NEW c \in Bars, Low <= c.open, c.open <= High, NEW atr \in {0, 10},
           NEW s, s = LondonEntry(mode, c, Bounds, atr), s # NoSignal
    PROVE  Within(c, s.price)
<1>0. Low \in Int /\ High \in Int
  BY StrategyAssumption
<1>1. CASE s = BlindLimit(c, Bounds)
  BY <1>0, <1>1, BlindLimitIs DEF Bounds
<1>2. CASE mode = "dynamic_buffer"
  <2>1. PICK b \in Nat : s = BlindLimit(c, [high |-> High + b, low |-> Low - b])
    <3>1. CASE atr = 0
      BY <1>2, <3>1 DEF LondonEntry, DynamicBuffer, Bounds
    <3>2. CASE atr = 10
      BY <1>2, <3>2 DEF LondonEntry, DynamicBuffer, Bounds
    <3> QED
      BY <3>1, <3>2
  <2>2. High + b \in Int /\ Low - b \in Int /\ High + b >= High /\ Low - b <= Low
    BY <1>0
  <2> QED
    BY <2>1, <2>2, BlindLimitIs
<1>3. CASE s = SweepConfirmation(c, Bounds) \/ s = MultiTimeframe(c, Bounds)
  BY <1>3, CloseModes DEF SweepConfirmation, MultiTimeframe
<1>4. \/ s = BlindLimit(c, Bounds) \/ mode = "dynamic_buffer"
      \/ s = SweepConfirmation(c, Bounds) \/ s = MultiTimeframe(c, Bounds)
  BY DEF LondonModes, LondonEntry, TimeWeighted, OrderFlowSpreadGate, HybridSweepTimeSpread
<1> QED
  BY <1>1, <1>2, <1>3, <1>4

LEMMA OmniWithin ==
    ASSUME NEW mode \in OmniModes, NEW c \in Bars, Low <= c.open, c.open <= High,
           NEW s, s = OmniEntry(mode, c, Bounds), s # NoSignal
    PROVE  Within(c, s.price)
<1>0. Low \in Int /\ High \in Int
  BY StrategyAssumption
<1>1. CASE s = StopOrderAtRange(c, Bounds)
  <2>1. \/ c.high >= High /\ s.price = High
        \/ c.low <= Low /\ s.price = Low
    BY <1>1 DEF StopOrderAtRange, Signal, NoSignal, Bounds
  <2> QED
    BY <1>0, <2>1, BarsAre DEF Within
<1>2. CASE \/ s = CloseConfirmation(c, Bounds) \/ s = RetestEntry(c, Bounds)
           \/ s = MomentumThreshold(c, Bounds) \/ s = DualTimeframe(c, Bounds)
  BY <1>2, CloseModes DEF CloseConfirmation, RetestEntry, MomentumThreshold, DualTimeframe
<1>3. \/ s = StopOrderAtRange(c, Bounds) \/ s = CloseConfirmation(c, Bounds)
      \/ s = RetestEntry(c, Bounds) \/ s = MomentumThreshold(c, Bounds) \/ s = DualTimeframe(c, Bounds)
  BY DEF OmniModes, OmniEntry, VolumeSpikeGate, HybridRetestVolumeSpread
<1> QED
  BY <1>1, <1>2, <1>3

\* Every entry mode of both engines enters a candle that opens inside the range at a
\* price it traded at.
THEOREM FillsAreReal == StrategySpec => []EnteredWhereTraded
<1>1. Typed => EnteredWhereTraded
  <2> SUFFICES ASSUME asked \in Looks, NEW c, c = asked.candle, NEW s, s = Entry(asked), s.dir # 0,
                      Low <= c.open, c.open <= High
               PROVE  Within(c, s.price)
    BY DEF Typed, EnteredWhereTraded, Within
  <2>1. c \in Bars /\ asked.mode \in LondonModes \cup OmniModes /\ asked.atr \in {0, 10}
    BY DEF Looks
  <2>2. s # NoSignal
    BY DEF NoSignal
  <2>3. CASE asked.mode \in LondonModes
    <3>1. s = LondonEntry(asked.mode, c, Bounds, asked.atr)
      BY <2>3 DEF Entry
    <3> QED
      BY <2>1, <2>2, <2>3, <3>1, LondonWithin
  <2>4. CASE asked.mode \notin LondonModes
    <3>1. s = OmniEntry(asked.mode, c, Bounds)
      BY <2>4 DEF Entry
    <3> QED
      BY <2>1, <2>2, <2>4, <3>1, OmniWithin
  <2> QED
    BY <2>3, <2>4
<1> QED
  BY <1>1, QuestionsTyped, PTL

-----------------------------------------------------------------------------
(* Filters. *)

\* The days the engines can see carry none of the signals.
LEMMA ContextsAre ==
    ASSUME NEW x \in Contexts
    PROVE  x.signals = {}
BY DEF Contexts

\* One filter: the copy in the backtester passes what the module's passes, but for the
\* news blackout and the two aliases, which it passes always.
LEMMA FilterCopies ==
    ASSUME NEW name \in Known, NEW x \in Contexts
    PROVE  Passes(Resolved(name), x) <=>
             /\ CheckFilter(name, x)
             /\ name = "news_blackout" => ~x.news
             /\ name = "spread_health_gate" => x.spread < 5
<1>0. x.signals = {}
  BY ContextsAre
<1>1. CASE name \in {"atr_gate", "orb_width_gate"}
  BY <1>1 DEF Resolved, Passes, CheckFilter, AtrGate, OrbWidthGate
<1>2. CASE name \in {"spread_gate", "day_of_week"}
  BY <1>2 DEF Resolved, Passes, CheckFilter, SpreadGate, DayOfWeek
<1>3. CASE name \in {"news_blackout", "london_session_result"}
  BY <1>3 DEF Resolved, Passes, CheckFilter, NewsBlackout
<1>4. CASE name \in {"vix_regime", "pre_session_momentum", "volatility_percentile", "pre_open_trend"}
  BY <1>0, <1>4 DEF Resolved, Passes, CheckFilter, VixRegime, PreSessionMomentum, VolatilityPercentile,
     PreOpenTrend
<1>5. CASE name \in Aliases
  BY <1>0, <1>5 DEF Aliases, Resolved, Passes, CheckFilter, VolatilityPercentile, SpreadGate
<1> QED
  BY <1>1, <1>2, <1>3, <1>4, <1>5 DEF Known, Filters

\* The two copies of the filters refuse the same days, whatever is combined, but for
\* the news dates and the alias of the spread gate.
THEOREM FiltersAgree == StrategySpec => []FilterCopiesAgree
<1>1. Typed => FilterCopiesAgree
  <2> SUFFICES ASSUME asked \in Days
               PROVE  ShouldTrade(asked.active, asked.day) <=>
                        /\ BacktestTrades(asked.active, asked.day)
                        /\ "news_blackout" \in asked.active => ~asked.day.news
                        /\ "spread_health_gate" \in asked.active => asked.day.spread < 5
    BY DEF Typed, FilterCopiesAgree
  <2>1. asked.active \subseteq Known /\ asked.day \in Contexts
    BY DEF Days
  <2>2. \A name \in asked.active : Passes(Resolved(name), asked.day) <=>
          /\ CheckFilter(name, asked.day)
          /\ name = "news_blackout" => ~asked.day.news
          /\ name = "spread_health_gate" => asked.day.spread < 5
    BY <2>1, FilterCopies
  <2> QED
    BY <2>2 DEF ShouldTrade, BacktestTrades
<1> QED
  BY <1>1, QuestionsTyped, PTL

-----------------------------------------------------------------------------
(* Sizes. *)

LEMMA HistoriesAre ==
    ASSUME NEW h \in Histories
    PROVE  /\ h.trades \in {0, 2, 20, 100} /\ h.wins \in Nat /\ h.losses \in Nat
           /\ h.win \in Nat \ {0} /\ h.loss \in Nat \ {0} /\ h.streak \in 0 .. 3
           /\ h.readings \in {0, 20} /\ h.above \in BOOLEAN
<1>1. h \in [trades : {0, 2, 20, 100}, wins : {0, 2, 10, 19}, losses : {0, 1, 10}, win : Results,
               loss : Results, streak : 0 .. 3, readings : {0, 20}, above : BOOLEAN]
  BY DEF Histories
<1>2. /\ h.trades \in {0, 2, 20, 100} /\ h.wins \in {0, 2, 10, 19} /\ h.losses \in {0, 1, 10}
      /\ h.win \in Results /\ h.loss \in Results /\ h.streak \in 0 .. 3
      /\ h.readings \in {0, 20} /\ h.above \in BOOLEAN
  BY <1>1
<1>3. h.wins \in Nat /\ h.losses \in Nat
  BY <1>2
<1> QED
  BY <1>2, <1>3, StrategyAssumption

LEMMA RiskCopies ==
    ASSUME NEW model \in RiskModels, NEW equity \in Nat, NEW h \in Histories, NEW atr \in Nat
    PROVE  RiskPct(model, equity, h, atr) = BacktestRiskPct(model, equity, h, atr)
<1>1. CASE model = "conservative_ramp"
  BY <1>1 DEF RiskPct, BacktestRiskPct, ConservativeRamp
<1>2. CASE model \in {"fixed_low", "aggressive_flat"}
  BY <1>2 DEF RiskPct, BacktestRiskPct
<1>3. CASE model = "kelly_criterion"
  <2>1. RiskPct(model, equity, h, atr) = Kelly(h) /\ BacktestRiskPct(model, equity, h, atr) = BacktestKelly(h)
    BY <1>3 DEF RiskPct, BacktestRiskPct
  <2>2. h.trades \in Int /\ h.wins \in Nat /\ h.losses \in Nat
    BY HistoriesAre
  <2> QED
    BY <2>1, <2>2 DEF Kelly, BacktestKelly
<1>4. CASE model = "anti_martingale"
  <2>1. /\ RiskPct(model, equity, h, atr) = AntiMartingale(h)
        /\ BacktestRiskPct(model, equity, h, atr) = BacktestAntiMartingale(h)
    BY <1>4 DEF RiskPct, BacktestRiskPct
  <2>2. h.trades \in Int /\ h.streak \in {0, 1, 2, 3}
    BY HistoriesAre
  <2> QED
    BY <2>1, <2>2 DEF AntiMartingale, BacktestAntiMartingale
<1>5. CASE model = "volatility_scaled"
  BY <1>5 DEF RiskPct, BacktestRiskPct, VolatilityScaled, BacktestVolatilityScaled
<1>6. CASE model = "equity_curve"
  <2>1. /\ RiskPct(model, equity, h, atr) = EquityCurve(h)
        /\ BacktestRiskPct(model, equity, h, atr) = BacktestEquityCurve(h)
    BY <1>6 DEF RiskPct, BacktestRiskPct
  <2>2. h.readings \in {0, 20} /\ h.above \in BOOLEAN
    BY HistoriesAre
  <2> QED
    BY <2>1, <2>2 DEF EquityCurve, BacktestEquityCurve
<1> QED
  BY <1>1, <1>2, <1>3, <1>4, <1>5, <1>6 DEF RiskModels

LEMMA StopCopies ==
    ASSUME NEW x \in ExitModels
    PROVE  InitialStop(x) = BacktestStop(x, Atr)
BY DEF ExitModels, InitialStop, BacktestStop

\* The two copies of the risk models stake the same on every account and history, and
\* the two copies of the exits give every trade the same stop.
THEOREM SizesAgree == StrategySpec => []SizingCopiesAgree
<1>1. Typed => SizingCopiesAgree
  <2> SUFFICES ASSUME asked \in Accounts
               PROVE  /\ RiskPct(asked.model, asked.equity, asked.history, asked.atr) = Stake(asked)
                      /\ InitialStop(asked.exit) = BacktestStop(asked.exit, Atr)
    BY DEF Typed, SizingCopiesAgree
  <2>1. /\ asked.model \in RiskModels /\ asked.exit \in ExitModels /\ asked.equity \in Nat
        /\ asked.history \in Histories /\ asked.atr \in Nat
    BY StrategyAssumption DEF Accounts
  <2> QED
    BY <2>1, RiskCopies, StopCopies DEF Stake
<1> QED
  BY <1>1, QuestionsTyped, PTL

LEMMA ClampedIs ==
    ASSUME NEW x \in Int
    PROVE  Clamped(x) \in 100 .. 1000
BY DEF Clamped

LEMMA HalfKellyIs ==
    ASSUME NEW h \in Histories, h.trades >= 20
    PROVE  HalfKelly(h) \in Int
<1> DEFINE num == 50000 * (h.wins * h.win - (h.trades - h.wins) * h.loss)
           den == h.trades * h.win
<1>1. /\ h.trades \in Nat /\ h.trades >= 20 /\ h.wins \in Nat
      /\ h.win \in Nat /\ h.win >= 1 /\ h.loss \in Nat
  BY HistoriesAre
<1>2. num \in Int
  BY <1>1
<1>3. \A a \in Nat, b \in Nat : a >= 20 /\ b >= 1 => a * b \in Int /\ a * b >= 1
  OBVIOUS
<1>4. den \in Int /\ den >= 1
  BY <1>1, <1>3
<1>5. HalfKelly(h) = num \div den
  BY DEF HalfKelly
<1> HIDE DEF num, den
<1> QED
  BY <1>2, <1>4, <1>5

\* Nothing stakes more than 1 %.
LEMMA StakeIs ==
    ASSUME NEW model \in RiskModels, NEW equity \in Nat, NEW h \in Histories, NEW atr \in Nat
    PROVE  BacktestRiskPct(model, equity, h, atr) \in 0 .. 1000
<1>1. CASE model = "conservative_ramp"
  BY <1>1 DEF BacktestRiskPct
<1>2. CASE model \in {"fixed_low", "aggressive_flat"}
  BY <1>2 DEF BacktestRiskPct
<1>3. CASE model = "kelly_criterion"
  <2>1. BacktestRiskPct(model, equity, h, atr) = BacktestKelly(h)
    BY <1>3 DEF BacktestRiskPct
  <2>2. CASE h.trades >= 20 /\ h.wins > 0 /\ h.losses > 0
    <3>1. BacktestKelly(h) = Clamped(HalfKelly(h))
      BY <2>2 DEF BacktestKelly
    <3>2. Clamped(HalfKelly(h)) \in 100 .. 1000
      BY <2>2, HalfKellyIs, ClampedIs
    <3> QED
      BY <2>1, <3>1, <3>2
  <2>3. CASE ~(h.trades >= 20 /\ h.wins > 0 /\ h.losses > 0)
    BY <2>1, <2>3 DEF BacktestKelly
  <2> QED
    BY <2>2, <2>3
<1>4. CASE model = "anti_martingale"
  <2>1. BacktestRiskPct(model, equity, h, atr) = BacktestAntiMartingale(h)
    BY <1>4 DEF BacktestRiskPct
  <2>2. h.trades \in Int /\ h.streak \in {0, 1, 2, 3}
    BY HistoriesAre
  <2> QED
    BY <2>1, <2>2 DEF BacktestAntiMartingale
<1>5. CASE model = "volatility_scaled"
  <2>1. BacktestRiskPct(model, equity, h, atr) = BacktestVolatilityScaled(atr)
    BY <1>5 DEF BacktestRiskPct
  <2>2. CASE atr = 0
    BY <2>1, <2>2 DEF BacktestVolatilityScaled
  <2>3. CASE atr # 0
    <3>1. BacktestRiskPct(model, equity, h, atr) = Clamped(25000 \div atr)
      BY <2>1, <2>3 DEF BacktestVolatilityScaled
    <3>2. 25000 \div atr \in Int
      BY <2>3
    <3>3. Clamped(25000 \div atr) \in 100 .. 1000
      BY <3>2, ClampedIs
    <3> QED
      BY <3>1, <3>3
  <2> QED
    BY <2>2, <2>3
<1>6. CASE model = "equity_curve"
  BY <1>6 DEF BacktestRiskPct, BacktestEquityCurve
<1> QED
  BY <1>1, <1>2, <1>3, <1>4, <1>5, <1>6 DEF RiskModels

LEMMA Quotient ==
    ASSUME NEW a \in Int, NEW b \in Int, b > 0, NEW q, q = a \div b
    PROVE  q \in Int /\ b * q <= a
OBVIOUS

\* What a stop costs on lots sized for a distance no shorter than it.
LEMMA RiskedLotsAre ==
    ASSUME NEW equity \in Nat, NEW pct \in 0 .. 1000, NEW stop \in Int, stop >= 1,
           NEW q, q = RiskedLots(equity, pct, stop)
    PROVE  q \in Int /\ (2 * q - 1) * stop <= 2 * equity
<1> DEFINE a == 2 * equity * pct + 1000 * stop
           b == 2000 * stop
<1>1. a \in Int /\ b \in Int /\ b > 0
  OBVIOUS
<1>2. q = a \div b
  BY DEF RiskedLots
<1>3. q \in Int /\ b * q <= a
  <2> HIDE DEF a, b
  <2> QED
    BY <1>1, <1>2, Quotient
<1>4. equity * pct <= equity * 1000
  OBVIOUS
<1> QED
  BY <1>3, <1>4

LEMMA LotsBounded ==
    ASSUME NEW equity \in Nat, NEW q \in Int, NEW stop \in Int, stop >= 1,
           (2 * q - 1) * stop <= 2 * equity,
           NEW percent \in {1, 3}, NEW given \in Int, 0 <= given, given <= percent * stop,
           NEW lots \in Int, lots = 1 \/ (1 <= lots /\ lots <= q)
    PROVE  lots = 1 \/ 2 * lots * given <= 2 * percent * equity + given
<1>1. CASE 1 <= lots /\ lots <= q
  <2>1. 2 * lots - 1 \in Nat /\ 2 * q - 1 \in Nat /\ 2 * lots - 1 <= 2 * q - 1
    BY <1>1
  <2>2. \A x \in Nat, y \in Nat, u \in Nat, v \in Nat : x <= y /\ u <= v => x * u <= y * v
    <3> TAKE x \in Nat, y \in Nat, u \in Nat, v \in Nat
    <3> HAVE x <= y /\ u <= v
    <3>1. x * u <= y * u
      OBVIOUS
    <3>2. y * u <= y * v
      OBVIOUS
    <3> QED
      BY <3>1, <3>2
  <2>3. given \in Nat /\ percent * stop \in Nat
    OBVIOUS
  <2>4. (2 * lots - 1) * given <= (2 * q - 1) * (percent * stop)
    BY <2>1, <2>2, <2>3
  <2>5. (2 * q - 1) * (percent * stop) <= 2 * percent * equity
    <3>1. CASE percent = 1
      BY <3>1
    <3>2. CASE percent = 3
      BY <3>2
    <3> QED
      BY <3>1, <3>2
  <2> QED
    BY <2>4, <2>5
<1> QED
  BY <1>1

\* No stop is farther than the distance a trade is sized for, but for the undersized
\* trades, whose stop is at most three times as far.
LEMMA StopsAre ==
    ASSUME NEW engine \in Engines, NEW x \in ExitModels, NEW atr \in Nat,
           engine = "london" \/ atr <= 75
    PROVE  /\ SizingStop(engine, x, atr) \in Int /\ SizingStop(engine, x, atr) >= 1
           /\ StopGiven(engine, x, atr) \in Int /\ 0 <= StopGiven(engine, x, atr)
           /\ StopGiven(engine, x, atr) <= 3 * SizingStop(engine, x, atr)
           /\ \/ StopGiven(engine, x, atr) <= SizingStop(engine, x, atr)
              \/ engine # "london" /\ x = "chandelier" /\ 3 * Held(atr) > 75
              \/ engine = "london" /\ x \in {"atr_dynamic_trail", "chandelier"} /\ atr = 0
<1>1. CASE x = "atr_dynamic_trail"
  <2>1. SizingStop(engine, x, atr) = IF atr # 0 THEN (3 * atr) \div 2
                                     ELSE IF engine # "london" THEN 75 ELSE 40
    BY <1>1 DEF SizingStop
  <2>2. StopGiven(engine, x, atr) = -BacktestStop(x, Held(atr))
        /\ BacktestStop(x, Held(atr)) = -((3 * Held(atr)) \div 2)
    BY <1>1 DEF StopGiven, BacktestStop
  <2>3. CASE atr = 0
    <3>1. Held(atr) = 40 /\ (3 * 40) \div 2 = 60
      BY <2>3 DEF Held
    <3> QED
      BY <1>1, <2>1, <2>2, <2>3, <3>1
  <2>4. CASE atr # 0
    <3>1. Held(atr) = atr
      BY <2>4 DEF Held
    <3>2. (3 * atr) \div 2 \in Int /\ (3 * atr) \div 2 >= 1
      BY <2>4
    <3> QED
      BY <2>1, <2>2, <2>4, <3>1, <3>2
  <2> QED
    BY <2>3, <2>4
<1>2. CASE x = "chandelier"
  <2>1. StopGiven(engine, x, atr) = 3 * Held(atr)
    BY <1>2 DEF StopGiven, BacktestStop, Held
  <2>2. SizingStop(engine, x, atr) = IF engine # "london" THEN 75
                                     ELSE IF atr # 0 THEN 3 * atr ELSE 40
    BY <1>2 DEF SizingStop
  <2>3. Held(atr) = IF atr = 0 THEN 40 ELSE atr
    BY DEF Held
  <2> QED
    BY <1>2, <2>1, <2>2, <2>3
<1>3. CASE x = "fixed_sl_tp"
  <2>1. StopGiven(engine, x, atr) = IF engine = "london" THEN 40 ELSE 75
    BY <1>3 DEF StopGiven
  <2>2. SizingStop(engine, x, atr) = IF engine = "london" THEN 40 ELSE 75
    BY <1>3 DEF SizingStop, Engines
  <2> QED
    BY <2>1, <2>2
<1>4. CASE x \in {"fixed_sl_trail", "breakeven_runner", "multi_target_cascade", "time_based"}
  <2>1. /\ StopGiven(engine, x, atr) = -BacktestStop(x, Held(atr))
        /\ BacktestStop(x, Held(atr)) \in {-30, -40}
    BY <1>4 DEF StopGiven, BacktestStop
  <2>2. SizingStop(engine, x, atr) = IF engine = "london" THEN 40 ELSE 75
    BY <1>4 DEF SizingStop, Engines
  <2> QED
    BY <2>1, <2>2
<1> QED
  BY <1>1, <1>2, <1>3, <1>4 DEF ExitModels

\* On its initial stop a trade of a simulator, and one the module's sizer sizes for the
\* same distance, loses no more than 1 % of any account whatever the ATR, or without
\* one, and an undersized trade no more than 3 %, but for rounding and the 0.01 minimum.
THEOREM LossIsBounded == StrategySpec => []LossWithinPercent
<1>1. Typed => LossWithinPercent
  <2> SUFFICES ASSUME asked \in Accounts, asked.engine = "london" \/ asked.atr <= 75,
                      NEW lots \in {ComputeLots(asked.equity, Stake(asked), SizedFor(asked)),
                                    SimulatedLots(asked)}
               PROVE  \/ lots = 1
                      \/ 2 * lots * StopGiven(asked.engine, asked.exit, asked.atr)
                           <= 2 * (IF Undersized(asked) THEN 3 ELSE 1) * asked.equity
                                + StopGiven(asked.engine, asked.exit, asked.atr)
    BY DEF Typed, LossWithinPercent
  <2> DEFINE equity == asked.equity
             pct == Stake(asked)
             stop == SizedFor(asked)
             given == StopGiven(asked.engine, asked.exit, asked.atr)
             percent == IF Undersized(asked) THEN 3 ELSE 1
             q == RiskedLots(equity, pct, stop)
  <2>1. /\ asked.model \in RiskModels /\ asked.exit \in ExitModels /\ equity \in Nat
        /\ asked.history \in Histories /\ asked.engine \in Engines /\ asked.atr \in Nat
    BY StrategyAssumption DEF Accounts
  <2>2. pct \in 0 .. 1000
    BY <2>1, StakeIs DEF Stake
  <2>3. /\ stop \in Int /\ stop >= 1 /\ given \in Int /\ 0 <= given
        /\ percent \in {1, 3} /\ given <= percent * stop
    BY <2>1, StopsAre DEF SizedFor, Undersized
  <2>4. lots \in {ComputeLots(equity, pct, stop), BacktestLots(equity, pct, stop)}
    BY DEF SimulatedLots
  <2> HIDE DEF equity, pct, stop, given, percent
  <2>5. q \in Int /\ (2 * q - 1) * stop <= 2 * equity
    BY <2>1, <2>2, <2>3, RiskedLotsAre
  <2>6. lots \in Int /\ (lots = 1 \/ (1 <= lots /\ lots <= q))
    <3> HIDE DEF q
    <3>1. /\ ComputeLots(equity, pct, stop) \in {Higher(q, 1), 5000}
          /\ ComputeLots(equity, pct, stop) <= Higher(q, 1)
          /\ BacktestLots(equity, pct, stop) = Higher(q, 1)
      BY <2>3, <2>5 DEF ComputeLots, BacktestLots, Higher, q
    <3> QED
      BY <2>4, <2>5, <3>1 DEF Higher
  <2> HIDE DEF q
  <2>7. lots = 1 \/ 2 * lots * given <= 2 * percent * equity + given
    BY <2>1, <2>3, <2>5, <2>6, LotsBounded
  <2> QED
    BY <2>7 DEF given, equity, percent
<1> QED
  BY <1>1, QuestionsTyped, PTL
-----------------------------------------------------------------------------
(* The tournament. *)

\* What the worker of a task answers, and what some tasks answer together.
ResultOf(t) == [id |-> ProfileId(t[1]), window |-> t[2], metrics |-> metrics[t]]
Answers(tasks) == {ResultOf(t) : t \in {u \in tasks : Answered(u[1], u[2])}}
Tasks == screened \X Windows

\* What has arrived is what the tasks not open any more have answered.
JoinInv ==
    /\ screened \subseteq Generated /\ open \subseteq Tasks
    /\ results \in Seq([id : Ids, window : Windows, metrics : Metrics \cup {Failed}])
    /\ metrics \in [Tasks -> Metrics \cup {Failed}]
    /\ ToSet(results) = Answers(Tasks \ open)

\* The id tells two profiles apart, and the export makes the profile out of it.
LEMMA IdIsFaithful ==
    ASSUME NEW p \in Generated
    PROVE  ProfileId(p) \in Ids /\ Exported(ProfileId(p)) = p
<1>1. p = [setup |-> p.setup, filters |-> p.filters, instrument |-> p.instrument]
  BY DEF Generated
<1>2. p.filters # {"none"}
  BY TournamentAssumption DEF Generated
<1>3. /\ ProfileId(p)[1] = p.setup /\ ProfileId(p)[3] = p.instrument
      /\ ProfileId(p)[2] = IF p.filters = {} THEN {"none"} ELSE p.filters
  BY DEF ProfileId
<1>4. (IF ProfileId(p)[2] = {"none"} THEN {} ELSE ProfileId(p)[2]) = p.filters
  BY <1>2, <1>3
<1> QED
  BY <1>1, <1>3, <1>4 DEF Ids, Exported

\* A result added at the end is one more in the set.
LEMMA OneMore ==
    ASSUME NEW S, NEW s \in Seq(S), NEW x \in S
    PROVE  Append(s, x) \in Seq(S) /\ ToSet(Append(s, x)) = ToSet(s) \cup {x}
<1>1. /\ Append(s, x) \in Seq(S) /\ Len(s) \in Nat /\ DOMAIN s = 1 .. Len(s)
      /\ DOMAIN Append(s, x) = 1 .. Len(s) + 1
      /\ \A i \in 1 .. Len(s) : Append(s, x)[i] = s[i]
      /\ Append(s, x)[Len(s) + 1] = x
  OBVIOUS
<1>2. 1 .. Len(s) + 1 = (1 .. Len(s)) \cup {Len(s) + 1}
  BY <1>1
<1> QED
  BY <1>1, <1>2 DEF ToSet

\* A tournament that starts has collected nothing.
LEMMA JoinStart == TournamentInit => JoinInv
<1> SUFFICES ASSUME TournamentInit PROVE JoinInv
  OBVIOUS
<1>1. /\ screened \subseteq Generated /\ open = Tasks
      /\ metrics \in [Tasks -> Metrics \cup {Failed}] /\ results = <<>>
  BY DEF TournamentInit, Screenings, Tasks
<1>2. Answers(Tasks \ open) = {} /\ ToSet(<<>>) = {}
  BY <1>1 DEF Answers, ToSet
<1>3. results \in Seq([id : Ids, window : Windows, metrics : Metrics \cup {Failed}])
  BY <1>1
<1> QED
  BY <1>1, <1>2, <1>3 DEF JoinInv

\* A result that is collected is the answer of the task that is closed.
LEMMA JoinStep == JoinInv /\ [TournamentNext]_tournamentVars => JoinInv'
<1> SUFFICES ASSUME JoinInv, [TournamentNext]_tournamentVars PROVE JoinInv'
  OBVIOUS
<1>1. ASSUME NEW t \in open, Collect(t[1], t[2]) PROVE JoinInv'
  <2>1. PICK p \in screened, w \in Windows : t = <<p, w>>
    BY DEF JoinInv, Tasks
  <2>2. /\ UNCHANGED <<screened, metrics, shortest>> /\ open' = open \ {t}
        /\ results' = IF Answered(p, w) THEN Append(results, ResultOf(t)) ELSE results
    BY <1>1, <2>1 DEF Collect, ResultOf
  <2>3. Tasks' = Tasks /\ t \in Tasks /\ open' \subseteq Tasks
    BY <2>1, <2>2 DEF JoinInv, Tasks
  <2>4. ResultOf(t) \in [id : Ids, window : Windows, metrics : Metrics \cup {Failed}]
    <3>1. ProfileId(p) \in Ids
      BY IdIsFaithful DEF JoinInv
    <3>2. metrics[t] \in Metrics \cup {Failed}
      BY <2>3 DEF JoinInv
    <3> QED
      BY <2>1, <3>1, <3>2 DEF ResultOf
  <2>5. Answers(Tasks \ open') = Answers(Tasks \ open) \cup
          (IF Answered(p, w) THEN {ResultOf(t)} ELSE {})
    <3>1. Tasks \ open' = (Tasks \ open) \cup {t}
      BY <2>2, <2>3
    <3> QED
      BY <2>1, <3>1 DEF Answers
  <2>6. /\ results' \in Seq([id : Ids, window : Windows, metrics : Metrics \cup {Failed}])
        /\ ToSet(results') = Answers(Tasks \ open')
    <3> DEFINE Outcomes == [id : Ids, window : Windows, metrics : Metrics \cup {Failed}]
    <3>1. results \in Seq(Outcomes) /\ ResultOf(t) \in Outcomes
      BY <2>4 DEF JoinInv
    <3> HIDE DEF Outcomes
    <3>2. /\ Append(results, ResultOf(t)) \in Seq(Outcomes)
          /\ ToSet(Append(results, ResultOf(t))) = ToSet(results) \cup {ResultOf(t)}
      BY <3>1, OneMore
    <3>3. results' \in Seq(Outcomes)
      BY <2>2, <3>1, <3>2
    <3>4. ToSet(results') = ToSet(results) \cup (IF Answered(p, w) THEN {ResultOf(t)} ELSE {})
      BY <2>2, <3>2
    <3> QED
      BY <2>5, <3>3, <3>4 DEF Outcomes, JoinInv
  <2>7. Answers(Tasks \ open)' = Answers(Tasks \ open')
    BY <2>2, <2>3 DEF Answers, ResultOf, Answered
  <2> QED
    BY <2>2, <2>3, <2>6, <2>7 DEF JoinInv
<1>2. ASSUME UNCHANGED <<screened, shortest, metrics, open, results>> PROVE JoinInv'
  BY <1>2 DEF JoinInv, Answers, ResultOf, Answered, Tasks
<1> QED
  BY <1>1, <1>2 DEF TournamentNext, Evaluate, Clear, Write, Finish, Abort, tournamentVars

\* A profile is joined from its own backtests, and from all of them.
LEMMA JoinIsGood == JoinInv => QualifiedAreGood
<1> SUFFICES ASSUME JoinInv, open = {} PROVE Qualified = GoodIds
  BY DEF QualifiedAreGood
<1>1. ASSUME NEW p \in screened, NEW r \in Joined(ProfileId(p))
      PROVE  /\ r.window \in Windows /\ Answered(p, r.window)
             /\ r.metrics = metrics[<<p, r.window>>]
  <2>1. r \in Answers(Tasks) /\ r.id = ProfileId(p)
    BY DEF Joined, JoinInv
  <2>2. PICK q \in screened, w \in Windows : r = ResultOf(<<q, w>>) /\ Answered(q, w)
    BY <2>1 DEF Answers, Tasks
  <2>3. r.id = ProfileId(q) /\ r.window = w /\ r.metrics = metrics[<<q, w>>]
    BY <2>2 DEF ResultOf
  <2>4. q = p
    BY <2>1, <2>3, IdIsFaithful DEF JoinInv
  <2> QED
    BY <2>2, <2>3, <2>4
<1>2. ASSUME NEW p \in screened, NEW w \in Windows, Answered(p, w)
      PROVE  \E r \in Joined(ProfileId(p)) : r.window = w /\ r.metrics = metrics[<<p, w>>]
  <2>1. ResultOf(<<p, w>>) \in ToSet(results)
    <3>1. <<p, w>> \in Tasks \ open
      BY DEF Tasks
    <3> QED
      BY <1>2, <3>1 DEF JoinInv, Answers
  <2>2. /\ ResultOf(<<p, w>>).id = ProfileId(p) /\ ResultOf(<<p, w>>).window = w
        /\ ResultOf(<<p, w>>).metrics = metrics[<<p, w>>]
    BY DEF ResultOf
  <2> QED
    BY <2>1, <2>2 DEF Joined
<1>3. ASSUME NEW p \in screened
      PROVE  ProfileId(p) \in Qualified <=> Good(p)
  <2>1. ProfileId(p) \in Ids
    BY IdIsFaithful DEF JoinInv
  <2>2. ASSUME ProfileId(p) \in Qualified PROVE Good(p)
    BY <1>1, <2>2 DEF Qualified, Complete, Good, Answered
  <2>3. ASSUME Good(p) PROVE ProfileId(p) \in Qualified
    <3>1. \A w \in Windows : Answered(p, w) /\ Safe(metrics[<<p, w>>])
      BY <2>3 DEF Good, Answered
    <3> QED
      BY <1>1, <1>2, <2>1, <3>1 DEF Qualified, Complete
  <2> QED
    BY <2>2, <2>3
<1>4. ASSUME NEW id \in Qualified PROVE \E p \in screened : id = ProfileId(p)
  <2>1. PICK r : r \in Joined(id)
    BY TournamentAssumption DEF Qualified, Complete
  <2>2. r \in Answers(Tasks) /\ r.id = id
    BY <2>1 DEF Joined, JoinInv
  <2> QED
    BY <2>2 DEF Answers, Tasks, ResultOf
<1> QED
  BY <1>3, <1>4 DEF GoodIds

\* Whatever the order of the answers, the windows without candles and the backtests that
\* fail, the profiles ranked are the screened ones that are good over every window
\* (tournament.py:353-383, 523-543).
THEOREM RanksTheGood == TournamentSpec => []QualifiedAreGood
BY JoinStart, JoinStep, JoinIsGood, PTL DEF TournamentSpec
=============================================================================
