---------------------------- MODULE LondonProofs ----------------------------
(***************************************************************************)
(* Proofs about LondonEngine, for any prices, days, trades and restarts.    *)
(*                                                                          *)
(* Days (DayInv): one trade a day.  The range is always of a day that has   *)
(* come and the last trade of a day whose range was known, so that a new    *)
(* range, which sets the count back, is of a later day than the trade.      *)
(*                                                                          *)
(* The book (BookInv): an entry meets no position, and a pair no order, of  *)
(* which the last answered read did not tell.  Until five seconds have      *)
(* passed, what a cache was answered holds unless an entry went out since,  *)
(* and then order_pending_until is in the future (NoPosition, NoOrder); the *)
(* entry goes by that cache and asks for order_pending_until (GoesBy).      *)
(***************************************************************************)
EXTENDS LondonEngine, FiniteSetTheorems, WellFoundedInduction, TLAPS

-----------------------------------------------------------------------------
(* Days. *)

DaysTyped ==
    /\ day \in Nat \ {0} /\ tradesToday \in {0, 1}
    /\ orbDay \in Nat /\ tradedDay \in Nat /\ today \in Nat

\* The range is of a day that has come, the trade of a day whose range was known.
DaysInOrder == tradedDay <= orbDay /\ orbDay <= day

\* A trade seen under the present range is counted.
TradeCounts == tradedDay # 0 /\ tradedDay = orbDay => tradesToday = 1

\* An iteration that enters has the range of its day and no trade.
EntersUncounted == pc \in {"place", "place2"} => orbDay = today /\ tradesToday = 0

DayInv == DaysTyped /\ DaysInOrder /\ TradeCounts /\ EntersUncounted

\* No range is of a day to come.
LEMMA DayStart == Init => DayInv
BY BrokerAssumption
   DEF Init, BrokerInit, DayInv, DaysTyped, DaysInOrder, TradeCounts, EntersUncounted

\* Every step keeps the days in order and the trade counted.
LEMMA DayStep == DayInv /\ [Next]_vars => DayInv'
<1> SUFFICES ASSUME DayInv, [Next]_vars PROVE DayInv'
  OBVIOUS
<1> USE DEF DayInv, DaysTyped, DaysInOrder, TradeCounts, EntersUncounted, brokerVars, Goto, Again
<1>1. CASE Top
  <2>1. CASE LocksRange /\ orbDay' = day /\ tradesToday' = 0 /\ halted' = FALSE
    BY <1>1, <2>1 DEF Top, LocksRange
  <2>2. CASE UNCHANGED <<orbDay, tradesToday, halted>>
    BY <1>1, <2>2 DEF Top
  <2> QED
    BY <1>1, <2>1, <2>2 DEF Top
<1>2. CASE Flatten \/ Sweep \/ QuoteFails \/ Read \/ Tick
  <2>1. /\ UNCHANGED <<day, tradesToday, orbDay, tradedDay>>
        /\ pc' \notin {"place", "place2"} /\ today' \in {today, 0}
    BY <1>2 DEF Flatten, Sweep, QuoteFails, Read, Tick
  <2> QED
    BY <2>1
<1>3. CASE NoEntry
  BY <1>3 DEF NoEntry, Finish
<1>4. CASE AskOrders
  BY <1>4 DEF AskOrders, MayTrade
<1>5. CASE PlaceHigh \/ PlaceLow
  BY <1>5 DEF PlaceHigh, PlaceLow
<1>6. CASE EnterMarket
  BY <1>6 DEF EnterMarket, Finish
<1>7. CASE Oco
  BY <1>7 DEF Oco
<1>8. CASE Restart
  BY <1>8 DEF Restart, EngineStart
<1>9. CASE Broker
  <2>1. CASE Move \/ CloseOut
    BY <1>9, <2>1 DEF Broker, engineVars, Move, CloseOut
  <2>2. CASE Later
    BY <1>9, <2>2 DEF Broker, engineVars, Later
  <2> QED
    BY <1>9, <2>1, <2>2 DEF Broker
<1>10. CASE UNCHANGED vars
  BY <1>10 DEF vars, engineVars
<1> QED
  BY <1>1, <1>2, <1>3, <1>4, <1>5, <1>6, <1>7, <1>8, <1>9, <1>10 DEF Next, Engine

\* Once an iteration has seen a position under the range of the day, the process enters
\* nothing more that day, for any number of days, restarts and trades
\* (london_reversal_engine_live.py:509, 569, 585).
THEOREM TradesOnceADay == Spec => TradedDayIsOver
<1>1. DayInv /\ [Next]_vars => [((PlaceHigh \/ PlaceLow \/ EnterMarket) /\ today # 0)
         => tradedDay # today]_vars
  BY DEF DayInv, TradeCounts, EntersUncounted, PlaceHigh, PlaceLow, EnterMarket
<1> QED
  BY <1>1, DayStart, DayStep, PTL DEF Spec, TradedDayIsOver

-----------------------------------------------------------------------------
(* The book. *)

\* Shapes; with market entries the positions can be told apart and counted.
Recorded ==
    /\ orders = [o \in DOMAIN orders |-> orders[o]]
    /\ DOMAIN asked = Caches /\ DOMAIN cache = {"side", "orders"}
    /\ mode = "market" =>
         /\ trades \in Nat /\ IsFiniteSet(positions)
         /\ \A p \in Own : p.id \in Nat /\ p.side \in Sides

\* What the entry goes by.
GoesBy ==
    /\ pc \in {"orders", "place"} => side = cache.side
    /\ pc = "place" => side = 0 /\ ~pending /\ cache.orders = {}
    /\ pc = "place2" => mode = "limit"

\* What a cache that was answered, with no entry since, says of the book.
NoPosition ==
    mode = "market" =>
      /\ orders = EmptyBag
      /\ asked["positions"] = "answered" /\ cache.side = 0 /\ ~pending => Own = {}
\* The same of the orders, but between the two of a pair.
NoOrder ==
    asked["orders"] = "answered" /\ cache.orders = {} /\ ~pending /\ pc # "place2"
      => orders = EmptyBag

BookInv == Recorded /\ GoesBy /\ NoPosition /\ NoOrder

-----------------------------------------------------------------------------
(* Operators and steps of the broker. *)

\* A process that starts has asked nothing and rests nothing.
LEMMA BookStart == Init => BookInv
<1> SUFFICES ASSUME Init PROVE BookInv
  OBVIOUS
<1>1. positions = {} /\ Own = {} /\ orders = EmptyBag /\ trades = 0 /\ IsFiniteSet(positions)
  BY FS_EmptySet DEF Init, BrokerInit, Own
<1>2. orders = [o \in DOMAIN orders |-> orders[o]]
  BY <1>1 DEF EmptyBag, SetToBag
<1> QED
  BY <1>1, <1>2 DEF Init, BookInv, Recorded, GoesBy, NoPosition, NoOrder, Caches, NoCache, Unasked

\* Orders that are canceled leave a bag, and an empty one stays empty.
LEMMA Canceled ==
    ASSUME NEW gone, CancelSome(gone)
    PROVE  /\ orders' = [o \in DOMAIN orders' |-> orders'[o]]
           /\ orders = EmptyBag => orders' = EmptyBag
<1>1. orders' = [o \in Resting \ gone |-> orders[o]]
  BY DEF CancelSome, Restrict
<1>2. ASSUME orders = EmptyBag PROVE orders' = EmptyBag
  <2>1. Resting = {} /\ Resting \ gone = {}
    BY <1>2 DEF Resting, BagToSet, EmptyBag, SetToBag
  <2>2. orders' = [o \in {} |-> orders[o]]
    BY <1>1, <2>1
  <2> QED
    BY <2>2 DEF EmptyBag, SetToBag
<1> QED
  BY <1>1, <1>2

\* A bag of which nothing is in it is the empty one.
LEMMA RestsNothing ==
    ASSUME Resting = {}, Recorded
    PROVE  orders = EmptyBag
BY DEF Resting, BagToSet, EmptyBag, SetToBag, Recorded

\* An order more is a bag again.
LEMMA Placed ==
    ASSUME NEW o, Recorded, PlaceLimit(o)
    PROVE  orders' = [x \in DOMAIN orders' |-> orders'[x]]
<1>1. CASE orders' = orders
  BY <1>1 DEF Recorded
<1>2. CASE orders' = orders (+) SetToBag({o})
  BY <1>2 DEF (+)
<1> QED
  BY <1>1, <1>2 DEF PlaceLimit

\* Positions are only opened by orders that rest.
LEMMA Moved ==
    ASSUME Move
    PROVE  /\ orders' = [o \in DOMAIN orders' |-> orders'[o]]
           /\ orders = EmptyBag => orders' = EmptyBag
           /\ orders = EmptyBag /\ trades \in Nat => positions' \subseteq positions /\ trades' = trades
<1> DEFINE reached(p) == {o \in Resting : Reached(o, p)}
<1>1. PICK p \in {price - 1, price + 1} \cap Levels, n \in 0 .. MaxTrades - trades :
        \E fills \in [1 .. n -> reached(p)] :
           /\ positions' = {x \in positions : ~Stopped(x, p)} \cup Opened(fills)
           /\ CancelSome(reached(p))
           /\ trades' = trades + n
  BY Zenon DEF Move
<1>2. PICK fills \in [1 .. n -> reached(p)] :
           /\ positions' = {x \in positions : ~Stopped(x, p)} \cup Opened(fills)
           /\ CancelSome(reached(p))
           /\ trades' = trades + n
  BY <1>1
<1>3. ASSUME orders = EmptyBag, trades \in Nat
      PROVE  positions' \subseteq positions /\ trades' = trades
  <2>1. reached(p) = {}
    BY <1>3 DEF Resting, BagToSet, EmptyBag, SetToBag
  <2>2. n \in Nat
    BY <1>3, BrokerAssumption
  <2>3. n = 0
    <3> SUFFICES ASSUME n # 0 PROVE FALSE
      OBVIOUS
    <3>1. 1 \in 1 .. n
      BY <2>2
    <3> QED
      BY <2>1, <3>1
  <2>4. Opened(fills) = {}
    BY <2>3 DEF Opened
  <2> QED
    BY <1>2, <1>3, <2>3, <2>4
<1> QED
  BY <1>2, <1>3, Canceled

\* The position listed first is one of them.
LEMMA OldestIs ==
    ASSUME \A p \in Own : p.id \in Nat, Own # {}
    PROVE  Oldest(Own) \in Own
<1> DEFINE ids == {p.id : p \in Own}
<1>1. ids \subseteq Nat /\ ids # {}
  OBVIOUS
<1>2. PICK least \in ids : \A i \in ids : least <= i
  <2> HIDE DEF ids
  <2>1. PICK least \in ids : \A i \in ids : <<i, least>> \notin OpToRel(<, Nat)
    BY <1>1, WFMin, NatLessThanWellFounded, Zenon
  <2>2. ASSUME NEW i \in ids PROVE ~(i < least)
    <3>1. i \in Nat /\ least \in Nat
      BY <1>1
    <3>2. <<i, least>> \in Nat \X Nat
      BY <3>1
    <3>3. <<i, least>>[1] = i /\ <<i, least>>[2] = least
      OBVIOUS
    <3> QED
      BY <2>1, <3>2, <3>3, Zenon DEF OpToRel
  <2> QED
    BY <1>1, <2>2
<1>3. PICK p \in Own : p.id = least
  BY <1>2
<1>4. \A q \in Own : p.id <= q.id
  BY <1>2, <1>3
<1> QED
  BY <1>4 DEF Oldest

\* A book that has a position of the engine is read as having one.
LEMMA ReadsOwn ==
    ASSUME \A p \in Own : p.id \in Nat /\ p.side \in Sides, FirstOwnSide = 0
    PROVE  Own = {}
BY OldestIs DEF FirstOwnSide, Sides

-----------------------------------------------------------------------------
(* Steps that open nothing. *)

\* Fewer positions, or fewer orders, in the broker's hands.
LEMMA BrokerKeepsBook ==
    ASSUME BookInv, Broker
    PROVE  BookInv'
<1> USE DEF Broker, engineVars
<1>1. UNCHANGED <<pc, side, pending, cache, asked, mode>>
  OBVIOUS
<1>2. /\ orders' = [o \in DOMAIN orders' |-> orders'[o]]
      /\ orders = EmptyBag => orders' = EmptyBag
      /\ orders = EmptyBag /\ trades \in Nat => positions' \subseteq positions /\ trades' = trades
  <2>1. CASE Move
    BY <2>1, Moved
  <2>2. CASE CloseOut \/ Later
    BY <2>2 DEF CloseOut, Later, BookInv, Recorded
  <2> QED
    BY <2>1, <2>2
<1>3. mode = "market" => IsFiniteSet(positions') /\ Own' \subseteq Own /\ trades' = trades
  BY <1>2, FS_Subset DEF BookInv, Recorded, NoPosition, Own
<1> QED
  BY <1>1, <1>2, <1>3 DEF BookInv, Recorded, GoesBy, NoPosition, NoOrder

\* Fewer orders, time that passes, or a process that starts with empty caches.
LEMMA QuietKeepsBook ==
    ASSUME BookInv, Top \/ QuoteFails \/ NoEntry \/ Tick \/ Sweep \/ Restart
    PROVE  BookInv'
<1> USE DEF brokerVars, Goto, Again
<1>1. /\ UNCHANGED <<positions, trades, mode>> /\ Own' = Own
      /\ orders' = [o \in DOMAIN orders' |-> orders'[o]]
      /\ orders = EmptyBag => orders' = EmptyBag
  BY Canceled DEF Top, QuoteFails, NoEntry, Tick, Sweep, Restart, Own, BookInv, Recorded
<1>2. CASE Top \/ QuoteFails \/ NoEntry
  <2>1. UNCHANGED <<orders, side, pending, cache, asked>> /\ pc' \notin {"orders", "place", "place2"}
    BY <1>2 DEF Top, QuoteFails, NoEntry, Finish
  <2>2. pc # "place2"
    BY <1>2 DEF Top, QuoteFails, NoEntry
  <2> QED
    BY <1>1, <2>1, <2>2 DEF BookInv, Recorded, GoesBy, NoPosition, NoOrder
<1>3. CASE Sweep
  BY <1>1, <1>3 DEF Sweep, BookInv, Recorded, GoesBy, NoPosition, NoOrder
<1>4. CASE Tick \/ Restart
  <2>1. asked' = Unasked /\ cache' \in {cache, NoCache} /\ pc' = "top"
    BY <1>4 DEF Tick, Restart, EngineStart
  <2> QED
    BY <1>1, <2>1 DEF BookInv, Recorded, GoesBy, NoPosition, NoOrder, Unasked, Caches, NoCache
<1> QED
  BY <1>2, <1>3, <1>4

\* A cache that is asked keeps its form.
LEMMA Asks ==
    ASSUME NEW c \in Caches, NEW value, Refreshed(c, value), DOMAIN asked = Caches
    PROVE  /\ DOMAIN asked' = Caches
           /\ \A other \in Caches \ {c} : asked'[other] = asked[other]
           /\ \/ asked'[c] = "answered" /\ cache' = value
              \/ asked'[c] = "failed" /\ cache' = cache
              \/ asked'[c] = asked[c] /\ cache' = cache
BY DEF Refreshed

\* An answer that there is no position is true when it comes.
LEMMA ReadKeepsBook ==
    ASSUME BookInv, Read
    PROVE  BookInv'
<1> USE DEF Goto, brokerVars
<1>1. /\ UNCHANGED <<positions, orders, trades, mode, pending>> /\ Own' = Own
      /\ pc' = "orders" /\ pc = "read" /\ side' = cache'.side
      /\ Refreshed("positions", PositionsRead)
  BY DEF Read, Own
<1>2. /\ DOMAIN asked' = Caches
      /\ asked'["orders"] = asked["orders"]
      /\ \/ asked'["positions"] = "answered" /\ cache' = PositionsRead
         \/ asked'["positions"] = "failed" /\ cache' = cache
         \/ asked'["positions"] = asked["positions"] /\ cache' = cache
  BY <1>1, Asks DEF BookInv, Recorded, Caches
<1>3. DOMAIN cache' = {"side", "orders"} /\ cache'.orders = cache.orders
  BY <1>2 DEF PositionsRead, BookInv, Recorded
<1>4. cache' = PositionsRead => cache'.side = FirstOwnSide
  BY DEF PositionsRead, BookInv, Recorded
<1>5. NoPosition'
  <2>1. ASSUME mode = "market", cache' = PositionsRead, cache'.side = 0 PROVE Own = {}
    BY <1>4, <2>1, ReadsOwn DEF BookInv, Recorded
  <2> QED
    BY <1>1, <1>2, <2>1 DEF BookInv, NoPosition
<1> QED
  BY <1>1, <1>2, <1>3, <1>5 DEF BookInv, Recorded, GoesBy, NoOrder

\* What the refresh of the orders leaves, whatever it finds.
LEMMA AsksOrders ==
    ASSUME BookInv, Refreshed("orders", OrdersRead), pc # "place2"
    PROVE  /\ DOMAIN asked' = Caches /\ DOMAIN cache' = {"side", "orders"}
           /\ asked'["positions"] = asked["positions"] /\ cache'.side = cache.side
           /\ asked'["orders"] = "answered" /\ cache'.orders = {} /\ ~pending => orders = EmptyBag
<1>1. /\ DOMAIN asked' = Caches
      /\ asked'["positions"] = asked["positions"]
      /\ \/ asked'["orders"] = "answered" /\ cache' = OrdersRead
         \/ asked'["orders"] = "failed" /\ cache' = cache
         \/ asked'["orders"] = asked["orders"] /\ cache' = cache
  BY Asks DEF BookInv, Recorded, Caches
<1>2. /\ DOMAIN OrdersRead = {"side", "orders"} /\ OrdersRead.side = cache.side
      /\ OrdersRead.orders = Resting
  BY DEF OrdersRead, BookInv, Recorded
<1> QED
  BY <1>1, <1>2, RestsNothing DEF BookInv, Recorded, NoOrder

\* The entry goes out when the cache knows no order and none may be on its way.
LEMMA AskOrdersKeepsBook ==
    ASSUME BookInv, AskOrders
    PROVE  BookInv'
<1>1. /\ UNCHANGED <<positions, orders, trades, mode, pending, side>> /\ Own' = Own
      /\ pc = "orders" /\ side = 0
      /\ \/ pc' = "place" /\ cache'.orders = {} /\ ~pending
         \/ pc' = "top"
  BY DEF AskOrders, MayTrade, Own, brokerVars, Goto, Again
<1>2. /\ DOMAIN asked' = Caches /\ DOMAIN cache' = {"side", "orders"}
      /\ asked'["positions"] = asked["positions"] /\ cache'.side = cache.side
      /\ asked'["orders"] = "answered" /\ cache'.orders = {} /\ ~pending => orders = EmptyBag
  BY <1>1, AsksOrders DEF AskOrders
<1> QED
  BY <1>1, <1>2 DEF BookInv, Recorded, GoesBy, NoPosition, NoOrder

\* Canceling what rests leaves less.
LEMMA OcoKeepsBook ==
    ASSUME BookInv, Oco
    PROVE  BookInv'
<1>1. /\ UNCHANGED <<positions, trades, mode, pending, side>> /\ Own' = Own
      /\ pc = "oco" /\ pc' = "top"
  BY DEF Oco, Own, Goto, Again
<1>2. /\ DOMAIN asked' = Caches /\ DOMAIN cache' = {"side", "orders"}
      /\ asked'["positions"] = asked["positions"] /\ cache'.side = cache.side
      /\ asked'["orders"] = "answered" /\ cache'.orders = {} /\ ~pending => orders = EmptyBag
  BY <1>1, AsksOrders DEF Oco
<1>3. /\ orders' = [o \in DOMAIN orders' |-> orders'[o]]
      /\ orders = EmptyBag => orders' = EmptyBag
  BY Canceled DEF Oco
<1> QED
  BY <1>1, <1>2, <1>3 DEF BookInv, Recorded, GoesBy, NoPosition, NoOrder

\* After the pair order_pending_until is in the future.
LEMMA PlaceKeepsBook ==
    ASSUME BookInv, PlaceHigh \/ PlaceLow
    PROVE  BookInv'
<1>1. /\ UNCHANGED <<positions, trades, mode, side, cache, asked>> /\ Own' = Own
      /\ mode = "limit"
      /\ \/ pc' = "place2" /\ pending' = pending
         \/ pc' = "top" /\ pending' = TRUE
  BY DEF PlaceHigh, PlaceLow, Own, Goto, Again, BookInv, GoesBy
<1>2. orders' = [o \in DOMAIN orders' |-> orders'[o]]
  BY Placed DEF PlaceHigh, PlaceLow, BookInv
<1> QED
  BY <1>1, <1>2 DEF BookInv, Recorded, GoesBy, NoPosition, NoOrder

\* The opposite orders are not the engine's positions.
LEMMA FlattenKeepsBook ==
    ASSUME BookInv, Flatten
    PROVE  BookInv'
<1>1. UNCHANGED <<orders, mode, side, pending, cache, asked>> /\ pc = "flatten" /\ pc' = "sweep"
  BY DEF Flatten, Goto
<1>2. PICK sent \in SUBSET Own :
         /\ positions' = positions \cup
               {Opposite(p, trades + Cardinality({q \in sent : q.id <= p.id})) : p \in sent}
         /\ trades' = trades + Cardinality(sent)
  BY DEF Flatten
<1>3. Own' = Own
  <2>1. \A p, id : Opposite(p, id).own = FALSE
    BY DEF Opposite
  <2> QED
    BY <1>2, <2>1 DEF Own
<1>4. mode = "market" => trades' \in Nat /\ IsFiniteSet(positions')
  <2> SUFFICES ASSUME mode = "market" PROVE trades' \in Nat /\ IsFiniteSet(positions')
    OBVIOUS
  <2>1. IsFiniteSet(positions) /\ trades \in Nat
    BY DEF BookInv, Recorded
  <2>2. sent \subseteq positions /\ IsFiniteSet(sent)
    BY <2>1, FS_Subset DEF Own
  <2>3. Cardinality(sent) \in Nat
    BY <2>2, FS_CardinalityType
  <2> PICK opposite : opposite = [p \in sent |->
             Opposite(p, trades + Cardinality({q \in sent : q.id <= p.id}))]
    OBVIOUS
  <2> DEFINE new == {Opposite(p, trades + Cardinality({q \in sent : q.id <= p.id})) : p \in sent}
  <2>4. IsFiniteSet(new)
    <3>1. new = {opposite[p] : p \in sent}
      OBVIOUS
    <3> HIDE DEF new
    <3>2. opposite \in Surjection(sent, new)
      BY <3>1 DEF Surjection
    <3> QED
      BY <2>2, <3>2, FS_Surjection
  <2> HIDE DEF new
  <2>5. IsFiniteSet(positions \cup new)
    BY <2>1, <2>4, FS_Union
  <2> QED
    BY <1>2, <2>1, <2>3, <2>5 DEF new
<1> QED
  BY <1>1, <1>3, <1>4 DEF BookInv, Recorded, GoesBy, NoPosition, NoOrder

\* The one step that opens a position of the engine forbids the next one.
LEMMA EnterMarketKeepsBook ==
    ASSUME BookInv, EnterMarket
    PROVE  BookInv'
<1>1. UNCHANGED <<orders, mode, cache, asked, price>> /\ pc = "place" /\ pc' \in {"top", "oco"} /\ pending'
      /\ mode = "market"
  BY DEF EnterMarket, Finish, Goto, Again
<1>2. PICK signal \in Sides, filled \in BOOLEAN : ExecuteMarketOrder(signal, filled)
  BY DEF EnterMarket
<1>3. trades' \in Nat /\ IsFiniteSet(positions') /\ \A p \in Own' : p.id \in Nat /\ p.side \in Sides
  <2>0. /\ trades \in Nat /\ IsFiniteSet(positions)
        /\ \A p \in Own : p.id \in Nat /\ p.side \in Sides
    BY <1>1 DEF BookInv, Recorded
  <2>1. CASE UNCHANGED <<positions, trades>>
    BY <2>0, <2>1 DEF Own
  <2>2. CASE MarketFill(signal, price - signal * SlPts, 1, TRUE)
    <3> PICK new : new = [id |-> trades + 1, side |-> signal, entry |-> price,
                          stop |-> price - signal * SlPts, first |-> price - signal * SlPts,
                          lots |-> 1, own |-> TRUE]
      OBVIOUS
    <3>1. positions' = positions \cup {new} /\ trades' = trades + 1 /\ new.id = trades + 1 /\ new.side = signal
      BY <2>2 DEF MarketFill
    <3>2. IsFiniteSet(positions')
      BY <2>0, <3>1, FS_AddElement
    <3> QED
      BY <2>0, <3>1, <3>2 DEF Own
  <2> QED
    BY <1>2, <2>1, <2>2 DEF ExecuteMarketOrder
<1> QED
  BY <1>1, <1>3 DEF BookInv, Recorded, GoesBy, NoPosition, NoOrder

-----------------------------------------------------------------------------
(* The theorems. *)

\* Every step keeps what the caches say true of the book.
LEMMA BookStep == BookInv /\ [Next]_vars => BookInv'
<1> SUFFICES ASSUME BookInv, [Next]_vars PROVE BookInv'
  OBVIOUS
<1>1. CASE UNCHANGED vars
  BY <1>1 DEF vars, brokerVars, engineVars, BookInv, Recorded, GoesBy, NoPosition, NoOrder, Own
<1> QED
  BY <1>1, QuietKeepsBook, BrokerKeepsBook, ReadKeepsBook, AskOrdersKeepsBook, OcoKeepsBook,
     PlaceKeepsBook, FlattenKeepsBook, EnterMarketKeepsBook DEF Next, Engine

\* A market entry goes out into an empty book unless the last read of the positions was
\* not answered, whichever reply to an earlier entry was lost
\* (london_reversal_engine_live.py:465-487, 523-570).
THEOREM EntersOnce == Spec => EntersEmptyBook
<1>1. BookInv /\ [Next]_vars =>
        [(EnterMarket /\ trades' > trades /\ asked["positions"] = "answered") => Own = {}]_vars
  BY DEF BookInv, GoesBy, NoPosition, EnterMarket
<1> QED
  BY <1>1, BookStart, BookStep, PTL DEF Spec, EntersEmptyBook

\* A pair of limit orders is placed only when nothing rests, unless the last read of the
\* orders was not answered (london_reversal_engine_live.py:509-540).
THEOREM PairsOnce == Spec => OnePair
<1>1. BookInv /\ [Next]_vars =>
        [(PlaceHigh /\ orders' # orders /\ asked["orders"] = "answered") => orders = EmptyBag]_vars
  BY DEF BookInv, GoesBy, NoOrder, PlaceHigh
<1> QED
  BY <1>1, BookStart, BookStep, PTL DEF Spec, OnePair

-----------------------------------------------------------------------------
(* Types. *)

Shaped ==
    /\ TypeOK
    /\ DOMAIN cache = {"side", "orders"} /\ IsFiniteSet(positions)

\* A bag of some kinds of orders: how many of each.
LEMMA CanceledTyped ==
    ASSUME NEW gone, CancelSome(gone), IsABag(orders), BagToSet(orders) \subseteq Order
    PROVE  IsABag(orders') /\ BagToSet(orders') \subseteq Order
<1>1. orders' = [o \in DOMAIN orders \ gone |-> orders[o]]
  BY DEF CancelSome, Restrict, Resting, BagToSet
<1> QED
  BY <1>1 DEF IsABag, BagToSet

LEMMA PlacedTyped ==
    ASSUME NEW o \in Order, PlaceLimit(o), IsABag(orders), BagToSet(orders) \subseteq Order
    PROVE  IsABag(orders') /\ BagToSet(orders') \subseteq Order
<1>1. CASE orders' = orders
  BY <1>1
<1>2. CASE orders' = orders (+) SetToBag({o})
  <2>1. orders' = [e \in DOMAIN orders \cup {o} |->
           (IF e \in DOMAIN orders THEN orders[e] ELSE 0) + (IF e \in {o} THEN 1 ELSE 0)]
    BY <1>2 DEF (+), SetToBag
  <2>2. \A e \in DOMAIN orders : orders[e] \in Nat /\ orders[e] > 0
    BY DEF IsABag
  <2> QED
    BY <2>1, <2>2 DEF IsABag, BagToSet
<1> QED
  BY <1>1, <1>2 DEF PlaceLimit

LEMMA FadesAre == FadeHigh \in Order /\ FadeLow \in Order
BY LondonAssumption, BrokerAssumption DEF FadeHigh, FadeLow, Order, Sides, Levels

\* What fills, and what is left.
LEMMA MovedTyped ==
    ASSUME Shaped, Move
    PROVE  BrokerTypeOK' /\ IsFiniteSet(positions')
<1>0. /\ IsABag(orders) /\ BagToSet(orders) \subseteq Order /\ positions \subseteq Position
      /\ trades \in 0 .. MaxTrades /\ IsFiniteSet(positions)
  BY DEF Shaped, TypeOK, BrokerTypeOK
<1> DEFINE reached(p) == {o \in Resting : Reached(o, p)}
<1>1. PICK p \in {price - 1, price + 1} \cap Levels, n \in 0 .. MaxTrades - trades :
        \E fills \in [1 .. n -> reached(p)] :
           /\ price' = p
           /\ positions' = {x \in positions : ~Stopped(x, p)} \cup Opened(fills)
           /\ CancelSome(reached(p))
           /\ trades' = trades + n
           /\ UNCHANGED <<phase, day>>
  BY Zenon DEF Move
<1>2. PICK fills \in [1 .. n -> reached(p)] :
           /\ price' = p
           /\ positions' = {x \in positions : ~Stopped(x, p)} \cup Opened(fills)
           /\ CancelSome(reached(p))
           /\ trades' = trades + n
           /\ UNCHANGED <<phase, day>>
  BY <1>1
<1>3. n \in Nat /\ trades + n \in 0 .. MaxTrades
  BY <1>0, BrokerAssumption
<1>4. \A i \in 1 .. n : fills[i] \in Order
  BY <1>0 DEF Resting
<1> DEFINE opened(i) == [id |-> trades + i, side |-> fills[i].side, entry |-> fills[i].level,
                         stop |-> fills[i].stop, first |-> fills[i].stop, lots |-> 1,
                         own |-> TRUE]
<1>5. ASSUME NEW i \in 1 .. n PROVE opened(i) \in Position
  <2>1. trades + i \in 1 .. MaxTrades
    BY <1>0, <1>3, BrokerAssumption
  <2>2. fills[i].side \in Sides /\ fills[i].level \in Levels /\ fills[i].stop \in Int
    BY <1>4 DEF Order
  <2> QED
    BY <2>1, <2>2 DEF Position
<1>6. Opened(fills) = {opened(i) : i \in 1 .. n}
  BY DEF Opened
<1>7. IsFiniteSet(Opened(fills))
  <2> PICK f : f = [i \in 1 .. n |-> opened(i)]
    OBVIOUS
  <2>1. f \in Surjection(1 .. n, Opened(fills))
    BY <1>6, Zenon DEF Surjection
  <2>2. IsFiniteSet(1 .. n)
    BY <1>3, FS_Interval
  <2> QED
    BY <2>1, <2>2, FS_Surjection
<1>8. positions' \subseteq Position
  BY <1>0, <1>2, <1>5, <1>6
<1>9. IsFiniteSet(positions')
  <2>1. IsFiniteSet({x \in positions : ~Stopped(x, p)})
    BY <1>0, FS_Subset
  <2> QED
    BY <1>2, <1>7, <2>1, FS_Union
<1> QED
  BY <1>0, <1>1, <1>2, <1>3, <1>8, <1>9, CanceledTyped DEF BrokerTypeOK, Shaped, TypeOK

LEMMA FlattenTyped ==
    ASSUME Shaped, Flatten
    PROVE  BrokerTypeOK' /\ IsFiniteSet(positions')
<1>0. /\ positions \subseteq Position /\ price \in Levels
      /\ trades \in 0 .. MaxTrades /\ IsFiniteSet(positions) /\ trades \in Nat
  BY DEF Shaped, TypeOK, BrokerTypeOK
<1>1. PICK sent \in SUBSET Own :
         /\ trades + Cardinality(sent) <= MaxTrades
         /\ positions' = positions \cup
               {Opposite(p, trades + Cardinality({q \in sent : q.id <= p.id})) : p \in sent}
         /\ trades' = trades + Cardinality(sent)
         /\ UNCHANGED <<phase, day, price, orders>>
  BY DEF Flatten
<1>2. sent \subseteq positions /\ IsFiniteSet(sent) /\ Cardinality(sent) \in Nat
  BY <1>0, FS_Subset, FS_CardinalityType DEF Own
<1> DEFINE rank(p) == Cardinality({q \in sent : q.id <= p.id})
<1>3. ASSUME NEW p \in sent PROVE rank(p) \in 1 .. Cardinality(sent)
  <2> PICK upTo : upTo = {q \in sent : q.id <= p.id}
    OBVIOUS
  <2>1. p.id \in Int
    BY <1>0, <1>2 DEF Position
  <2>2. p \in upTo /\ upTo \subseteq sent
    BY <2>1
  <2>3. IsFiniteSet(upTo) /\ Cardinality(upTo) \in Nat /\ Cardinality(upTo) <= Cardinality(sent)
    BY <1>2, <2>2, FS_Subset, FS_CardinalityType
  <2>4. Cardinality(upTo) # 0
    BY <2>2, <2>3, FS_EmptySet
  <2> QED
    BY <1>2, <2>3, <2>4
<1>4. ASSUME NEW p \in sent PROVE Opposite(p, trades + rank(p)) \in Position
  <2>1. p \in Position
    BY <1>0, <1>2
  <2>2. trades + rank(p) \in 1 .. MaxTrades
    <3> PICK r : r = rank(p)
      OBVIOUS
    <3>1. r \in 1 .. Cardinality(sent)
      BY <1>3
    <3> QED
      BY <1>0, <1>1, <1>2, <3>1, BrokerAssumption
  <2>3. -p.side \in Sides /\ p.lots \in Nat
    BY <2>1 DEF Position, Sides
  <2>4. FarStop(-p.side) \in Int
    BY BrokerAssumption DEF FarStop
  <2> HIDE DEF rank
  <2> QED
    BY <1>0, <2>2, <2>3, <2>4 DEF Opposite, Position
<1>5. positions' \subseteq Position
  BY <1>0, <1>1, <1>4
<1>6. IsFiniteSet(positions')
  <2> PICK f : f = [p \in sent |-> Opposite(p, trades + rank(p))]
    OBVIOUS
  <2> DEFINE new == {Opposite(p, trades + rank(p)) : p \in sent}
  <2>1. new = {f[p] : p \in sent}
    OBVIOUS
  <2>2. positions' = positions \cup new
    BY <1>1
  <2> HIDE DEF new
  <2>3. f \in Surjection(sent, new)
    BY <2>1 DEF Surjection
  <2>4. IsFiniteSet(new)
    BY <1>2, <2>3, FS_Surjection
  <2> QED
    BY <1>0, <2>2, <2>4, FS_Union
<1>7. trades' \in 0 .. MaxTrades
  BY <1>0, <1>1, <1>2, BrokerAssumption
<1> QED
  BY <1>0, <1>1, <1>5, <1>6, <1>7 DEF BrokerTypeOK, Shaped, TypeOK

LEMMA MarketTyped ==
    ASSUME Shaped, EnterMarket
    PROVE  BrokerTypeOK' /\ IsFiniteSet(positions')
<1>0. /\ positions \subseteq Position /\ price \in Levels
      /\ trades \in 0 .. MaxTrades /\ IsFiniteSet(positions)
  BY DEF Shaped, TypeOK, BrokerTypeOK
<1>1. PICK signal \in Sides, filled \in BOOLEAN : ExecuteMarketOrder(signal, filled)
  BY DEF EnterMarket
<1>2. UNCHANGED <<phase, day, price, orders>>
  BY DEF EnterMarket
<1>3. CASE UNCHANGED <<positions, trades>>
  BY <1>2, <1>3 DEF Shaped, TypeOK, BrokerTypeOK
<1>4. CASE MarketFill(signal, price - signal * SlPts, 1, TRUE)
  <2> PICK new : new = [id |-> trades + 1, side |-> signal, entry |-> price,
                        stop |-> price - signal * SlPts, first |-> price - signal * SlPts,
                        lots |-> 1, own |-> TRUE]
    OBVIOUS
  <2>1. positions' = positions \cup {new} /\ trades' = trades + 1 /\ trades < MaxTrades
    BY <1>4 DEF MarketFill
  <2>2. price - signal * SlPts \in Int
    BY <1>0, BrokerAssumption, LondonAssumption DEF Levels, Sides
  <2>3. trades + 1 \in 1 .. MaxTrades
    BY <1>0, <2>1, BrokerAssumption
  <2>4. new \in Position
    BY <1>0, <2>2, <2>3 DEF Position
  <2>5. positions' \subseteq Position /\ IsFiniteSet(positions')
    BY <1>0, <2>1, <2>4, FS_AddElement
  <2> QED
    BY <1>2, <2>1, <2>3, <2>5 DEF Shaped, TypeOK, BrokerTypeOK
<1> QED
  BY <1>1, <1>3, <1>4 DEF ExecuteMarketOrder

LEMMA SideReadTyped ==
    ASSUME Shaped
    PROVE  FirstOwnSide \in {-1, 0, 1}
<1>1. \A p \in Own : p.id \in Nat /\ p.side \in Sides
  BY BrokerAssumption DEF Shaped, TypeOK, BrokerTypeOK, Position, Own
<1>2. CASE Own = {}
  BY <1>2 DEF FirstOwnSide
<1>3. CASE Own # {}
  BY <1>1, <1>3, OldestIs DEF FirstOwnSide, Sides
<1> QED
  BY <1>2, <1>3

\* What a refresh of either cache leaves.
LEMMA RefreshTyped ==
    ASSUME Shaped,
           \/ Refreshed("positions", PositionsRead)
           \/ Refreshed("orders", OrdersRead)
    PROVE  /\ asked' \in [Caches -> {"old", "answered", "failed"}]
           /\ DOMAIN cache' = {"side", "orders"}
           /\ cache'.side \in {-1, 0, 1} /\ cache'.orders \subseteq Order
<1>1. /\ asked \in [Caches -> {"old", "answered", "failed"}]
      /\ DOMAIN cache = {"side", "orders"}
      /\ cache.side \in {-1, 0, 1} /\ cache.orders \subseteq Order /\ Resting \subseteq Order
  BY DEF Shaped, TypeOK, BrokerTypeOK, Resting
<1>2. asked' \in [Caches -> {"old", "answered", "failed"}]
  BY <1>1 DEF Refreshed, Caches
<1>3. cache' \in {cache, PositionsRead, OrdersRead}
  BY DEF Refreshed
<1> QED
  BY <1>1, <1>2, <1>3, SideReadTyped DEF PositionsRead, OrdersRead

\* Every step keeps the types; that the count of trades stays below two needs the days.
LEMMA ShapedStep == Shaped /\ DayInv /\ [Next]_vars => Shaped'
<1> SUFFICES ASSUME Shaped, DayInv, [Next]_vars PROVE Shaped'
  OBVIOUS
<1> USE DEF Goto, Again
<1>0. /\ IsABag(orders) /\ BagToSet(orders) \subseteq Order
      /\ day \in 1 .. MaxDays /\ 0 \in 0 .. MaxDays /\ day \in 0 .. MaxDays
  BY BrokerAssumption DEF Shaped, TypeOK, BrokerTypeOK
<1>1. CASE Top
  <2>1. UNCHANGED <<brokerVars, mode, restarts, side, pending, cache, asked, tradedDay>>
    BY <1>1 DEF Top
  <2>2. /\ pc' \in {"flatten", "read"} /\ today' \in {day, 0} /\ orbDay' \in {orbDay, day}
        /\ tradesToday' \in {tradesToday, 0} /\ halted' \in {halted, FALSE}
    BY <1>1 DEF Top
  <2> QED
    BY <1>0, <2>1, <2>2 DEF Shaped, TypeOK, BrokerTypeOK, brokerVars
<1>2. CASE Flatten
  BY <1>2, FlattenTyped DEF Flatten, Shaped, TypeOK
<1>3. CASE Sweep
  BY <1>0, <1>3, CanceledTyped DEF Sweep, Shaped, TypeOK, BrokerTypeOK
<1>4. CASE QuoteFails \/ NoEntry
  BY <1>0, <1>4 DEF QuoteFails, NoEntry, Finish, brokerVars, Shaped, TypeOK, BrokerTypeOK
<1>5. CASE Read
  BY <1>5, RefreshTyped DEF Read, brokerVars, Shaped, TypeOK, BrokerTypeOK
<1>6. CASE AskOrders
  BY <1>0, <1>6, RefreshTyped DEF AskOrders, brokerVars, Shaped, TypeOK, BrokerTypeOK
<1>7. CASE PlaceHigh \/ PlaceLow
  <2>1. IsABag(orders') /\ BagToSet(orders') \subseteq Order
    BY <1>0, <1>7, PlacedTyped, FadesAre DEF PlaceHigh, PlaceLow
  <2> QED
    BY <1>0, <1>7, <2>1 DEF PlaceHigh, PlaceLow, Shaped, TypeOK, BrokerTypeOK
<1>8. CASE EnterMarket
  <2>1. side' \in {-1, 0, 1} /\ tradesToday' \in {0, 1}
    BY <1>8 DEF EnterMarket, Sides, Shaped, TypeOK, DayInv, EntersUncounted
  <2>2. /\ pc' \in {"top", "oco"} /\ today' \in {today, 0} /\ pending' = TRUE
        /\ UNCHANGED <<mode, restarts, halted, orbDay, cache, asked, tradedDay>>
    BY <1>8 DEF EnterMarket, Finish
  <2> QED
    BY <1>0, <1>8, <2>1, <2>2, MarketTyped DEF Shaped, TypeOK
<1>9. CASE Oco
  <2>1. IsABag(orders') /\ BagToSet(orders') \subseteq Order
    BY <1>0, <1>9, CanceledTyped DEF Oco
  <2> QED
    BY <1>0, <1>9, <2>1, RefreshTyped DEF Oco, Shaped, TypeOK, BrokerTypeOK
<1>10. CASE Tick
  BY <1>10 DEF Tick, Unasked, brokerVars, Shaped, TypeOK, BrokerTypeOK
<1>11. CASE Restart
  <2>1. IsABag(orders') /\ BagToSet(orders') \subseteq Order
    BY <1>0, <1>11, CanceledTyped DEF Restart
  <2>2. /\ pc' = "top" /\ side' = 0 /\ halted' = FALSE /\ tradesToday' = 0 /\ orbDay' \in {0, day}
        /\ pending' = FALSE /\ cache' = NoCache /\ asked' = Unasked /\ today' = 0 /\ tradedDay' = 0
        /\ restarts' \in 0 .. MaxRestarts
        /\ UNCHANGED <<phase, day, price, positions, trades, mode>>
    BY <1>11, LondonAssumption DEF Restart, EngineStart, Shaped, TypeOK
  <2> QED
    BY <1>0, <2>1, <2>2 DEF NoCache, Unasked, Shaped, TypeOK, BrokerTypeOK
<1>12. CASE Broker
  <2>1. UNCHANGED <<engineVars, mode, restarts>>
    BY <1>12 DEF Broker
  <2>2. BrokerTypeOK' /\ IsFiniteSet(positions')
    <3>1. CASE Move
      BY <3>1, MovedTyped
    <3>2. CASE CloseOut
      BY <3>2, FS_Subset DEF CloseOut, Shaped, TypeOK, BrokerTypeOK
    <3>3. CASE Later
      BY <3>3, BrokerAssumption DEF Later, Phases, Shaped, TypeOK, BrokerTypeOK
    <3> QED
      BY <1>12, <3>1, <3>2, <3>3 DEF Broker
  <2> QED
    BY <2>1, <2>2 DEF engineVars, Shaped, TypeOK
<1>13. CASE UNCHANGED vars
  BY <1>13 DEF vars, brokerVars, engineVars, Shaped, TypeOK, BrokerTypeOK
<1> QED
  BY <1>1, <1>2, <1>3, <1>4, <1>5, <1>6, <1>7, <1>8, <1>9, <1>10, <1>11, <1>12, <1>13
     DEF Next, Engine

\* A process that starts knows nothing, of an account that has nothing.
LEMMA ShapedStart == Init => Shaped
<1> SUFFICES ASSUME Init PROVE Shaped
  OBVIOUS
<1>1. IsABag(orders) /\ BagToSet(orders) = {}
  BY DEF Init, BrokerInit, EmptyBag, SetToBag, IsABag, BagToSet
<1>2. IsFiniteSet(positions) /\ BrokerTypeOK
  BY <1>1, FS_EmptySet, BrokerAssumption DEF Init, BrokerInit, BrokerTypeOK, Phases, Levels
<1>3. /\ DOMAIN cache = {"side", "orders"} /\ cache.side = 0 /\ cache.orders = {}
      /\ asked \in [Caches -> {"old", "answered", "failed"}]
  BY DEF Init, NoCache, Unasked
<1>4. {orbDay, tradedDay, today} \subseteq 0 .. MaxDays /\ restarts \in 0 .. MaxRestarts
  BY BrokerAssumption, LondonAssumption DEF Init, BrokerInit
<1> QED
  BY <1>2, <1>3, <1>4 DEF Init, Shaped, TypeOK

\* The account and the engine stay within their types: every position the flatten, a fill
\* or an entry opens is one the broker can list, and no day counts a second trade
\* (london_reversal_engine_live.py:201-240, 523-570).
THEOREM TypeCorrect == Spec => []TypeOK
<1>1. Shaped => TypeOK
  BY DEF Shaped
<1> QED
  BY <1>1, DayStart, DayStep, ShapedStart, ShapedStep, PTL DEF Spec
=============================================================================
