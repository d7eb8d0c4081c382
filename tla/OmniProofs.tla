----------------------------- MODULE OmniProofs -----------------------------
(***************************************************************************)
(* Proofs about OmniEngine with market entries, for any prices, distances,  *)
(* days, trades, failures and restarts: the engine never has two positions, *)
(* and no stop gets beyond the one its position was opened with, though what *)
(* the trailing sends may arrive late.  The invariant IInv says why:        *)
(*   Typed          shapes and numbers; ids are distinct and at most trades *)
(*   NothingRests   market entries leave nothing in the order book that     *)
(*                  could fill later                                        *)
(*   OneOwn         there is one position of the engine at most             *)
(*   ReadEmpty      an iteration that may enter has read an empty book, and *)
(*                  nothing is opened between that read and the order       *)
(*   NotBeyond      no stop at the broker is beyond its position's first    *)
(*   MovesInto      nor is the one the trailing is about to send            *)
(*   LateInto       nor any that is on its way                              *)
(* Of stop orders nothing is claimed: both legs of a pair may fill.         *)
(***************************************************************************)
EXTENDS OmniEngine, FiniteSetTheorems, TLAPS

\* The fields a position and what is read have; Net and the volume of a lock are sums
\* over the book, of which nothing is needed.
PositionFields == {"id", "side", "entry", "stop", "first", "lots", "own"}
SeenFields == {"day", "price", "id", "net"}

\* What is known of a position.
Booked(x) ==
    /\ DOMAIN x = PositionFields
    /\ x.id \in Nat /\ x.id <= trades /\ x.side \in Sides /\ x.entry \in Int
    /\ x.stop \in Int /\ x.first \in Int

Typed ==
    /\ price \in Levels /\ trades \in Nat
    /\ state \in [side: {-1, 0, 1}, entry: Int, sl: Int]
    /\ DOMAIN seen = SeenFields /\ seen.price \in Int
    /\ \A x \in positions : Booked(x)
    /\ \A x, y \in positions : x.id = y.id => x = y

\* The parts of the invariant, see above.
NothingRests == orders = EmptyBag /\ pc # "enter2"
OneOwn == \A x, y \in Own : x = y
ReadEmpty == pc = "enter" /\ state.side = 0 => Own = {}

\* Stop sl is not beyond the first one of any position with this id.
Near(id, sl) == \A x \in positions : x.id = id => x.side * (sl - x.first) >= 0

NotBeyond == \A x \in positions : x.side * (x.stop - x.first) >= 0
MovesInto ==
    pc = "modify" =>
      state.side # 0 /\ seen.id \in Int /\ seen.id <= trades /\ Near(seen.id, state.sl)
LateInto == \A m \in late : m.id \in Int /\ m.stop \in Int /\ m.id <= trades /\ Near(m.id, m.stop)

\* The parts that speak of stops.
StopsKept == NotBeyond /\ MovesInto /\ LateInto

IInv == mode = "market" => Typed /\ NothingRests /\ OneOwn /\ ReadEmpty /\ StopsKept

-----------------------------------------------------------------------------
(* Steps of the broker. *)

\* Whatever is canceled of an empty book, it stays empty.
LEMMA NothingToCancel ==
    ASSUME NEW gone, orders = EmptyBag, CancelSome(gone)
    PROVE  orders' = EmptyBag
<1>1. Resting = {} /\ Resting \ gone = {}
  BY DEF Resting, BagToSet, EmptyBag, SetToBag
<1>2. orders' = [o \in {} |-> orders[o]]
  BY <1>1 DEF CancelSome, Restrict
<1> QED
  BY <1>2 DEF EmptyBag, SetToBag

\* With nothing resting the price opens no position.
LEMMA NothingFills ==
    ASSUME orders = EmptyBag, trades \in Nat, Move
    PROVE  /\ price' \in Levels /\ positions' \subseteq positions /\ orders' = EmptyBag
           /\ UNCHANGED <<phase, day, trades>>
<1> DEFINE reached(p) == {o \in Resting : Reached(o, p)}
<1>1. PICK p \in {price - 1, price + 1} \cap Levels, n \in 0 .. MaxTrades - trades :
        \E fills \in [1 .. n -> reached(p)] :
           /\ price' = p
           /\ positions' = {x \in positions : ~Stopped(x, p)} \cup Opened(fills)
           /\ CancelSome(reached(p))
           /\ trades' = trades + n
           /\ UNCHANGED <<phase, day>>
  BY Zenon DEF Move
<1>2. PICK fills \in [1 .. n -> reached(p)] :
           /\ price' = p
           /\ positions' = {x \in positions : ~Stopped(x, p)} \cup Opened(fills)
           /\ CancelSome(reached(p))
           /\ trades' = trades + n
           /\ UNCHANGED <<phase, day>>
  BY <1>1
<1>3. reached(p) = {}
  BY DEF Resting, BagToSet, EmptyBag, SetToBag
<1>4. n \in Nat
  BY BrokerAssumption
<1>5. n = 0
  <2> SUFFICES ASSUME n # 0 PROVE FALSE
    OBVIOUS
  <2>1. 1 \in 1 .. n
    BY <1>4
  <2> QED
    BY <1>3, <2>1
<1>6. Opened(fills) = {}
  BY <1>5 DEF Opened
<1>7. orders' = EmptyBag
  BY <1>2, NothingToCancel
<1> QED
  BY <1>2, <1>5, <1>6, <1>7

\* A process that starts has nothing.
LEMMA Start == Init => IInv
<1> SUFFICES ASSUME Init PROVE IInv
  OBVIOUS
<1>1. positions = {} /\ Own = {}
  BY DEF Init, BrokerInit, Own
<1>2. Typed
  BY <1>1, BrokerAssumption DEF Init, BrokerInit, Typed, NoState, Unseen, SeenFields, Levels
<1> QED
  BY <1>1, <1>2 DEF Init, BrokerInit, IInv, NothingRests, OneOwn, ReadEmpty, StopsKept,
                   NotBeyond, MovesInto, LateInto

\* What is known of the stops outlives positions that are closed and a new one, whose id
\* nothing sent before can carry.
LEMMA StopsStay ==
    ASSUME Typed, StopsKept, late' = late,
           \/ /\ positions' \subseteq positions
              /\ trades' = trades
           \/ \E new : /\ positions' = positions \cup {new}
                       /\ new.id > trades /\ trades' = trades + 1
                       /\ new.side * (new.stop - new.first) >= 0,
           \/ pc' # "modify"
           \/ /\ positions' \subseteq positions
              /\ UNCHANGED <<pc, state, seen>>
    PROVE  StopsKept'
<1>1. NotBeyond'
  BY DEF StopsKept, NotBeyond
<1>2. MovesInto'
  BY DEF StopsKept, MovesInto, Near, Typed
<1>3. ASSUME NEW m \in late
      PROVE  m.id \in Int /\ m.stop \in Int /\ m.id <= trades' /\ Near(m.id, m.stop)'
  <2>1. m.id \in Int /\ m.stop \in Int /\ m.id <= trades /\ Near(m.id, m.stop)
    BY DEF StopsKept, LateInto
  <2> QED
    BY <2>1 DEF Near, Typed
<1> QED
  BY <1>1, <1>2, <1>3 DEF StopsKept, LateInto

\* A position less, or the price elsewhere, disturbs nothing.
LEMMA FewerPositions ==
    ASSUME mode = "market", IInv, positions' \subseteq positions, price' \in Levels,
           orders' = EmptyBag, UNCHANGED <<trades, mode, pc, state, seen, late>>
    PROVE  IInv'
<1>1. Own' \subseteq Own
  BY DEF Own
<1>2. Typed'
  BY DEF IInv, Typed, Booked
<1>3. StopsKept'
  BY StopsStay DEF IInv
<1> QED
  BY <1>1, <1>2, <1>3 DEF IInv, NothingRests, OneOwn, ReadEmpty

\* The broker closes positions; it opens none.
LEMMA BrokerKeeps ==
    ASSUME mode = "market", IInv, Broker
    PROVE  IInv'
<1> USE DEF Broker, engineVars, aside
<1>1. orders = EmptyBag /\ trades \in Nat /\ price \in Levels
  BY DEF IInv, Typed, NothingRests
<1>2. CASE Move
  BY <1>1, <1>2, NothingFills, FewerPositions
<1>3. CASE CloseOut
  <2>1. positions' \subseteq positions
    BY <1>3 DEF CloseOut
  <2> QED
    BY <2>1, <1>1, <1>3, FewerPositions DEF CloseOut
<1>4. CASE Later
  BY <1>1, <1>4, FewerPositions DEF Later
<1> QED
  BY <1>2, <1>3, <1>4

\* Of one position, the newest is the oldest.
LEMMA ReadSingle ==
    ASSUME NEW x \in Own, OneOwn
    PROVE  Newest(Own) = x /\ Oldest(Own) = x
BY DEF OneOwn, Newest, Oldest

-----------------------------------------------------------------------------
(* Steps of the engine. *)

\* A step that leaves the positions as they are, with nothing left to cancel.
LEMMA QuietKeeps ==
    ASSUME mode = "market", IInv,
           Top \/ Cancel \/ QuoteFails \/ Quote \/ Hedge \/ ReadFails \/ NoEntry
           \/ EnterLongStop \/ EnterShortStop \/ Oco \/ PendingEnds \/ Restart
    PROVE  IInv'
<1> USE DEF brokerVars, aside, Goto, Again
<1>1. Typed /\ NothingRests /\ OneOwn /\ ReadEmpty /\ StopsKept
  BY DEF IInv
<1>2. orders' = EmptyBag
  BY <1>1, NothingToCancel
     DEF NothingRests, Top, Cancel, QuoteFails, Quote, Hedge, ReadFails, NoEntry,
         EnterLongStop, EnterShortStop, Oco, PendingEnds, Restart
<1>3. UNCHANGED <<positions, trades, price, mode, late>>
  BY DEF Top, Cancel, QuoteFails, Quote, Hedge, ReadFails, NoEntry,
         EnterLongStop, EnterShortStop, Oco, PendingEnds, Restart
<1>4. Own' = Own /\ OneOwn'
  BY <1>1, <1>3 DEF Own, OneOwn
<1>5. SUFFICES ASSUME \/ UNCHANGED state
                      \/ state' = NoState,
                      \/ UNCHANGED seen
                      \/ seen' = Unseen
                      \/ seen' = [Unseen EXCEPT !.day = seen'.day]
                      \/ seen' = [seen EXCEPT !.price = price]
                      \/ seen' = [seen EXCEPT !.net = Net],
                      \/ pc' \notin {"enter", "enter2", "modify"}
                      \/ UNCHANGED <<pc, state, seen>>
               PROVE  IInv'
  <2>1. CASE Top
    BY <1>3, <1>5, <2>1 DEF Top, Unseen
  <2>2. CASE Cancel
    BY <1>3, <1>5, <2>2 DEF Cancel
  <2>3. CASE QuoteFails
    BY <1>3, <1>5, <2>3 DEF QuoteFails
  <2>4. CASE Quote
    BY <1>3, <1>5, <2>4 DEF Quote
  <2>5. CASE Hedge
    BY <1>3, <1>5, <2>5 DEF Hedge
  <2>6. CASE ReadFails
    BY <1>3, <1>5, <2>6 DEF ReadFails
  <2>7. CASE NoEntry
    BY <1>3, <1>5, <2>7 DEF NoEntry
  <2>8. CASE EnterLongStop
    BY <2>8 DEF EnterLongStop
  <2>9. CASE EnterShortStop
    BY <1>1, <2>9 DEF EnterShortStop, NothingRests
  <2>10. CASE Oco
    BY <1>3, <1>5, <2>10 DEF Oco
  <2>11. CASE PendingEnds
    BY <1>3, <1>5, <2>11 DEF PendingEnds
  <2>12. CASE Restart
    BY <1>3, <1>5, <2>12 DEF Restart, EngineStart
  <2> QED
    BY <2>1, <2>2, <2>3, <2>4, <2>5, <2>6, <2>7, <2>8, <2>9, <2>10, <2>11, <2>12
<1>6. Typed'
  <2>1. DOMAIN seen' = SeenFields /\ seen'.price \in Int
    <3>1. price \in Int
      BY <1>1, BrokerAssumption DEF Typed, Levels
    <3> QED
      BY <1>1, <1>5, <3>1 DEF Typed, SeenFields, Unseen
  <2>2. state' \in [side: {-1, 0, 1}, entry: Int, sl: Int]
    BY <1>1, <1>5 DEF Typed, NoState
  <2> QED
    BY <1>1, <1>3, <2>1, <2>2 DEF Typed, Booked
<1>7. StopsKept'
  BY <1>1, <1>3, <1>5, StopsStay
<1> QED
  BY <1>1, <1>2, <1>3, <1>4, <1>5, <1>6, <1>7 DEF IInv, NothingRests, ReadEmpty

\* What is closed at the end of the day is gone.
LEMMA FlattenKeeps ==
    ASSUME mode = "market", IInv, Flatten
    PROVE  IInv'
<1>1. Typed /\ NothingRests /\ OneOwn /\ StopsKept
  BY DEF IInv
<1>2. positions' \subseteq positions /\ state' \in {state, [state EXCEPT !.side = 0, !.sl = 0]}
  BY Zenon DEF Flatten
<1>3. /\ pc' = "quote"
      /\ UNCHANGED <<price, orders, trades, mode, seen, late>>
  BY DEF Flatten, Goto, aside
<1>4. state' \in [side: {-1, 0, 1}, entry: Int, sl: Int]
  <2>1. [state EXCEPT !.side = 0, !.sl = 0] \in [side: {-1, 0, 1}, entry: Int, sl: Int]
    <3> DEFINE reset == [state EXCEPT !.side = 0]
    <3>1. reset \in [side: {-1, 0, 1}, entry: Int, sl: Int]
      BY <1>1 DEF Typed
    <3> HIDE DEF reset
    <3>2. [reset EXCEPT !.sl = 0] \in [side: {-1, 0, 1}, entry: Int, sl: Int]
      BY <3>1
    <3> QED
      BY <3>2, Zenon DEF reset
  <2> QED
    BY <1>1, <1>2, <2>1 DEF Typed
<1>5. Typed'
  BY <1>1, <1>2, <1>3, <1>4 DEF Typed, Booked
<1>6. Own' \subseteq Own
  BY <1>2 DEF Own
<1>7. StopsKept'
  BY <1>1, <1>2, <1>3, StopsStay
<1> QED
  BY <1>1, <1>3, <1>5, <1>6, <1>7 DEF IInv, NothingRests, OneOwn, ReadEmpty

\* One position more, under a new id.
LEMMA FillAdds ==
    ASSUME Typed, NEW side \in Sides, NEW stop \in Int, NEW lots, NEW own,
           MarketFill(side, stop, lots, own)
    PROVE  \E new :
             /\ positions' = positions \cup {new}
             /\ Booked(new)' /\ new.id > trades /\ new.own = own
             /\ \A x \in positions' : Booked(x)'
             /\ \A x, y \in positions' : x.id = y.id => x = y
             /\ trades' = trades + 1 /\ new.side * (new.stop - new.first) >= 0
<1> PICK new : new = [id |-> trades + 1, side |-> side, entry |-> price,
                      stop |-> stop, first |-> stop, lots |-> lots, own |-> own]
  OBVIOUS
<1>1. positions' = positions \cup {new} /\ trades' = trades + 1 /\ trades \in Nat
  BY DEF MarketFill, Typed
<1>2. /\ DOMAIN new = PositionFields /\ new.id = trades + 1 /\ new.side = side
      /\ new.entry = price /\ new.stop = stop /\ new.first = stop /\ new.own = own
  BY DEF PositionFields
<1>3. Booked(new)' /\ new.id > trades /\ new.side * (new.stop - new.first) >= 0
  BY <1>1, <1>2, BrokerAssumption DEF Booked, Typed, Levels, Sides
<1>4. ASSUME NEW x \in positions PROVE Booked(x)' /\ x.id # new.id
  BY <1>1, <1>2 DEF Typed, Booked
<1>5. \A x \in positions' : Booked(x)'
  BY <1>1, <1>3, <1>4
<1>6. \A x, y \in positions' : x.id = y.id => x = y
  BY <1>1, <1>4 DEF Typed
<1> QED
  BY <1>1, <1>2, <1>3, <1>5, <1>6

\* The leg of the lock is not a position of the engine.
LEMMA LockKeeps ==
    ASSUME mode = "market", IInv, Lock
    PROVE  IInv'
<1>1. Typed /\ NothingRests /\ OneOwn /\ StopsKept
  BY DEF IInv
<1>2. pc' = "top" /\ seen' = Unseen /\ UNCHANGED <<price, orders, mode, state, late>>
  BY DEF Lock, Again, aside
<1>3. DOMAIN seen' = SeenFields /\ seen'.price \in Int
  BY <1>2 DEF Unseen, SeenFields
<1>4. CASE positions' = positions /\ trades' = trades
  <2>1. Typed' /\ Own' = Own
    BY <1>1, <1>2, <1>3, <1>4 DEF Typed, Booked, Own
  <2>2. StopsKept'
    BY <1>1, <1>2, <1>4, StopsStay
  <2> QED
    BY <1>1, <1>2, <2>1, <2>2 DEF IInv, NothingRests, OneOwn, ReadEmpty
<1>5. CASE \E side \in Sides : \E lots : MarketFill(side, FarStop(side), lots, FALSE)
  <2>1. PICK side \in Sides : \E lots : MarketFill(side, FarStop(side), lots, FALSE)
    BY <1>5
  <2> PICK lots : MarketFill(side, FarStop(side), lots, FALSE)
    BY <2>1
  <2>2. FarStop(side) \in Int
    BY BrokerAssumption DEF FarStop
  <2>3. PICK new :
             /\ positions' = positions \cup {new}
             /\ Booked(new)' /\ new.id > trades /\ new.own = FALSE
             /\ \A x \in positions' : Booked(x)'
             /\ \A x, y \in positions' : x.id = y.id => x = y
             /\ trades' = trades + 1 /\ new.side * (new.stop - new.first) >= 0
    BY <1>1, <2>1, <2>2, FillAdds
  <2>4. Own' = Own
    BY <2>3 DEF Own
  <2>5. Typed'
    BY <1>1, <1>2, <1>3, <2>3 DEF Typed
  <2>6. StopsKept'
    BY <1>1, <1>2, <2>3, StopsStay
  <2> QED
    BY <1>1, <1>2, <2>4, <2>5, <2>6 DEF IInv, NothingRests, OneOwn, ReadEmpty
<1> QED
  BY <1>4, <1>5 DEF Lock, Sides

\* What the loop reads of one position.
LEMMA SyncedIs ==
    ASSUME Typed, OneOwn
    PROVE  /\ Synced \in [side: {-1, 0, 1}, entry: Int, sl: Int]
           /\ Own = {} => Synced.side = 0
           /\ \A x \in Own : Synced.side = x.side /\ Synced.sl = x.stop /\ x.side # 0
<1>1. CASE Own = {}
  BY <1>1 DEF Synced, Typed
<1>2. ASSUME NEW x \in Own
      PROVE  /\ Synced \in [side: {-1, 0, 1}, entry: Int, sl: Int]
             /\ Synced.side = x.side /\ Synced.sl = x.stop /\ x.side # 0
  <2>1. x \in positions
    BY DEF Own
  <2>2. Newest(Own) = x /\ Oldest(Own) = x
    BY ReadSingle
  <2>3. x.side \in Sides /\ x.entry \in Int /\ x.stop \in Int
    BY <2>1 DEF Typed, Booked
  <2>4. Synced = [side |-> x.side, entry |-> IF state.entry = 0 THEN x.entry ELSE state.entry,
                  sl |-> x.stop]
    BY <2>2 DEF Synced
  <2> QED
    BY <2>3, <2>4 DEF Typed, Sides
<1> QED
  BY <1>1, <1>2

\* The entry is reached with the book read as empty, or with a side; the trailing with
\* a stop that is not looser than the one just read, and so not beyond the first.
LEMMA ReadKeeps ==
    ASSUME mode = "market", IInv, Read
    PROVE  IInv'
<1>1. Typed /\ NothingRests /\ OneOwn /\ StopsKept
  BY DEF IInv
<1> PICK s : s = Synced
  OBVIOUS
<1>2. UNCHANGED <<price, orders, mode, trades, positions, late>>
  BY DEF Read, brokerVars, aside
<1>3. Own' = Own
  BY <1>2 DEF Own
<1>4. CASE Trails(s)
  <2>1. state' = Trailed(s) /\ pc' = "modify" /\ seen' = [seen EXCEPT !.id = Oldest(Own).id]
    BY <1>4 DEF Read, Goto
  <2>2. s \in [side: {-1, 0, 1}, entry: Int, sl: Int] /\ s.side # 0
    BY <1>1, <1>4, SyncedIs DEF Trails
  <2>3. PICK y \in Own : y = Oldest(Own) /\ s.side = y.side /\ s.sl = y.stop
    BY <1>1, <2>2, SyncedIs, ReadSingle
  <2> PICK new : new = seen.price - s.side * TrailPts
    OBVIOUS
  <2>4. new \in Int
    BY <1>1, <2>2, OmniAssumption DEF Typed
  <2>5. /\ state' \in [side: {-1, 0, 1}, entry: Int, sl: Int] /\ state'.side = s.side
        /\ state'.sl = IF s.side * (new - s.sl) > 0 THEN new ELSE s.sl
    BY <2>1, <2>2, <2>4 DEF Trailed
  <2>6. s.side * (state'.sl - s.sl) >= 0
    BY <2>2, <2>4, <2>5
  <2>7. \A x \in positions : x.id = seen'.id => x = y
    BY <1>1, <2>1, <2>3 DEF Typed, SeenFields, Own
  <2>8. DOMAIN seen' = SeenFields /\ seen'.price \in Int
    BY <1>1, <2>1 DEF Typed, SeenFields
  <2>9. Typed'
    BY <1>1, <1>2, <2>5, <2>8 DEF Typed, Booked
  <2>10. Near(seen.id, state.sl)' /\ seen'.id \in Int /\ seen'.id <= trades
    <3>1. y \in positions /\ y.side * (y.stop - y.first) >= 0 /\ Booked(y)
      BY <1>1 DEF Own, StopsKept, NotBeyond, Typed
    <3>2. seen'.id = y.id
      BY <1>1, <2>1, <2>3 DEF Typed, SeenFields
    <3>3. y.side * (state'.sl - y.first) >= 0
      <4>1. y.side \in {1, -1} /\ y.stop \in Int /\ y.first \in Int /\ state'.sl \in Int
        BY <2>5, <3>1 DEF Booked, Sides
      <4>2. y.side * (state'.sl - y.stop) >= 0
        BY <2>3, <2>6
      <4>3. CASE y.side = 1
        BY <3>1, <4>1, <4>2, <4>3
      <4>4. CASE y.side = -1
        BY <3>1, <4>1, <4>2, <4>4
      <4> QED
        BY <4>1, <4>3, <4>4
    <3> QED
      BY <1>2, <2>7, <3>1, <3>2, <3>3 DEF Near, Booked
  <2>11. StopsKept'
    <3>1. MovesInto'
      BY <1>2, <2>2, <2>5, <2>10 DEF MovesInto
    <3>2. NotBeyond' /\ LateInto'
      BY <1>1, <1>2 DEF StopsKept, NotBeyond, LateInto, Near
    <3> QED
      BY <3>1, <3>2 DEF StopsKept
  <2> QED
    BY <1>1, <1>2, <1>3, <2>1, <2>9, <2>11 DEF IInv, NothingRests, OneOwn, ReadEmpty
<1>5. CASE ~Trails(s)
  <2>1. state' = s /\ pc' \in {"top", "enter"} /\ (pc' = "enter" => seen' = seen) /\ seen' \in {seen, Unseen}
    BY <1>5 DEF Read, Goto, Again
  <2>2. Typed'
    BY <1>1, <1>2, <2>1, SyncedIs DEF Typed, Booked, Unseen, SeenFields
  <2>3. StopsKept'
    BY <1>1, <1>2, <2>1, StopsStay
  <2> QED
    BY <1>1, <1>2, <1>3, <2>1, <2>2, <2>3, SyncedIs DEF IInv, NothingRests, OneOwn, ReadEmpty
<1> QED
  BY <1>4, <1>5

\* A modification that is carried out replaces one stop by one that is not beyond the
\* first, and nothing else of the book.
LEMMA MovedKeeps ==
    ASSUME Typed, OneOwn, NotBeyond,
           NEW m, m.id \in Int, m.stop \in Int, Near(m.id, m.stop),
           positions' = Moved(m), UNCHANGED <<price, trades, state>>,
           DOMAIN seen' = SeenFields, seen'.price \in Int
    PROVE  Typed' /\ OneOwn' /\ NotBeyond' /\ (\A id, sl : Near(id, sl) => Near(id, sl)')
<1> DEFINE after(x) == IF x.id = m.id /\ ~Stopped([x EXCEPT !.stop = m.stop], price)
                       THEN [x EXCEPT !.stop = m.stop] ELSE x
<1>1. positions' = {after(x) : x \in positions}
  BY DEF Moved
<1>2. ASSUME NEW x \in positions
      PROVE  /\ DOMAIN after(x) = PositionFields
             /\ after(x).id = x.id /\ after(x).side = x.side /\ after(x).entry = x.entry
             /\ after(x).first = x.first /\ after(x).own = x.own
             /\ after(x).stop # x.stop => after(x).stop = m.stop /\ x.id = m.id
  <2>1. DOMAIN x = PositionFields
    BY DEF Typed, Booked
  <2> QED
    BY <2>1 DEF PositionFields
<1> HIDE DEF after
<1>3. ASSUME NEW y \in positions'
      PROVE  \E x \in positions :
                /\ y = after(x) /\ y.id = x.id /\ y.side = x.side /\ y.first = x.first
                /\ y.own = x.own /\ Booked(y)' /\ y.side * (y.stop - y.first) >= 0
  <2>1. PICK x \in positions : y = after(x)
    BY <1>1
  <2>2. Booked(y)'
    BY <1>2, <2>1 DEF Typed, Booked
  <2>3. y.side * (y.stop - y.first) >= 0
    BY <1>2, <2>1 DEF NotBeyond, Near
  <2> QED
    BY <1>2, <2>1, <2>2, <2>3
<1>4. \A y, z \in positions' : y.id = z.id => y = z
  BY <1>3 DEF Typed
<1>5. Typed'
  BY <1>3, <1>4 DEF Typed
<1>6. OneOwn'
  <2> SUFFICES ASSUME NEW y \in positions', NEW z \in positions', y.own, z.own PROVE y = z
    BY DEF OneOwn, Own
  <2> QED
    BY <1>3 DEF OneOwn, Own
<1>7. NotBeyond' /\ (\A id, sl : Near(id, sl) => Near(id, sl)')
  BY <1>3 DEF NotBeyond, Near
<1> QED
  BY <1>5, <1>6, <1>7

\* What was sent is carried out, lost, or on its way from here on.
LEMMA ModifyKeeps ==
    ASSUME mode = "market", IInv, Modify
    PROVE  IInv'
<1>1. /\ Typed /\ NothingRests /\ OneOwn /\ NotBeyond /\ LateInto
      /\ state.side # 0 /\ seen.id \in Int /\ seen.id <= trades /\ Near(seen.id, state.sl)
  BY DEF IInv, Modify, StopsKept, MovesInto
<1>2. UNCHANGED <<price, orders, mode, trades, state>>
  BY DEF Modify
<1>3. pc' \in {"top", "enter"} /\ seen' \in {seen, Unseen} /\ state'.side # 0
  BY <1>1, <1>2 DEF Modify, Goto, Again
<1>4. DOMAIN seen' = SeenFields /\ seen'.price \in Int
  BY <1>1, <1>3 DEF Typed, SeenFields, Unseen
<1> PICK sent : sent = [id |-> seen.id, stop |-> state.sl]
  OBVIOUS
<1>5. sent.id = seen.id /\ sent.stop = state.sl /\ sent.id \in Int /\ sent.stop \in Int
  BY <1>1 DEF Typed
<1>6. CASE positions' = Moved(sent) /\ late' = late
  <2>1. Typed' /\ OneOwn' /\ NotBeyond' /\ (\A id, sl : Near(id, sl) => Near(id, sl)')
    BY <1>1, <1>2, <1>4, <1>5, <1>6, MovedKeeps
  <2>2. LateInto'
    BY <1>1, <1>2, <1>6, <2>1 DEF LateInto
  <2> QED
    BY <1>1, <1>2, <1>3, <2>1, <2>2 DEF IInv, NothingRests, ReadEmpty, StopsKept, MovesInto
<1>7. CASE positions' = positions /\ late' \subseteq late \cup {sent}
  <2>1. Typed' /\ OneOwn' /\ NotBeyond'
    BY <1>1, <1>2, <1>4, <1>7 DEF Typed, Booked, OneOwn, Own, NotBeyond
  <2>2. LateInto'
    BY <1>1, <1>2, <1>5, <1>7 DEF LateInto, Near
  <2> QED
    BY <1>1, <1>2, <1>3, <2>1, <2>2 DEF IInv, NothingRests, ReadEmpty, StopsKept, MovesInto
<1> QED
  BY <1>6, <1>7 DEF Modify

\* When it arrives, it still is not beyond the first stop of a position with its id.
LEMMA ModifyLateKeeps ==
    ASSUME mode = "market", IInv, ModifyLate
    PROVE  IInv'
<1>1. Typed /\ NothingRests /\ OneOwn /\ ReadEmpty /\ NotBeyond /\ MovesInto /\ LateInto
  BY DEF IInv, StopsKept
<1>2. PICK m \in late : late' = late \ {m} /\ positions' = Moved(m)
  BY DEF ModifyLate
<1>3. UNCHANGED <<price, orders, mode, trades, state, seen, pc>>
  BY DEF ModifyLate, engineVars
<1>4. Typed' /\ OneOwn' /\ NotBeyond' /\ (\A id, sl : Near(id, sl) => Near(id, sl)')
  BY <1>1, <1>2, <1>3, MovedKeeps DEF LateInto, Typed
<1>5. LateInto' /\ MovesInto'
  BY <1>1, <1>2, <1>3, <1>4 DEF LateInto, MovesInto
<1>6. Own = {} => Own' = {}
  <2> SUFFICES ASSUME NEW y \in positions', y.own PROVE Own # {}
    BY DEF Own
  <2>1. PICK x \in positions : y = x \/ y = [x EXCEPT !.stop = m.stop]
    BY <1>2 DEF Moved
  <2>2. x.own
    BY <1>1, <2>1 DEF Typed, Booked, PositionFields
  <2> QED
    BY <2>2 DEF Own
<1> QED
  BY <1>1, <1>3, <1>4, <1>5, <1>6 DEF IInv, NothingRests, ReadEmpty, StopsKept

\* The one step that opens a position of the engine finds none.
LEMMA EnterMarketKeeps ==
    ASSUME mode = "market", IInv, EnterMarket
    PROVE  IInv'
<1>1. Typed /\ NothingRests /\ Own = {} /\ StopsKept
  BY DEF IInv, EnterMarket, MayEnter, ReadEmpty
<1>2. pc' = "oco" /\ UNCHANGED <<price, orders, mode, seen, late>>
  BY DEF EnterMarket, Goto, aside
<1>3. PICK res \in BOOLEAN :
         /\ ExecuteOpen(Signal, seen.price - Signal * SlPts, res)
         /\ state' = IF res THEN [state EXCEPT !.side = Signal, !.entry = seen.price] ELSE state
  BY DEF EnterMarket
<1>4. Signal \in Sides /\ seen.price - Signal * SlPts \in Int
  BY <1>1, OmniAssumption DEF EnterMarket, Signal, Sides, Typed
<1>5. state' \in [side: {-1, 0, 1}, entry: Int, sl: Int]
  <2> DEFINE opened == [state EXCEPT !.side = Signal]
  <2>1. opened \in [side: {-1, 0, 1}, entry: Int, sl: Int]
    BY <1>1, <1>4 DEF Typed, Sides
  <2> HIDE DEF opened
  <2>2. [opened EXCEPT !.entry = seen.price] \in [side: {-1, 0, 1}, entry: Int, sl: Int]
    BY <1>1, <2>1 DEF Typed
  <2>3. [state EXCEPT !.side = Signal, !.entry = seen.price] \in [side: {-1, 0, 1}, entry: Int, sl: Int]
    BY <2>2, Zenon DEF opened
  <2> QED
    BY <1>1, <1>3, <2>3 DEF Typed
<1>6. CASE positions' = positions /\ trades' = trades
  <2>1. Typed' /\ Own' = Own
    BY <1>1, <1>2, <1>5, <1>6 DEF Typed, Booked, Own
  <2>2. StopsKept'
    BY <1>1, <1>2, <1>6, StopsStay
  <2> QED
    BY <1>1, <1>2, <2>1, <2>2 DEF IInv, NothingRests, OneOwn, ReadEmpty
<1>7. CASE MarketFill(Signal, seen.price - Signal * SlPts, 1, TRUE)
  <2>1. PICK new :
             /\ positions' = positions \cup {new}
             /\ Booked(new)' /\ new.id > trades /\ new.own = TRUE
             /\ \A x \in positions' : Booked(x)'
             /\ \A x, y \in positions' : x.id = y.id => x = y
             /\ trades' = trades + 1 /\ new.side * (new.stop - new.first) >= 0
    BY <1>1, <1>4, <1>7, FillAdds
  <2>2. Own' = {new}
    BY <1>1, <2>1 DEF Own
  <2>3. Typed'
    BY <1>1, <1>2, <1>5, <2>1 DEF Typed
  <2>4. StopsKept'
    BY <1>1, <1>2, <2>1, StopsStay
  <2> QED
    BY <1>1, <1>2, <2>2, <2>3, <2>4 DEF IInv, NothingRests, OneOwn, ReadEmpty
<1> QED
  BY <1>3, <1>6, <1>7 DEF ExecuteOpen

-----------------------------------------------------------------------------
(* The theorems. *)

\* Every step keeps the invariant.
LEMMA Step ==
    ASSUME mode = "market", IInv, [Next]_vars
    PROVE  IInv'
<1>1. CASE Top \/ Cancel \/ QuoteFails \/ Quote \/ Hedge \/ ReadFails \/ NoEntry
           \/ EnterLongStop \/ EnterShortStop \/ Oco \/ PendingEnds \/ Restart
  BY <1>1, QuietKeeps
<1>2. CASE Flatten \/ Lock \/ Read \/ EnterMarket
  BY <1>2, FlattenKeeps, LockKeeps, ReadKeeps, EnterMarketKeeps
<1>3. CASE Modify \/ ModifyLate \/ Broker
  BY <1>3, ModifyKeeps, ModifyLateKeeps, BrokerKeeps
<1>4. CASE UNCHANGED vars
  BY <1>4 DEF vars, brokerVars, engineVars, aside, IInv, Typed, Booked, NothingRests, OneOwn,
              Own, ReadEmpty, StopsKept, NotBeyond, MovesInto, LateInto, Near
<1> QED
  BY <1>1, <1>2, <1>3, <1>4 DEF Next, Engine

\* In the other mode nothing is claimed, and a run does not change its mode.
LEMMA Inductive == IInv /\ [Next]_vars => IInv'
<1> SUFFICES ASSUME IInv, [Next]_vars PROVE IInv'
  OBVIOUS
<1>1. CASE mode = "market"
  BY <1>1, Step
<1>2. CASE mode # "market"
  <2>1. mode' = mode
    BY DEF Next, Engine, Broker, vars, aside, Top, Cancel, Flatten, QuoteFails, Quote, Hedge,
           Lock, ReadFails, Read, Modify, ModifyLate, NoEntry, EnterLongStop, EnterShortStop,
           EnterMarket, Oco, PendingEnds, Restart
  <2> QED
    BY <1>2, <2>1 DEF IInv
<1> QED
  BY <1>1, <1>2

\* With market entries the engine never has two positions, whichever replies are lost,
\* reads fail, and restarts or floor breaches come between two awaits
\* (omni_breakout_engine.py:904-908, 994, 1028-1032).
THEOREM NeverStacks == Spec => []OnePosition
<1>1. IInv => OnePosition
  <2> SUFFICES ASSUME IInv, mode = "market" PROVE Cardinality(Own) <= 1
    BY DEF OnePosition
  <2>1. CASE Own = {}
    BY <2>1, FS_EmptySet
  <2>2. CASE \E x : Own = {x}
    BY <2>2, FS_Singleton
  <2> QED
    BY <2>1, <2>2 DEF IInv, OneOwn
<1> QED
  BY <1>1, Start, Inductive, PTL DEF Spec

\* With market entries no stop is ever beyond the one its position was opened with: not by
\* the trailing that starts from the entry of an earlier trade, and not by what arrives
\* after a time-out, when the engine has read and sent again (omni_breakout_engine.py:921,
\* 935-968).
THEOREM StaysNear == Spec => []NoStopBeyondFirst
<1>1. IInv => NoStopBeyondFirst
  BY DEF IInv, StopsKept, NotBeyond, NoStopBeyondFirst
<1> QED
  BY <1>1, Start, Inductive, PTL DEF Spec
=============================================================================
