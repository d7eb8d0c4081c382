# TLA+ models of odin-ftmo-v2

odin-ftmo-v2 trades one FTMO account at one broker with several programs.  Each
trading engine is a process with its own strategy; all of them share the account,
its positions and its one synchronization slot at MetaApi.  This directory models
the parts of the repository in which a mistake costs money and a test hardly
reaches: who sends which order when, what is believed after a call failed, who
may touch the connection, and which programs decide the same thing twice.  Prices
are points or levels of a small grid, indicators what they decide ("a setup
triggered"), money and lots small units where a property is about them.

Every definition is translated from the source; `PROJECT.json` ("map") gives the
lines each one stands for, so that a change to those lines is a change to review
here.

## The system

| part | files | state it keeps | operations | interacts with |
|---|---|---|---|---|
| market-entry engines | `griff_engine_us100.py`, `griff_engine_gold.py`, `modules/entry_guard.py`, `modules/book_sync.py` | state, managed position, unreconciled-attempt flag, resync tracker; gold: range and day flag | `step()` every 15 s: connect, resync, hard close, guard, setup, place, check | broker, through the hub or directly |
| pending-order engine | `griff_engine_live.py` | state, leg, managed position and its stop, unconfirmed cancels, reconciled flag | `step()` every poll interval: adopt, reconcile, confirm cancels, expire, place, ratchet | the same |
| hub owner | `metaapi_hub/owner.py`, `broker.py`, `locks.py`, `errors.py` | connected flag, epoch, three locks, recent orders, candle flights and cache | ensure_connected, recover, read, mutate, historical_candles | one task per request of any engine; MetaApi |
| hub session | `metaapi_hub/client.py`, `server.py`, `adapter.py`, `factory.py`, `protocol.py` | client: attached, pending replies, `reattaches`; server: connections | attach, request, resend of reads, hello, unregister | engines on one side, owner on the other |
| direct wrapper | `MetaApiWrapper.py` | an SDK connection per engine | reads and orders; a failed read answers `None` | engines when the hub is off |
| London and Omni engines | `london_reversal_engine_live.py`, `omni_breakout_engine.py` | range of the day, side, halted flag, cached reads, trailing stop | one long loop each: entries, trailing, hedging, cancelling, flattening at the end of the session | broker through the wrapper |
| strategy modules | `modules/{entry,exit,filters,pyramid,risk}` | tranches, trailing stop, recent results | pure decisions on a candle, a day, an account | London, Omni, paper trader, backtester |
| paper trader, backtester | `paper_trader.py`, `backtester/` | virtual accounts, positions | replay of candles | strategy modules; the backtester has copies of some |
| tournament | `backtester/tournament.py` | tasks open, results so far, the export directory | screen, dispatch to workers, collect, rank, export | backtester in worker processes; the paper trader reads the files |
| profile verifier, fuzzer | `verifier/`, `fuzzer/` | none (a verdict on a profile; ten losing trades are simulated) | schema, incompatibility, sizing and five invariants, in OCaml, Python and Haskell | the Python one admits profiles to paper trader and tournament |
| scripts, data tools | root `*.py`, `scripts/`, `data/`, `backtest_suite/` | none | run once and stop | - |

The behaviours that are hard, and where they bite (`PROJECT.json`, "hazards", has
each at its line):

- a call can fail with its effect done (an order filled, a cancel carried out, a
  stop moved), with its effect still to come (the hub goes on with a request its
  client gave up on), or without effect; the engine sees one and the same error;
- a read that failed says nothing; several layers turn it into an exception, a
  `None` or an empty list;
- processes die and restart with positions and pending orders at the broker;
- engines share an account, so each must recognise what is its own;
- inside the hub, tasks interleave at every await over one stream that may be
  lost, over locks taken in different orders, and may be cancelled half-way;
- the broker moves between any two awaits: fills, stops, manual deletions;
- the London and Omni engines act on what an earlier await or a cache said, on a
  hedging account where an opposite order closes nothing;
- a simulator applies tranches, partial closes, trailing and stop of one candle in
  an order of its own; a backtest and the paper trader share only some of the code;
- one decision on a profile is programmed three times, in three languages, with
  tables and roundings of its own.

## The modules

| module | models | theorems |
|---|---|---|
| `MarketEntry` | both market-entry engines, guard, resync, broker, trading day | `MarketEntryProofs` |
| `GriffPending` | the pending-order engine and the broker's two books | `GriffPendingProofs` |
| `GriffSimulation` | the pending-order strategy on a simulated account | `GriffSimulationProofs` |
| `SyncOwner` | the hub's owner, one broker stream | `OwnerProofs` |
| `SyncSlot` | abstract specification: what the owner promises of the slot | (implemented by `SyncOwner`) |
| `CandleFlight` | the single-flight candle fetch of one key | `OwnerProofs` |
| `HubSession` | client and server of the hub, sockets between them | `HubSessionProofs` |
| `HubCall` | abstract specification: what an engine may conclude from the outcome of a change | (implemented by `HubSession`) |
| `SessionBroker` | the account as the two session engines meet it: price, resting orders, positions, hours | - |
| `OmniEngine` | the US-open breakout engine over `SessionBroker` | `OmniProofs` |
| `LondonEngine` | the Asian-range reversal engine over `SessionBroker` | `LondonProofs` |
| `Position` | exits and pyramids as operators on one position and one candle | its lemmas in `TradeProofs` |
| `Simulators` | paper trader and backtester over `Position` | `TradeProofs` |
| `Strategy` | entry modes, filters, risk models, sizing, with the backtester's copies, over `Position` | `TradeProofs` |
| `Tournament` | the search for the best profiles over a pool of workers, and the export | `TradeProofs` |
| `ProfileVerifier` | the three programs that decide on a strategy profile | - |

Each `.cfg` instantiates the module directly: the constants are sets of model
values and small numbers, and no definition is replaced.  The `Bug_` operators are
defects a change could plausibly introduce (a dropped guard, a swapped order); no
action uses them.  `PROJECT.json` ("mutants") says which definition one would stand
in for and which property then fails, so that every property is known to be able
to fail; those not listed there serve the properties of the `_full` configurations.

The live programs are asyncio coroutines.  A coroutine is atomic between two
awaits, so an action is what runs from one await to the next, `pc` is the await,
and everything else (other tasks, the broker, the clock, a crash) may happen in
between.  The simulators and the pure modules have no awaits: one action is one
candle, or one decision.

### MarketEntry

`engine` selects the program, so a run checks both.  `pc` walks through `step()`:
`StepBegin`, `ConnectOk`/`ConnectFail`, `Sync` (the resync of `book_sync.py`),
`Dispatch`, the hard close (`HardRead`, `CloseOne`), the search (`Recheck`,
`Capture` for gold's range, `Setup`, `Confirm`), the order (`Send`, then
`AckSuccess`, `AckRefused` or `AckLost`, `Settled` for the two-second wait,
`Reconfirm`) and `Check` for a managed trade.  `order` is the broker's life of
each ticket; `Execute` fills or kills a sent order, `StopOut` closes a position.
`HubMode` picks what a failed read looks like: an exception through the hub, `None`
from the direct wrapper.  `LateFills` says whether an order may be executed
after the engine has looked at the book again.  `Sharing` are positions another engine
opens on the same symbol (`OthersTrade`): `Matching` takes symbol or comment, as
`matching_positions` does, and so adopts them.  What is claimed of the engine's own
fills holds beside them (`NoDoubleBook` counts its own orders, `NoFillForgotten` says
that it knows of each until it closes); that it manages only its own is `ManagesOwnOnly`,
which does not hold.

Two ghosts are history for the properties only: `sentToday` and `bookedToday`
(gold's orders of the day).

### GriffPending

`book` and `open` are the broker's pending orders and positions that carry the
engine's comment; an order keeps its id when it fills.  `step()` is the chain of
awaits `sync`, `reconcile`, `strays`, `retry`, `gate`, `candles`, `search`,
`place`, with the sub-protocol `request`, `confirm` of
`cancel_orders_until_confirmed` and `why` for its caller.  A setup places the leg
of the trend only, never both, so `leg` is one slot.  `BookFails` lets
`get_orders_rest` fail, `LostReplies` names the requests that may be carried out
without an answer, in the runs placements and modifications.  A stop loss is a number,
higher is tighter; `sl` is the engine's copy of it.

### GriffSimulation

`GriffSimulationEngine` of `griff_engine_live.py` with the functions for inside bar,
lots, initial stop and ratchet.  A step is a completed hour: `Halt`, `Search`,
`Pending` (the long order first, else the short one, else both expire), `StopExit` or
`Trailed`.  Prices are half points and money cents, so that one and a half ATR and 1 %
are exact; a tie of `round` goes either way.  An hour that finds no setup changes
nothing and is the stutter.

### SyncOwner and SyncSlot

Every request is a task of `Procs`.  `syncLock`, the gate (counted as the readers in
`invoke`, `invoke2`) and the order lock (the mutator in `invoke`) are as in
`owner.py`; `phase` is what the holder of `_sync_lock` does; `slot` is the
broker's stream and `leaked` a stream whose close was abandoned and which upstream
still counts.  `moved` stands for "the epoch has changed since I captured it": the
epoch itself would be unbounded and only the comparison matters.  `Cancel` is the
cancellation of a candle task at any await, with the `finally` blocks it runs.
A call to the SDK may end at any time or never.  An order whose call failed may still
be carried out: `adrift`, until it is `Decided`.

`SyncSlot` says in five actions what the rest of the hub relies on: one task at a
time works on the slot, close before open, up only from opening.  `SyncOwner`
implements it under `holder <- syncLock`, checked by TLC (`ImplementsSlot`) and
proved (`Implements`).

### CandleFlight

One key of `historical_candles`: `Join`, `Launch`, the three ways a waiter leaves
(`LeaveDone`, `LeaveOthers`, `LeaveLast`), and the flight's own steps (`Loaded`,
`Refused`, `Failed`, `TimedOut`, `Retry`).  A flight is a name that is used again once
nobody refers to it.  `orphans` counts broker calls that timed out and go on without
a permit of the read gate (so `--read-concurrency 1` is not strict serialization, as
`docs/metaapi_hub/RUNBOOK.md` calls it).  `good` is the age class of the last good
answer.  It is a
module of its own because the flights of a key share nothing with the rest of the
owner but the read gate, where they are the `Candles` of `SyncOwner`.

### HubSession and HubCall

Both ends of one engine's session.  A request of the engine is a task, `call[c].pc`
its await: `want` (for `_attach_lock`), `opening`, `hello`, `wait`.  A socket is two
queues of frames, each end of which can close (`clientEnd`, `serverEnd`); the hub
process stops and starts, and what it holds is lost.  `Reattach`, `OpenSocket`,
`Hello`, `HelloAnswered`, `Retry`, `Failed` are `_reattach` and `_attach` with their lock
and attempts; `Send`, `Return`, `TimeOut`, `Cancel` are a request, the resend of a read,
its timeout and the engine's own `wait_for`; `Deliver` and `ReaderEnds` the client's
reader; `Dispatch`, `Finish`, `Reply`, `HandlerEnds` the server, one task for each
frame.  `ready` is the order in which the event loop resumes tasks whose future is
set: without it a reply and the end of its socket could overtake each other.

`HubCall` says in two actions what an engine may rely on: a change is handed to the
owner at most once; "ok" and "error" mean it was, "refused" and "not connected" that
it never will be, and "closed", "timeout" and "cancelled" mean nothing at all.
`HubSession` implements it, checked by TLC (`HonoursContract`) and proved
(`ChangesHonoured`).  `MarketEntry` starts from that promise: its
lost acknowledgements are the unknown outcomes, its `reattached` is the counter that
`ReattachIsSeen` is about.

### SessionBroker, OmniEngine, LondonEngine

`SessionBroker` is the environment both engines share: a price that moves one level
at a time, resting stop and limit orders that fill when it reaches them, a stop for
each position, positions closed by hand or by their take profit, the three parts of
the day.  `own` is the engine's comment prefix.  Positions are a set told apart by ids,
which grow as they are opened, so the first and the last of the broker's list are the
oldest and the newest; orders that rest are a bag, since two may be equal.

`OmniEngine` is the loop of `omni_breakout_engine.py`, with `pc` the await it stands at
(the header lists them).  `mode` is the entry mode: two stop orders beyond the range,
or a market order.  `seen` is what the current iteration has read, so that a later
await acts on what may be stale; a `Quote` that finds the equity below the floor goes
on to `Hedge` and `Lock`; `Restart` is the unit file.  A stop modification is carried out
at once, never, or after its five seconds: `late` holds those on their way, which arrive
in any order (`ModifyLate`).  A position remembers the stop it was opened with (`first`).

`LondonEngine` is the loop of `london_reversal_engine_live.py`.  Its reads go through
caches with ages: `Refreshed` answers, fails and keeps the old value with a new time,
or is not asked at all; `asked` is the age and `cache` the value.  `mode` is a pair
of limit orders or a market order at the sweep.  `tradedDay` is a history variable
for one property.

### Position, Simulators, Strategy

`Position` has prices as points in the trade's favour, counted from the entry, which
makes longs and shorts the same.  `CheckExit` is `check_exit` with the seven exit
models, `ScaledIn` and `ScaledOut` are the pyramid manager.  `Simulators` composes them
the way each program does: `PaperManaged` scales out, scales in with the cap and then
checks the exits; `BacktestManaged` scales in, scales out and books half, then checks.
`Fed` are candles with the close at one end; which close it is decides nothing but
the price of an exit.  `Priced` takes half the spread and the slippage off every exit
of the paper trader (`ExitCost`); the breaker and the last hour close at the candle's
close, whatever the stop (`PaperSteps`).

`Strategy` is the decision before a trade: the filters look at the day, the account
is sized, the candles are shown to the entry mode.  Each stage is given an input
(`asked`), drawn from a product set, and decides (`at`).  What exists twice is defined
twice: `ShouldTrade` and `BacktestTrades`, `RiskPct` and `BacktestRiskPct`,
`InitialStop` and `BacktestStop`, `ComputeLots` and `BacktestLots`.  An ATR of 0 is
none: the simulators then size for a fixed distance, the exits take 40 points for it.

### Tournament

`screened` are the profiles that passed the screening, each with one task for every
window; `Collect` takes the results in whatever order the workers finish, `Evaluate`
joins and ranks them when all are in, `Clear` removes the files of the tournament before
from the export directory one at a time and `Write` adds the new ones, each made from the
id of its profile.  `Abort` is a worker that dies or a program that is stopped, between
any two of these or in the middle of a write (`Torn`).  A result is
a window's Sharpe ratio and drawdown; the other two metrics of the score are the same
for all.

### ProfileVerifier

The decision on a profile as functions: `OcamlVerdict` (`parse_profile`,
`check_incompatibilities`, `verify_profile`), `PythonVerdict` (`validate_profile` with
its schema check in front) and `FuzzVerdict` (`Model.hs`), over the three instrument
tables.  What the programs compute by the same formula (`BaseRisk`, `Loss`, the
capped size, one simulated losing trade) is defined once; what differs has a
definition each: tables and their defaults, rounding (half away from zero in OCaml,
half to even in Python and Haskell), what is made of an unknown filter, of
`max_tranches: 3.0` and of a text where a number belongs, the rules on the stop and
the base lot that Haskell lacks.  A behaviour is one profile of `Shapes` (all
combinations of the dimensions) or `Sizes` (all combinations of the numbers) and its
three verdicts.  Money is in whole cents and lots in hundredths, within the integers
of TLC.

## The runs

| run | asks | result |
|---|---|---|
| `market_entry` | can an engine double-book, forget a fill of its own, trade gold twice a day, act before the sync it owes, take unknown for flat, or leave an attempt unreconciled? | all hold |
| `sync_owner` | does the owner implement `SyncSlot` under every interleaving, believe in a stream only while there is one, send an order once, and end every call that is not behind an SDK call that never ends? | all hold |
| `candle_flight` | is one fetch at most under way, and every waiter answered? | all hold |
| `griff_pending` | is any order forgotten, a trade given up over a position, a breakout window left open? | all hold |
| `griff_simulation` | does a simulated account halt with nothing at work, and no trade take it more than 1 % below the limits? | all hold |
| `profile` | do the three programs agree where they should, and do the profiles they admit survive a losing run of forty trades? | all hold |
| `hub_session` | does a session keep `HubCall`, stay registered, count its reattaches, leak nothing and end every request? | all hold |
| `omni_engine` | with market entries, can two positions stack or a stop get farther than the first; does the end of the day leave the account flat? | all hold |
| `london_engine` | does an entry meet an open position, a pair another pair, or a day a second trade, over stale caches; do opposites stay? | all hold |
| `simulators` | can a candle pass a stop or loosen it, can an exit by stop, target or time cost more than the initial stop and the exit cost? | all hold |
| `strategy` | is an entry filled where the candle traded, do the two copies of filters, risk models and stops agree, can an initial stop cost more than 1 %, or 3 % where the stop is farther than what was sized? | all hold |
| `tournament` | are the whole new files the best of the good profiles, never beside old ones, whatever the order of the results, and wherever it stops? | all hold |

### Further configurations

These are not among the runs of `PROJECT.json`, to keep a check of the whole project
short; each is run with `tlc -config X.cfg M`, M being the part before the underscore.

`MarketEntry_full`, `SyncOwner_full`, `CandleFlight_full`, `GriffPending_full`,
`GriffSimulation_full`, `ProfileVerifier_full`, `HubSession_full`, `OmniEngine_full`,
`LondonEngine_full`, `Simulators_full` and `Tournament_full` check every property of
their module on the instance of the run, the type invariants included; all hold.
`Simulators_full` has the cap of the paper account too (`PaperCapped`).

The others each end in a counterexample to something the repository says:

| configuration | property | what the counterexample shows |
|---|---|---|
| `MarketEntry_direct` | `KeepsOnUnknown` | `book_sync.py:24`: "A failed read is *unknown*, never *flat*".  The direct wrapper answers `None` for a failed read (`MetaApiWrapper.py:99-118`), `matching_positions` makes an empty list of it (`entry_guard.py:69`), and a trade whose position is open is ended |
| `MarketEntry_hardclose` | `HardCloseFlattens` | `griff_engine_gold.py:8`: "Hard close of all positions at 16:00 EST".  The loop (313-319) passes over a position it knows by its comment alone and swallows a close that fails; 320-321 declare the engine flat in every case |
| `MarketEntry_late` | `NoDoubleBook` | `entry_guard.py:14-17` says its rules close the gap of a place error.  The client gives up after 30 s while the hub goes on with the order (`server.py:123-126`, `owner.py:549`): it fills after the engine has read a flat book and sent another |
| `SyncOwner_reconnect` | `OneReconnectPerDisconnect` | `owner.py:272`: "One reconnect for every engine that observed the same disconnect."  The epoch moves in `_recover` only; after a reconnect by `ensure_connected` a reader of the lost stream closes the new one |
| `HubSession_close` | `NoReattachAfterClose` | `tests/metaapi_hub/test_resilience.py:137`: "detach() is the engine's own close: no further reattach happens."  `_closed` is looked at once, before the attempts (`client.py:165`): a request between two of them opens a socket after `close()`, and nobody closes it |
| `GriffPending_adopt` | `AccountedFor` | `griff_engine_live.py:925`: "account for every GRIFF_ pending order on this symbol".  With a position open, 1160 sets `pending_orders_reconciled` though the order book could not be read; an order of the previous process stays, tracked by nobody |
| `GriffPending_ratchet` | `NeverLoosened` | `docs/metaapi_hub/FAILURE_MODES.md:34`: "tightening the stop".  A modification carried out after its 8 s (1198) leaves the old copy of the stop, from which the next one is computed |
| `OmniEngine_lock` | `LockHolds` | `omni_breakout_engine.py:633`: "Engage 1:1 net exposure hedge lock to freeze equity mark-to-market."  The flatten that follows (567-629) closes the positions whose comment carries the engine's prefix; the lock's own leg has another comment and stays, alone |
| `LondonEngine_flatten` | `FlattenCloses` | `london_reversal_engine_live.py:210`: "Close all open positions on the account at market."  The opposite orders of 230-237 open positions on a hedging account |
| `Simulators_pyramid` | `PyramidsScaleIn` | `backtester/engine.py:4`: "all 5 design dimensions (risk sizing, entry mode, pyramiding, exit model, market filters)".  Its own `PyramidModel` (56) is handed to `modules.pyramid.PyramidManager` (698, 854), which keeps what is no string as it is (`manager.py:74`) and compares it with its own Enum: members of two Enum classes are never equal, so every pyramid of the backtester is `no_pyramid` |
| `ProfileVerifier_parity` | `ExactParity` | `validator.py:5`: "exact semantic parity to the OCaml formal verifier".  Its table has 10 of the 23 instruments the verifier and the schema know |

### Bounds

- `MarketEntry`: two tickets, one of them reported under an alias of the symbol,
  one position of another engine on the symbol and one on another.  Two orders are what a double booking takes; a third
  would only repeat it.  The alias and the others' positions exist so that the
  symbol filter, the comment filter and no filter differ.  The day is cyclic, so
  runs over several days are included; a ticket is spent once sent.
- `SyncOwner`: two readers (one cancellable), two equal orders, one permit, two
  attempts of each loop.  Two readers over one permit make the gate a
  queue; a reader and an order give every conflict over the slot, two orders every
  conflict over the window and the order lock.
- `CandleFlight`: three requests, three flights, three attempts, at most two
  abandoned calls.  Three requests are needed for one to wake late from a finished
  flight while two others share its successor.
- `GriffPending`: two ids, stops 0..2, one restart.  An id is free again when its
  order is gone, so order sequences are unbounded; two ids let an
  order be unconfirmed while another is placed.
- `GriffSimulation`: two trades from just above the daily limit, so that the second
  starts as near to it as the first has left the account; six prices, ATRs at which
  the cap of 50 lots binds and does not, a floor below and one above the daily limit.
- `ProfileVerifier`: all 23 instruments and one that is listed nowhere; stops on both
  sides of the chandelier limit and zero; base lots of none, an exact half hundredth,
  the crypto cap and two sizes whose losses bring the account to the floor within and
  after the simulated run; caps and risk bounds that do and do not bind; equities at
  the thresholds of the risk ramp.  `Streak` (40) is more trades than it takes the
  smallest risk to bring the account from its equity to the emergency floor.
  Verified GBPUSD and AUS200 profiles exist for which five spreads of slippage on top
  of the circuit breaker pass the 5% limit; `prop_circuit_breaker_buffer` of the
  fuzzer excludes that, but its generator draws four other instruments only.

- `HubSession`: a read under the engine's `wait_for` and a change; three sockets, the
  hub stops once, `connect()` is called up to twice, two attempts.  A reattach takes
  two sockets, a hello that is late on a lost one a third.
- `OmniEngine`: six levels around a range of one, two trades, two resting orders, one
  day, one floor breach, restart or late modification (`OmniEngine_full`: two of them).
  Two trades are what stacking, an old entry price and a lock need; the levels leave room
  for a trailing stop to move twice.
- `LondonEngine`: four levels, two trades, two resting orders, one day, one restart:
  both legs of a pair can fill, and an entry can follow a stopped one.  With one day,
  that a new range does not reopen the day is left to `TradesOnceADay`.
- `Simulators`: eleven prices, one on each side of every distance the code names (15,
  20, 30 points, the ATR, the initial stops); two days, so that the daily reset meets
  an open position; an ATR below the fixed distances; a plan of 0.04 lots, whose
  thirds and quarters round; an exit that costs a point.
- `Strategy`: eleven levels around a range of forty points, at its edges, at the
  buffers and spreads; widths at the gates' bounds; equities at the brackets of the
  ramp; wins and losses twenty apart, whose Kelly fraction leaves the clamp on both
  sides; up to three filters at a time, as the tournament combines them; no ATR, one
  at which the clamp of the volatility model binds, and one (30) at which a chandelier
  stop is farther than the 75 points Omni sizes for.

- `Tournament`: three profiles over two windows with two places, so that one is left
  out; two files of the tournament before; equal scores, windows without candles, failed backtests, Sharpe ratios on both
  sides of zero.  `Tournament_full` has drawdowns on both sides of 8 % and one place.

`MaxRestarts`, `MaxStop`, `MaxOrphans`, `MaxSockets`, `MaxStops`, `MaxConnects`,
`MaxTrades`, `MaxFaults`, `MaxOrders`, `MaxDays` are the bounds that cut behaviour off;
each is a guard on the action it bounds.  The safety theorems hold for every value of
those of their modules.

### Fairness

- A running engine keeps stepping (`WF(EngineStep)`, `WF(Step)`): `run_loop` of
  each engine catches every exception, sleeps, and calls `step()` again; every
  await has a timeout, and what it waits for (a socket, a future) can be cancelled.
- A broker asked for ever answers sometimes: `SF` on the good outcome of reads and
  of cancels, and on `ConnectOk`.  This is an assumption on the environment,
  without which no engine can promise anything; each property that needs it says
  "in the end".  `Crash`, `Halt`, fills, stops and losses of the stream are never
  fair: they may happen and need not.
- A hub task to which a lock or a permit is free again and again gets it
  (`SF(OwnStep(p))`): asyncio locks and semaphores are FIFO.  Nothing is assumed of the
  SDK calls made under them, though each has a timeout: on Python 3.9 `asyncio.wait_for`
  returns only when the task it has cancelled ends (`owner.py:423-428`,
  `docs/metaapi_hub/FAILURE_MODES.md:42`), so a read, an order or a close may hold its
  permit or lock for ever.  Candle reads are abandoned (`owner.py:430-446`) and do end
  (`WF(CallReturns(p))`).  `CallEnds` therefore says that a call ends, again and again,
  or that it is for ever behind an SDK call that does not.
- A flight ends and its waiters wake (`WF`); cancellation is owed to nobody.
- A request of the engine goes on as long as it can (`WF` per caller in `HubSession`):
  every await of `client.py` has a timeout, so nothing is assumed of the hub, which
  may answer never.
- The loops of Omni and London go on (`WF(Engine)`), which supposes that what they call
  under `wait_for` can be cancelled: the SDK on Python 3.9 is the exception above; a broker that is asked for ever
  answers sometimes (`SF` on the reads) and carries out a cancel or a close (`SF` on
  the outcome in which all of them succeed).  Price, fills, restarts and the clock are
  not fair: the liveness properties are about a day that has come to its end and a
  position that stays.

## The theorems

TLAPS proves these for every value of the constants that the modules' named
assumptions allow (`EntryAssumption`, `OwnerAssumption`, `FlightAssumption`,
`GriffAssumption`, `SimulationAssumption`, `SessionAssumption`, `BrokerAssumption`,
`OmniAssumption`, `LondonAssumption`, `PositionAssumption`, `SimulatorsAssumption`,
`StrategyAssumption`, `TournamentAssumption`: finiteness where cardinalities are used,
disjointness of the sets, positive bounds, numbers where the code has numbers, levels
that lie on the price grid, no filter combination that reads as "none" in an id).

| module | about | theorems |
|---|---|---|
| `MarketEntryProofs` | `MarketEntry` | `TypeCorrect`, `NeverDoubleBooked`, `NeverForgetsAFill`, `UnknownIsNotFlat`, `SyncsFirst`, `OneTradeADay` |
| `OwnerProofs` | `SyncOwner` | `TypeCorrect`, `SlotFree`, `ConnectedIsTrue`, `Implements`, `NeverTwins`, `SentOnce`, `ReadsBounded` |
| | `CandleFlight` | `FlightTypeCorrect`, `OneFetch`, `StrandsNobody`, `NoFetchUnawaited` |
| `GriffPendingProofs` | `GriffPending` | `TypeCorrect`, `KeepsTrack`, `EmptyHanded`, `TradesEndFlat`, `NeverOverstates` |
| `GriffSimulationProofs` | `GriffSimulation` | `TypeCorrect`, `HaltedIsFlat`, `LossIsBounded` |
| `HubSessionProofs` | `HubSession` | `TypeCorrect`, `NoLeaks`, `StaysRegistered`, `ChangesHonoured`, `ReattachesSeen` |
| `OmniProofs` | `OmniEngine` | `NeverStacks`, `StaysNear` |
| `LondonProofs` | `LondonEngine` | `TypeCorrect`, `TradesOnceADay`, `EntersOnce`, `PairsOnce` |
| `TradeProofs` | `Simulators` | `TypeCorrect`, `StopsHold`, `StopsHonoured`, `RiskIsBounded`, `PaperIsCapped` |
| | `Strategy` | `QuestionsTyped`, `FillsAreReal`, `FiltersAgree`, `SizesAgree`, `LossIsBounded` |
| | `Tournament` | `RanksTheGood` |

Those of `Strategy` aside, no property is inductive as it stands.  The strengthening each module proves instead
is written at the head of its proof module, part by part, with what each part says.

- *Never two positions* (`OneLive`, `SendClear`, `SentIsPlaced`, `PlacedIsSent`).
  `NoDoubleBook` only speaks of filled orders.  The invariant adds the orders on
  their way: at most one ticket is sent or open; one that is sent is the one just
  placed, and the engine is still waiting for it (or died waiting); and at `send`
  nothing is sent or open.  That the last holds after a confirmed read is where the
  two assumptions enter: no late fills, and a failed read that raises.
  `MarketEntry_late` and `MarketEntry_direct` show what happens without them.
- *No fill forgotten*.  From the same invariant: while an order of the engine's own is
  open, it is managed, noted as unreconciled, at its acknowledgement, or the sync of the
  next start will find it (`Tracked`).  It is an action property, because the 16:00 close
  may give a fill up (`MarketEntry_hardclose`).
- *The slot* (`HolderInv`, `ConnectedHasStream`).  What the holder of `_sync_lock` is
  doing says what the slot is: in `attempt` and `backoff` it is closed, in `opening` it
  is opening; while there is a holder nobody believes to be connected.  The
  refinement follows: each action maps to one of `SyncSlot`'s or to a stutter.
- *Orders* (`OneOrder`, `SentInInvoke`).  One order at a time is with the broker, and
  a call that has submitted is still in the broker call or over.  `NeverTwins` is about
  the hub's own calls and receipts; what a failed call has left upstream it does not
  bound (`NoTwinUpstream` does not hold).
- *Flights* (`Counted`, `InSlot`, `RetryLeft`).  `SingleFlight` rests on "a running
  flight holds the slot"; `NobodyStranded` on a count: `waiters[f]` is the cardinality
  of the requests joined to `f`, so a counter that reaches zero leaves nobody behind.
- *Pending orders* (`AwaitInv`, `CallerInv`, `LegInv`, `TradeInv`, `StopInv`).
  `NothingForgotten` needs to know who asked for a cancellation and for which ids
  (`CallerInv`), and that a leg outlives its setup only while its cancel is asked for
  or unconfirmed (`LegInv`).  `PlacesEmptyHanded` needs what the gate has established
  (`AwaitInv`).  `NeverOverstates` (`CopyNoTighter`) is what is left of "the stop only
  tightens" when a modification may be carried out unanswered: the copy the engine
  ratchets from is never tighter than the broker's stop (`StopInv`), though the stop
  itself may loosen (`GriffPending_ratchet`).
- *One trade a day* (`DayInv`: `Clocked`, `Dated`, `Unmanaged`, `Counted`).
  `OneTradePerDay` looks at one moment, `send`, and at the day's history.  Between them
  lie restarts, lost acknowledgements and the change of date.  The invariant says what a
  step knows of the time while it evaluates (`Clocked`, `Dated`), that an engine on its
  way to an order manages nothing (`Unmanaged`), and that every order of today that may
  still come to be managed is accounted for: its attempt is in doubt, the day is done,
  or it is being acknowledged (`Counted`).  It stands on the same assumption as
  `NeverDoubleBooked`.
- *Both ends of a socket* (`SocketInv`).  `NeverUnregistered` speaks of a request at the
  front of a queue.  The invariant says what is there otherwise: the queue of every open
  connection that is not registered has its hello in front (`HelloFirst`), and a hub
  that is down has no connections, so that a change of `willing` finds none.
- *A change and its outcome* (`TrackInv`: `Told`, `Placed`, `FramesFit`, `RepliesFit`,
  `ServedFits` for each change).  That "ok" means the owner had it and "refused" that it
  never will needs to know where the request is (in at most one place of one inbox, by
  position, since two equal frames would be one member of a set), and which replies may
  still arrive: a reply the future accepts carries its number, the numbers of the
  task's hellos are smaller than that of its request, so the reply is to the request.
  The refinement of `HubCall` is then one lemma on the client (a step answers at most the
  task that makes it, `OneMoves`), one on `Dispatch`, and stutters.
- *Every reattach is seen* (`TurnInv`, `HelloInv`, `HearInv`, `SeenInv`).  The counter a
  request returns with is read when the task resumes, not when the reply comes.  So the
  invariant follows the order of resumption: `ready` holds each task whose future is set
  once; one task attaches at a time; while its hello is out the socket carries nothing
  else and its answer comes first.  Then the values the answered requests have seen, or
  will see by their place in `ready`, grow with their sockets.  It holds for one
  `connect()` and no attach cut half way, which is what `ReattachIsSeen` says.
- *One entry of the Omni engine* (`ReadEmpty`, `NothingRests`, `OneOwn`, `NotBeyond`,
  `MovesInto`, `LateInto`).  An
  iteration that may enter has read an empty book, and with market entries nothing rests
  that could fill between that read and the order.  A modification, sent or on its way,
  is never beyond the first stop of the position it names, since each was computed from a
  stop that was not; which needs that there is one position of which side and stop were
  read.  So the order in which late ones arrive does not matter to `StaysNear`, while
  a stop may well loosen.  Of stop orders nothing is claimed: both legs may fill.
- *Caches of the London engine* (`NoPosition`, `NoOrder`, `GoesBy`).  Until a cache is asked
  for again, what it was answered holds unless an entry went out since, and then
  `order_pending_until` is in the future; the entry goes by that cache and asks for
  `order_pending_until`.  The two failed reads the properties name are what is left.
- *Days of the London engine* (`DayInv`).  The range is of a day that has come and the last
  trade of a day whose range was known, so a range that sets the count of trades back is
  of a later day than the trade.
- *Orders and positions of the simulated account* (`FlatInv`).  `HaltsFlat` needs that
  the account works only while it is allowed to, and that one trade is left when an
  order waits.
- *One percent of the limits* (`Paid`).  An order remembers no ATR, so the invariant says
  that there was one: its size is what the equity of the setup affords for it, and its
  stop lies no further than it allows; trailing only tightens.  `LossIsBounded` assumes
  `Funded`: each start within its limits, and the smallest lot (0.01) on the widest ATR
  not above 1 % of the daily limit.  Both are real preconditions: the code looks at
  neither before it opens the smallest lot (`griff_engine_live.py:254`).  The instance
  of the run satisfies it.
- *Stops* (`IInv` of `Simulators`).  One lemma for each operator of `Position` says what
  it does to a stop; the invariant adds what the next candle needs: before the
  break-even exit arms, the stop is at the entry at most, and before the risk-free
  runner has scaled out, the stop is where this candle's trailing puts it again.
  Without these the two assignments without comparison could loosen it.  `RiskIsBounded`
  is for any exit cost; it bounds the exits by stop, target and time, and not those at a
  candle's close (breaker, last hour, the backtester's last candle).
- *What a tournament ranks* (`JoinInv`).  What has arrived, in any order, is what the tasks
  not open any more have answered, and an id tells two profiles apart: when the last task
  is in, the qualified ids are those of the profiles that are good over every window.
- *Decisions* (`Strategy`).  No behaviour is involved: each stage is an input and its
  decision, and the theorems are about every input of the types, any ATR or none.

### Only model-checked

- All liveness properties (`AttemptReconciled`, `CallEnds`, `Answered`, `WindowEnds`,
  `RequestsEnd`, `EodEndsFlat`, `OppositesCanceled`, and `OpenBookAdopted` and
  `GoneTradeEnds` of the full configurations): temporal reasoning under fairness is out
  of the prover's reach.
- `ExportedAreBest`: the ranking is a sort and the mean score a sum over a set, both
  recursive.  `RanksTheGood` proves which profiles are ranked; that they are written in
  the right order is checked.
- `ProfileVerifier`: the simulated run is a recursion over numbers.  `ParityInCommon` leaves
  out the sizes that a rounding decides; that no other number of the runs ends in a tie,
  which the two programs round differently, is a fact of the instance.
- The types of `OmniEngine`: the volume of a lock is a sum over the book, which the prover
  cannot evaluate.  What its theorems need of the types is in `Typed`.

A sync due after a reattach is not `pending` (`book_sync.py:153`), so
`PendingHoldsSetup` speaks of the start and of reconnects only; after a reattach whose
sync failed, setups are evaluated although rule 1 of `book_sync.py` reads as if they
were not.

## Observations

What the models contain, no document promises otherwise, and a maintainer should know.

Hub and Griff engines:

- The smallest lot is opened whatever it costs (`griff_engine_live.py:254`, the hypothesis
  `Funded` of `LossIsBounded`), in the live engine as in the simulation.
- The engine's `wait_for` can cancel an attach between hello and the counter
  (`client.py:171`, `griff_engine_live.py:609`): the next request uses the socket, and
  `book_sync` never hears of the reattach (`ReattachIsSeen` excludes it by name).
- Inside the duplicate window an order equal to one before the last (modify to A, to
  B, to A) gets the old receipt and is not sent (`owner.py:553`).
- Calls that timed out go on at the broker without a permit (`owner.py:455`).  An order
  among them leaves no receipt, so an equal order sent after it is not suppressed and both
  can fill (`NoTwinUpstream`, refuted if it is added to `SyncOwner_full.cfg`).
- On Python 3.9 a read other than of candles, an order or a close whose SDK task ignores
  its cancellation keeps a permit, `_rpc_lock` or `_sync_lock` for ever (`broker.py:371`,
  526; `owner.py:423-428`); the candle fix of `FAILURE_MODES.md` does not reach them.
- `matching_positions` takes the symbol or the comment (`entry_guard.py:75-77`), and Omni
  trades US100.cash on the same account (`omni_breakout_engine.py:726`, 781): the US100
  engine adopts a position of Omni's, holds its own entry back for it and closes it at
  16:00 (`ManagesOwnOnly`, refuted if it is added to `MarketEntry_full.cfg`).
- `writer.drain()` is awaited under the client's write lock without a timeout
  (`client.py:151-153`).
- A gold fill that is closed again before any read sees it is not booked
  (`griff_engine_gold.py:206`); a missed 03:00 minute leaves the range of an earlier
  day (341).
- A pending order whose reply was lost is not tracked, and the setup is placed again
  (`griff_engine_live.py:1071`); an order that fills between the position read and its
  expiry is confirmed gone, and a setup of the same bar may be placed beside the new
  position for one interval (1316); a SELL without a stop is read as 0.0, which
  `min(0.0, candidate)` never replaces (190).
- The simulated account places both legs and trails on every close (446), where the
  live engine places the leg of the trend and trails on structure (164); it does not
  look at the stop in the hour of the fill, fills at the stop through a gap, and never
  renews `day_start_equity`.

Omni (`omni_breakout_engine.py`):

- In stop mode nothing asks what rests: a pair is placed every 60 s until one fills.
- Side and stop are those of the last own position, entry price and the modified
  position those of the first (904-949); `entry_price` is never reset.
- A stop modification given up after 5 s (959-966) may arrive after a later one and take
  it back (`StopsOnlyTighten`, refuted if it is added to `OmniEngine.cfg`), though never
  beyond the first stop.
- A flatten whose read failed counts as a success (600); only the state read later
  starts it again.  A halted engine stays halted on the next day.
- The hedge is sized from a read made before its order.

London (`london_reversal_engine_live.py`):

- A pair is placed again when a leg fills within the age of the caches.
- The flatten is asked for once; what fills between it and the cancels stays overnight.

Simulators and strategy modules:

- The price of a scale-in is not part of a trade's result; the cascade's partial
  closes and the paper trader's scale-out book nothing; stops are not looked at
  outside the session; a stop fills at its level however far the candle opens beyond.
- The paper trader closes at the candle's close when its breaker trips or the session's
  last hour comes, before it looks at the stop (`paper_trader.py:256`, 411), and every
  exit costs 0.95 points more; the backtester closes its last candle of a day the same
  way, without the cost.  Neither close is bounded by the stop.
- `multi_timeframe` and `dual_timeframe` compare close with open, which are both the
  mid price of a live quote; `volume` is 1.0 there and always passes; the width of
  a candle is taken for the spread.
- A stop entry that opens beyond the range is filled at the range, though the candle
  may lie wholly above (`EnteredWhereTraded` is about candles that open inside).
- Five filters refuse on signals no caller passes; the simulators pass no spread.
  The live engines never record trades or equities, so the three risk models that
  look at the past stay at their defaults.
- The Omni simulator sizes a chandelier trade for 75 points and gives it three ATR, which
  above an ATR of 25 is more than was sized and above 75 more than 3 %.  Without an ATR
  London sizes the ATR trail and the chandelier for 40 points and stops them at 60 and
  120 (`engine.py:557`, 568, 802-807): up to 1.5 and 3 times what was to be risked.  The
  live engines size for fixed distances as well.
- When no profile qualifies, the ten files of the tournament before stay and are what
  the paper trader loads (`tournament.py:596`).  A program stopped while it exports
  leaves some of the old files, or some of the new ones and one cut short; the paper
  trader starts on the former as if they were ten, and `json.load` fails on the latter.
  The drawdown that qualifies a profile is in percent of the peak at the largest
  drawdown in dollars (`engine.py:1075`).
- The ATR of a simulated day is computed over the whole day before it is traded; its
  US range is 14:00-14:30 UTC, the wrapper's 13:30-13:59.

## What is not modelled

- Setups and indicators of the Griff engines: a setup triggers or does not.
- Of the hub: parameter validation and the orders mode, which decide before any
  state changes; frame encoding and oversized frames; `health`.  The server never
  cancels a request task: `Cancel` in `SyncOwner` and the early leaves of
  `CandleFlight` are reached by callers of the owner's own API and at shutdown.
- The duplicate window of `mutate` for orders that differ.
- Of the pending-order engine: accounts whose order book cannot be read at all,
  replies to a placement without an order id, `--test`.
- Of Omni and London: the lockout and high-water files, which nothing in the loops
  reads, functions without a caller, lot sizes (`Strategy` has the sizing).
- Of the simulators: dollars, reports, price feeds; the screening and the workers of the
  tournament; correlation and monitor of the backtester, which are arithmetic over results.
- Of the verifiers: the JSON parser, file handling, `EquityWatchdog` (only tests call
  it), the QuickCheck generator.
- `griff_engine_live_fixed.py`, an older copy nothing starts; `odin_daemon.py`, whose
  client library is not in the repository; the scripts, data tools and the backtest
  suite, which run once over files and have no interleaving, failure or protocol.

## What a next step would be

`EntryOverHub`: `MarketEntry`'s broker replaced by `HubCall` with a timeout over the owner's
order queue, which would derive the late fill of `MarketEntry_late` instead of assuming it.
