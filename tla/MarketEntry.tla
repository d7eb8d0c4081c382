---------------------------- MODULE MarketEntry ----------------------------
(***************************************************************************)
(* The market-entry engines: griff_engine_us100.py and griff_engine_gold.py *)
(* with the double-book guard (modules/entry_guard.py) and the start-up     *)
(* and reconnect adoption (modules/book_sync.py) that both import.          *)
(*                                                                          *)
(* One engine process runs step() every 15 seconds.  Between two awaits the *)
(* coroutine is atomic; pc names the await it is suspended in, "idle" the   *)
(* sleep between two steps and "down" a process that is not running.  The   *)
(* broker, the wall clock and the hub transport move at any time.           *)
(***************************************************************************)
EXTENDS Naturals, FiniteSets

CONSTANTS
    Tickets,    \* the entry orders that can be sent; bounds how many are
    Aliased,    \* tickets the broker reports under an alias of the symbol
    Foreign,    \* positions of other engines on the account, other symbols
    Sharing,    \* positions other engines may open on this engine's symbol
    Engines,    \* the programs checked: a subset of {"US100", "Gold"}
    HubMode,    \* TRUE: HubBackedWrapper.  FALSE: the direct MetaApiWrapper
    LateFills,  \* TRUE: an order may fill after the post-error delay
    None        \* no position

ASSUME EntryAssumption ==
    /\ Aliased \subseteq Tickets
    /\ Tickets \cap (Foreign \cup Sharing) = {}
    /\ Foreign \cap Sharing = {}
    /\ None \notin Tickets \cup Foreign \cup Sharing
    /\ Engines \subseteq {"US100", "Gold"}
    /\ HubMode \in BOOLEAN
    /\ LateFills \in BOOLEAN

VARIABLES
    engine,         \* which program this process runs; never changes
    pc,             \* the await step() is suspended in
    state,          \* self.state
    active,         \* self.active_position (its ticket)
    syncRequired,   \* self.entry_sync_required
    startup,        \* BookResyncTracker.startup_pending
    reconnect,      \* BookResyncTracker.reconnect_reason is set
    reattached,     \* client.reattaches moved since the last synced read
    connected,      \* self.wrapper.connection is set
    armed,          \* Gold: asian_high > 0
    dayTriggered,   \* Gold: self.day_triggered
    now,            \* time_str as this step read it
    placed,         \* the order the step is placing
    toClose,        \* positions the 16:00 loop has still to close
    order,          \* broker: the life of every ticket
    others,         \* broker: the positions of Sharing that are open
    clock,          \* the phase of the trading day
    sentToday,      \* ghost: orders sent since midnight
    bookedToday     \* ghost: the engine has managed an order sent today

tracker  == <<startup, reconnect, reattached>>
goldVars == <<armed, dayTriggered>>
local    == <<now, placed, toClose>>
market   == <<order, others>>
vars == <<engine, pc, state, active, syncRequired, tracker, connected,
          goldVars, local, market, clock, sentToday, bookedToday>>

Labels == {"down", "idle", "connect", "sync", "dispatch", "hardRead",
           "closing", "recheck", "capture", "setup", "confirm", "send",
           "ack", "settle", "reconfirm", "check"}

Status == {"unsent", "sent", "open", "closed", "dead"}

(***************************************************************************)
(* The trading day.  Gold acts at 00:01 (reset), at 03:00 (range capture),  *)
(* from 03:15 to 10:00 (window) and from 16:00 to 16:15 (close); US100 in   *)
(* its window and at the close.  The phases in which neither acts are       *)
(* "early", "gap", "midday" and "night".                                    *)
(***************************************************************************)
Phases == {"midnight", "early", "capture", "gap", "window", "midday",
           "close", "night"}

NextPhase == [p \in Phases |->
    CASE p = "midnight" -> "early"
      [] p = "early"    -> "capture"
      [] p = "capture"  -> "gap"
      [] p = "gap"      -> "window"
      [] p = "window"   -> "midday"
      [] p = "midday"   -> "close"
      [] p = "close"    -> "night"
      [] OTHER          -> "midnight"]

-----------------------------------------------------------------------------
(* What the broker shows and what the engine makes of it.                   *)

OpenTickets == {t \in Tickets : order[t] = "open"}

\* Everything open on the account, as get_positions_rest returns it.
AllPositions == OpenTickets \cup others \cup Foreign

\* Bug_ operators are defects a change could introduce; no action uses them.
\* Here: a filter on the symbol alone, which misses an own ticket reported
\* under an alias of the symbol.
Bug_MatchSymbolOnly(positions) == (positions \ Aliased) \ Foreign

\* matching_positions: the symbol or the comment prefix makes it ours.  Every
\* ticket of this engine carries the comment, whatever symbol is reported; a
\* position of another engine on the same symbol matches as well.
Matching(positions) == positions \cap (Tickets \cup Sharing)

\* The 16:00 loop compares the symbol alone, whoever's position it is.
SameSymbol(positions) == Matching(positions) \ Aliased

\* The hub path swallowing the error of a failed read.
Bug_FailedReadIsEmpty ==
    {[ok |-> TRUE, matched |-> Matching(AllPositions)],
     [ok |-> TRUE, matched |-> {}]}

\* BrokerBookSync.read_book.  A read that raises is unknown (no result); the
\* direct wrapper answers None instead of raising and None matches nothing.
ReadBook ==
    {[ok |-> TRUE, matched |-> Matching(AllPositions)]}
        \cup (IF HubMode THEN {[ok |-> FALSE, matched |-> {}]}
                         ELSE {[ok |-> TRUE, matched |-> {}]})

\* BookResyncTracker.pending.  A sync due after a reattach is not pending.
Pending == startup \/ reconnect

\* The book is read inside the entry window only (the 2026-10-02 gap).
Bug_ResyncInWindow == (startup \/ reconnect \/ reattached) /\ clock = "window"

\* BookResyncTracker.resync_reason
ResyncDue == startup \/ reconnect \/ reattached

\* An adopted fill does not count as Gold's trade of the day.
Bug_AdoptUncounted(t) ==
    /\ state' = "IN_TRADE"
    /\ active' = t
    /\ syncRequired' = FALSE
    /\ UNCHANGED goldVars

\* adopt_position: manage t, forget the unreconciled attempt; for Gold an
\* unreconciled attempt that turns out filled was today's one trade.
Adopt(t) ==
    /\ state' = "IN_TRADE"
    /\ active' = t
    /\ syncRequired' = FALSE
    /\ IF engine = "Gold" /\ syncRequired
       THEN armed' = FALSE /\ dayTriggered' = TRUE
       ELSE UNCHANGED goldVars

\* Ghost bookkeeping shared by every action that can start a trade.
Book == bookedToday' = (bookedToday
            \/ (state' = "IN_TRADE" /\ active' \in sentToday))
-----------------------------------------------------------------------------
(* The engine process.                                                      *)

Init ==
    /\ engine \in Engines
    /\ pc = "idle"
    /\ state = "SEARCHING"
    /\ active = None
    /\ syncRequired = FALSE
    /\ startup = TRUE
    /\ reconnect = FALSE
    /\ reattached = FALSE
    /\ connected = FALSE
    /\ armed = FALSE
    /\ dayTriggered = FALSE
    /\ clock \in Phases
    /\ now = clock
    /\ placed = None
    /\ toClose = {}
    /\ \E S \in SUBSET Tickets :  \* at most one position inherited
        /\ \A t, u \in S : t = u
        /\ order = [t \in Tickets |-> IF t \in S THEN "open" ELSE "unsent"]
    /\ others \in SUBSET Sharing
    /\ sentToday = {}
    /\ bookedToday = FALSE

\* step() begins: connect, then sync if one is due, then read the clock.
StepBegin ==
    /\ pc = "idle"
    /\ now' = clock
    /\ pc' = IF ~connected THEN "connect"
             ELSE IF ResyncDue THEN "sync" ELSE "dispatch"
    /\ UNCHANGED <<engine, state, active, syncRequired, tracker, connected,
                   goldVars, placed, toClose, market, clock, sentToday,
                   bookedToday>>

\* wrapper.connect() returned: note_reconnect makes the sync due.
ConnectOk ==
    /\ pc = "connect"
    /\ connected' = TRUE
    /\ reconnect' = TRUE
    /\ pc' = "sync"
    /\ UNCHANGED <<engine, state, active, syncRequired, startup, reattached,
                   goldVars, local, market, clock, sentToday, bookedToday>>

\* wrapper.connect() raised and run_loop logged it.  The direct wrapper may
\* have set its connection before it failed to synchronize.
ConnectFail ==
    /\ pc = "connect"
    /\ connected' \in (IF HubMode THEN {FALSE} ELSE BOOLEAN)
    /\ pc' = "idle"
    /\ UNCHANGED <<engine, state, active, syncRequired, tracker, goldVars,
                   local, market, clock, sentToday, bookedToday>>

\* BookResyncTracker.mark_synced
MarkSynced == startup' = FALSE /\ reconnect' = FALSE /\ reattached' = FALSE

\* sync_book_with_broker: what the engine does with the book it read.
SyncBook(r) ==
    \/ /\ r.matched = {}
       /\ UNCHANGED <<state, active, syncRequired, goldVars>>
    \/ /\ state = "SEARCHING"
       /\ \E t \in r.matched : Adopt(t)
    \/ /\ state = "IN_TRADE"
       /\ active' \in r.matched
       /\ UNCHANGED <<state, syncRequired, goldVars>>

\* BrokerBookSync.sync: only a successful read clears what made it due.
Sync(r) ==
    /\ pc = "sync"
    /\ pc' = "dispatch"
    /\ IF r.ok THEN MarkSynced ELSE UNCHANGED tracker
    /\ SyncBook(r)
    /\ Book
    /\ UNCHANGED <<engine, connected, local, market, clock, sentToday>>

\* An unreconciled attempt is left to the next entry's own check.
Bug_BranchNoRecheck(s, triggered, at) ==
    CASE s = "IN_TRADE" -> "check"
      [] s = "SEARCHING" /\ Pending -> "idle"
      [] s = "SEARCHING" /\ ~Pending ->
            IF at = "window" /\ (engine = "US100" \/ (armed /\ ~triggered))
            THEN "setup" ELSE "idle"

\* A step goes on to its setup although the sync it owes has failed.
Bug_BranchUnsynced(s, triggered, at) ==
    CASE s = "IN_TRADE" -> "check"
      [] s = "SEARCHING" /\ syncRequired -> "recheck"
      [] s = "SEARCHING" /\ ~syncRequired ->
            IF at = "window" /\ (engine = "US100" \/ (armed /\ ~triggered))
            THEN "setup" ELSE "idle"

\* Where step() goes once it knows the phase and no hard close is due.
Branch(s, triggered, at) ==
    CASE s = "IN_TRADE" -> "check"
      [] s = "SEARCHING" /\ Pending -> "idle"
      [] s = "SEARCHING" /\ ~Pending /\ syncRequired -> "recheck"
      [] s = "SEARCHING" /\ ~Pending /\ ~syncRequired ->
            CASE engine = "US100" /\ at = "window" -> "setup"
              [] engine = "Gold" /\ ~triggered /\ at = "capture" -> "capture"
              [] engine = "Gold" /\ ~triggered /\ at = "window" /\ armed
                    -> "setup"
              [] OTHER -> "idle"

\* The clock is read after the sync; the rest of the step uses that value.
Dispatch ==
    /\ pc = "dispatch"
    /\ now' = clock
    /\ dayTriggered' = (dayTriggered
                          /\ ~(engine = "Gold" /\ clock = "midnight"))
    /\ pc' = IF clock = "close" /\ state = "IN_TRADE" THEN "hardRead"
             ELSE Branch(state, dayTriggered', clock)
    /\ UNCHANGED <<engine, state, active, syncRequired, tracker, connected,
                   armed, placed, toClose, market, clock, sentToday,
                   bookedToday>>

\* The 16:00 loop has run over every position: the engine calls itself flat.
DeclareFlat ==
    /\ state' = "SEARCHING"
    /\ active' = None
    /\ pc' = Branch("SEARCHING", dayTriggered, now)

\* The position read of the hard close; a failure leaves step() by exception.
HardRead(ok) ==
    /\ pc = "hardRead"
    /\ toClose' = IF ok THEN SameSymbol(AllPositions) ELSE {}
    /\ \/ ok /\ toClose' = {} /\ DeclareFlat
       \/ ok /\ toClose' # {} /\ pc' = "closing" /\ UNCHANGED <<state, active>>
       \/ ~ok /\ pc' = "idle" /\ UNCHANGED <<state, active>>
    /\ UNCHANGED <<engine, syncRequired, tracker, connected, goldVars, now,
                   placed, market, clock, sentToday, bookedToday>>

\* One close_position of the loop: done says whether the broker closed it.
\* An error is logged and the loop goes on.
CloseOne(t, done) ==
    /\ pc = "closing"
    /\ toClose' = toClose \ {t}
    /\ order' = IF done /\ t \in OpenTickets
                THEN [order EXCEPT ![t] = "closed"] ELSE order
    /\ others' = IF done THEN others \ {t} ELSE others
    /\ IF toClose' = {} THEN DeclareFlat
                        ELSE UNCHANGED <<pc, state, active>>
    /\ UNCHANGED <<engine, syncRequired, tracker, connected, goldVars, now,
                   placed, clock, sentToday, bookedToday>>

\* A failed read before the entry is taken for a flat book.
Bug_ConfirmUnread(r, flat) ==
    \/ /\ r.matched = {}
       /\ syncRequired' = FALSE
       /\ pc' = flat
       /\ UNCHANGED <<state, active, goldVars>>
    \/ /\ \E t \in r.matched : Adopt(t)
       /\ pc' = "idle"

\* confirm_flat_before_entry: go to flat only on a successful empty read.
ConfirmFlat(r, flat) ==
    \/ /\ r.ok /\ r.matched = {}
       /\ syncRequired' = FALSE
       /\ pc' = flat
       /\ UNCHANGED <<state, active, goldVars>>
    \/ /\ r.ok
       /\ \E t \in r.matched : Adopt(t)
       /\ pc' = "idle"
    \/ /\ ~r.ok
       /\ pc' = "idle"
       /\ UNCHANGED <<state, active, syncRequired, goldVars>>

\* SEARCHING with an unreconciled attempt: reconcile and evaluate nothing.
Recheck(r) ==
    /\ pc = "recheck"
    /\ ConfirmFlat(r, "idle")
    /\ Book
    /\ UNCHANGED <<engine, tracker, connected, local, market, clock, sentToday>>

\* Gold at 03:00: the 28 candles came, or fewer or none did.
Capture(got) ==
    /\ pc = "capture"
    /\ armed' = (armed \/ got)
    /\ pc' = "idle"
    /\ UNCHANGED <<engine, state, active, syncRequired, tracker, connected,
                   dayTriggered, local, market, clock, sentToday, bookedToday>>

\* The setup reads (candles, price, equity) and its trigger.  A read that
\* raises, no trigger, or lots below 0.01 end the step.
Setup(triggered) ==
    /\ pc = "setup"
    /\ triggered => \E t \in Tickets : order[t] = "unsent"  \* the bound
    /\ pc' = IF triggered THEN "confirm" ELSE "idle"
    /\ UNCHANGED <<engine, state, active, syncRequired, tracker, connected,
                   goldVars, local, market, clock, sentToday, bookedToday>>

\* place_entry: the check before the order.
Confirm(r) ==
    /\ pc = "confirm"
    /\ ConfirmFlat(r, "send")
    /\ Book
    /\ UNCHANGED <<engine, tracker, connected, local, market, clock, sentToday>>

\* The market order leaves the engine.
Send(t) ==
    /\ pc = "send"
    /\ order[t] = "unsent"
    /\ order' = [order EXCEPT ![t] = "sent"]
    /\ placed' = t
    /\ sentToday' = sentToday \cup {t}
    /\ pc' = "ack"
    /\ UNCHANGED <<engine, state, active, syncRequired, tracker, connected,
                   goldVars, now, toClose, others, clock, bookedToday>>

\* The receipt came: the position is managed; Gold has had its trade today.
AckSuccess ==
    /\ pc = "ack"
    /\ order[placed] \in {"open", "closed"}
    /\ state' = "IN_TRADE"
    /\ active' = placed
    /\ syncRequired' = FALSE
    /\ IF engine = "Gold" THEN armed' = FALSE /\ dayTriggered' = TRUE
                          ELSE UNCHANGED goldVars
    /\ pc' = "idle"
    /\ Book
    /\ UNCHANGED <<engine, tracker, connected, local, market, clock, sentToday>>

\* A NEVER_SENT_CODES refusal: nothing reached the broker, no delay.
AckRefused ==
    /\ pc = "ack"
    /\ order[placed] = "sent"
    /\ order' = [order EXCEPT ![placed] = "dead"]
    /\ syncRequired' = TRUE
    /\ pc' = "reconfirm"
    /\ UNCHANGED <<engine, state, active, tracker, connected, goldVars, local,
                   others, clock, sentToday, bookedToday>>

\* A lost answer is a failed order (the incident of 2026-10-02).
Bug_AckLostForgets ==
    /\ pc = "ack"
    /\ pc' = "idle"
    /\ UNCHANGED <<engine, state, active, syncRequired, tracker, connected,
                   goldVars, local, market, clock, sentToday, bookedToday>>

\* Any other failure: the order may be filled, dead or still on its way.
AckLost ==
    /\ pc = "ack"
    /\ syncRequired' = TRUE
    /\ pc' = "settle"
    /\ UNCHANGED <<engine, state, active, tracker, connected, goldVars, local,
                   market, clock, sentToday, bookedToday>>

\* POST_PLACE_ERROR_SYNC_DELAY_SECONDS: without LateFills the broker has
\* decided the order by the end of it.
Settled ==
    /\ pc = "settle"
    /\ LateFills \/ order[placed] # "sent"
    /\ pc' = "reconfirm"
    /\ UNCHANGED <<engine, state, active, syncRequired, tracker, connected,
                   goldVars, local, market, clock, sentToday, bookedToday>>

\* reconcile_after_place_error reads the book; place_entry then returns.
Reconfirm(r) ==
    /\ pc = "reconfirm"
    /\ ConfirmFlat(r, "idle")
    /\ Book
    /\ UNCHANGED <<engine, tracker, connected, local, market, clock, sentToday>>

\* An empty read refreshes nothing and ends nothing.
Bug_CheckNeverEnds(r) ==
    /\ pc = "check"
    /\ pc' = "idle"
    /\ UNCHANGED state
    /\ IF r.matched = {} THEN UNCHANGED active ELSE active' \in r.matched
    /\ Book
    /\ UNCHANGED <<engine, syncRequired, tracker, connected, goldVars, local,
                   market, clock, sentToday>>

\* IN_TRADE: only a successful empty read ends the trade.
Check(r) ==
    /\ pc = "check"
    /\ pc' = "idle"
    /\ \/ ~r.ok /\ UNCHANGED <<state, active>>
       \/ r.ok /\ r.matched = {} /\ state' = "SEARCHING" /\ active' = None
       \/ r.ok /\ active' \in r.matched /\ UNCHANGED state
    /\ Book
    /\ UNCHANGED <<engine, syncRequired, tracker, connected, goldVars, local,
                   market, clock, sentToday>>
-----------------------------------------------------------------------------
(* The world around it.                                                     *)

\* The process dies wherever it is; what it knew is gone.
Crash ==
    /\ pc # "down"
    /\ pc' = "down"
    /\ state' = "SEARCHING" /\ active' = None
    /\ syncRequired' = FALSE
    /\ startup' = TRUE /\ reconnect' = FALSE /\ reattached' = FALSE
    /\ connected' = FALSE
    /\ armed' = FALSE /\ dayTriggered' = FALSE
    /\ placed' = None /\ toClose' = {}
    /\ UNCHANGED <<engine, now, market, clock, sentToday, bookedToday>>

\* It is started again; that takes longer than the post-error delay.
Start ==
    /\ pc = "down"
    /\ LateFills \/ \A t \in Tickets : order[t] # "sent"
    /\ pc' = "idle"
    /\ now' = clock
    /\ UNCHANGED <<engine, state, active, syncRequired, tracker, connected,
                   goldVars, placed, toClose, market, clock, sentToday,
                   bookedToday>>

\* The broker decides an order it was sent, acknowledged or not.
Execute(t) ==
    /\ order[t] = "sent"
    /\ \E s \in {"open", "dead"} : order' = [order EXCEPT ![t] = s]
    /\ UNCHANGED <<engine, pc, state, active, syncRequired, tracker,
                   connected, goldVars, local, others, clock, sentToday,
                   bookedToday>>

\* Stop loss, take profit or a manual close at the broker.
StopOut(t) ==
    /\ order[t] = "open"
    /\ order' = [order EXCEPT ![t] = "closed"]
    /\ UNCHANGED <<engine, pc, state, active, syncRequired, tracker,
                   connected, goldVars, local, others, clock, sentToday,
                   bookedToday>>

\* Another engine opens or loses a position on this engine's symbol.
OthersTrade ==
    /\ others' \in SUBSET Sharing \ {others}
    /\ UNCHANGED <<engine, pc, state, active, syncRequired, tracker,
                   connected, goldVars, local, order, clock, sentToday,
                   bookedToday>>

\* HubClient._reattach succeeded under a request; the tracker compares the
\* counter only once it has synced, and the direct wrapper has none.
Reattach ==
    /\ HubMode /\ connected /\ ~startup
    /\ pc \notin {"down", "idle", "connect", "dispatch", "settle"}
    /\ reattached' = TRUE
    /\ UNCHANGED <<engine, pc, state, active, syncRequired, startup,
                   reconnect, connected, goldVars, local, market, clock,
                   sentToday, bookedToday>>

\* The day goes on.  A suspended step sees at most one phase end after it
\* read the clock: its awaits time out within minutes, the phases that
\* matter to it are hours apart.
Tick ==
    /\ pc \in {"down", "idle"} \/ now = clock
    /\ clock' = NextPhase[clock]
    /\ IF clock' = "midnight"
       THEN sentToday' = {} /\ bookedToday' = FALSE
       ELSE UNCHANGED <<sentToday, bookedToday>>
    /\ UNCHANGED <<engine, pc, state, active, syncRequired, tracker,
                   connected, goldVars, local, market>>
-----------------------------------------------------------------------------

EngineStep ==
    \/ StepBegin
    \/ ConnectOk
    \/ ConnectFail
    \/ \E r \in ReadBook : Sync(r)
    \/ Dispatch
    \/ \E ok \in BOOLEAN : HardRead(ok)
    \/ \E t \in toClose, done \in BOOLEAN : CloseOne(t, done)
    \/ \E r \in ReadBook : Recheck(r)
    \/ \E got \in BOOLEAN : Capture(got)
    \/ \E triggered \in BOOLEAN : Setup(triggered)
    \/ \E r \in ReadBook : Confirm(r)
    \/ \E t \in Tickets : Send(t)
    \/ AckSuccess
    \/ AckRefused
    \/ AckLost
    \/ Settled
    \/ \E r \in ReadBook : Reconfirm(r)
    \/ \E r \in ReadBook : Check(r)

World ==
    \/ Crash
    \/ Start
    \/ \E t \in Tickets : Execute(t)
    \/ \E t \in Tickets : StopOut(t)
    \/ OthersTrade
    \/ Reattach
    \/ Tick

Next == EngineStep \/ World

Spec == Init /\ [][Next]_vars

GoodRead == [ok |-> TRUE, matched |-> Matching(AllPositions)]

\* run_loop catches every exception and sleeps 15 seconds, so a running
\* engine keeps stepping; a broker asked for ever answers sometimes.
Fairness ==
    /\ WF_vars(EngineStep)
    /\ SF_vars(ConnectOk)
    /\ SF_vars(Sync(GoodRead))
    /\ SF_vars(Recheck(GoodRead))
    /\ SF_vars(Check(GoodRead))
    /\ SF_vars(HardRead(TRUE))
    /\ \A t \in Tickets : WF_vars(Execute(t))

FairSpec == Spec /\ Fairness
-----------------------------------------------------------------------------
(* What must hold.                                                          *)

Position == Tickets \cup Sharing

\* Every variable has its type; in particular nothing on another symbol is
\* ever managed or walked over by the hard close.
TypeOK ==
    /\ engine \in Engines
    /\ pc \in Labels
    /\ state \in {"SEARCHING", "IN_TRADE"}
    /\ active \in Position \cup {None}
    /\ syncRequired \in BOOLEAN
    /\ startup \in BOOLEAN /\ reconnect \in BOOLEAN /\ reattached \in BOOLEAN
    /\ connected \in BOOLEAN
    /\ armed \in BOOLEAN /\ dayTriggered \in BOOLEAN
    /\ now \in Phases /\ clock \in Phases
    /\ placed \in Tickets \cup {None}
    /\ toClose \subseteq Position
    /\ order \in [Tickets -> Status]
    /\ others \subseteq Sharing
    /\ sentToday \subseteq Tickets
    /\ bookedToday \in BOOLEAN

\* The guard's purpose (entry_guard.py): however acknowledgements are lost,
\* reads fail and processes restart, the broker never holds two positions of
\* one engine.
NoDoubleBook ==
    \A t, u \in Tickets : order[t] = "open" /\ order[u] = "open" => t = u

\* The engine knows of what it has at the broker: it manages a trade, has an
\* attempt to reconcile, waits for an answer, or owes the sync of its start.
Tracked ==
    state = "IN_TRADE" \/ syncRequired \/ pc = "ack" \/ startup

\* No fill is forgotten: from the moment an order of this engine fills until
\* it is closed, whoever else trades the symbol and whatever is lost or dies
\* in between, the engine knows of it.  Only the 16:00 close may give it up.
NoFillForgotten ==
    [][/\ OpenTickets' # {}
       /\ OpenTickets = {} \/ Tracked
       /\ pc \notin {"hardRead", "closing"}
       => Tracked']_vars

\* What the header of entry_guard.py calls the engine's own book holds nothing
\* of another engine.
ManagesOwnOnly == active \in Tickets \cup {None}

\* Gold's one trade per day: once a fill of an order sent today has been
\* managed, by receipt or by adoption, no entry is sent until midnight, not
\* even by a process restarted since.
OneTradePerDay ==
    engine = "Gold" /\ bookedToday => pc # "send"

\* A failed position read is unknown, never flat: outside the hard close a
\* running engine leaves IN_TRADE only when the broker holds nothing of it.
KeepsOnUnknown ==
    [][/\ state = "IN_TRADE" /\ state' = "SEARCHING"
       /\ pc \notin {"hardRead", "closing"} /\ pc' # "down"
       => OpenTickets = {}]_vars

\* The gold engine's header: the hard close at 16:00 leaves no position open.
HardCloseFlattens ==
    [][/\ state = "IN_TRADE" /\ state' = "SEARCHING"
       /\ pc \in {"hardRead", "closing"} /\ pc' # "down"
       => \A t \in Tickets : order'[t] # "open"]_vars

\* book_sync.py rule 1: while a sync owed since the start or a reconnect has
\* not succeeded, the engine gets nowhere near an order: it evaluates no
\* setup, captures no range and reconciles no attempt.
PendingHoldsSetup ==
    startup \/ reconnect =>
        pc \notin {"recheck", "capture", "setup", "confirm", "send", "ack",
                  "settle", "reconfirm"}

\* An entry attempt that failed is reconciled in the end (or its process is
\* gone), in the window or outside it.
AttemptReconciled == syncRequired ~> ~syncRequired

\* A process started over an open position comes to manage it, whatever the
\* hour, unless the position or the process ends first.
OpenBookAdopted ==
    (pc # "down" /\ startup /\ OpenTickets # {})
        ~> (state = "IN_TRADE" \/ OpenTickets = {} \/ pc = "down")

\* A trade does not stay managed for ever once nothing matches at the broker.
GoneTradeEnds ==
    (state = "IN_TRADE" /\ Matching(AllPositions) = {})
        ~> (state = "SEARCHING" \/ Matching(AllPositions) # {})
=============================================================================
