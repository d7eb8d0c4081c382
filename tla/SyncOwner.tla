------------------------------ MODULE SyncOwner ------------------------------
(***************************************************************************)
(* metaapi_hub/owner.py: the hub's single synchronization owner.  Every     *)
(* request of an engine is a task (a member of Procs) that reads or mutates *)
(* through the one broker connection of metaapi_hub/broker.py.  Tasks are   *)
(* atomic between awaits; pc names the await a task is suspended in:        *)
(*                                                                          *)
(*   ensure, recover   in ensure_connected / _recover, waiting for          *)
(*                     _sync_lock or, as its holder, in phase               *)
(*   gate, gate2       waiting for _read_gate, before and after a recovery  *)
(*   invoke, invoke2   the broker call; a reader in it holds a permit of    *)
(*                     the gate, a mutator the _rpc_lock                    *)
(*   rpc               a mutator waiting for _rpc_lock                      *)
(*   pause             a reader's backoff between two attempts              *)
(***************************************************************************)
EXTENDS Naturals, FiniteSets

CONSTANTS
    Readers,          \* concurrent read requests
    Candles,          \* those that are candle flights and can be cancelled
    Mutators,         \* concurrent orders of one engine with equal parameters
    ReadConcurrency,  \* permits of _read_gate
    ReadAttempts,     \* read_attempts
    MaxSyncAttempts,  \* max_sync_attempts
    Nobody

ASSUME OwnerAssumption ==
    /\ Candles \subseteq Readers
    /\ IsFiniteSet(Readers)
    /\ Readers \cap Mutators = {}
    /\ Nobody \notin Readers \cup Mutators
    /\ ReadConcurrency \in Nat \ {0}
    /\ ReadAttempts \in Nat \ {0}
    /\ MaxSyncAttempts \in Nat \ {0}

Procs == Readers \cup Mutators

VARIABLES
    pc,          \* task -> the await it is in
    tries,       \* reader -> attempt of read()'s loop
    moved,       \* reader -> _epoch differs from the epoch it captured
    broken,      \* task -> the stream under its broker call went away
    submits,     \* ghost: mutator -> times this call reached the broker
    connected,   \* self.connected
    syncLock,    \* the holder of _sync_lock
    phase,       \* what that holder is doing
    attempt,     \* attempt of _sync_with_backoff
    slot,        \* the broker's stream
    leaked,      \* a close was abandoned; upstream still counts its stream
    remembered,  \* _recent_mutations holds the orders' key, in its window
    adrift       \* an order whose call failed may still be carried out

taskVars == <<pc, tries, moved, broken, submits>>
syncVars == <<connected, syncLock, phase, attempt>>
orders   == <<remembered, adrift>>
vars == <<taskVars, syncVars, slot, leaked, orders>>

Labels == {"idle", "ensure", "gate", "invoke", "recover", "gate2", "invoke2",
           "rpc", "pause"}
Phases == {"none", "close", "attempt", "opening", "backoff"}

Invoking == {p \in Procs : pc[p] \in {"invoke", "invoke2"}}

Init ==
    /\ pc = [p \in Procs |-> "idle"]
    /\ tries = [p \in Readers |-> 1]
    /\ moved = [p \in Readers |-> FALSE]
    /\ broken = [p \in Procs |-> FALSE]
    /\ submits = [p \in Mutators |-> 0]
    /\ connected = FALSE
    /\ syncLock = Nobody
    /\ phase = "none"
    /\ attempt = 1
    /\ slot = "none"
    /\ leaked = FALSE
    /\ remembered = FALSE
    /\ adrift = FALSE
-----------------------------------------------------------------------------
(* Entering and leaving a call.                                             *)

\* read() or mutate() starts with ensure_connected.
Call(p) ==
    /\ pc[p] = "idle"
    /\ pc' = [pc EXCEPT ![p] = "ensure"]
    /\ UNCHANGED <<tries, moved, broken, submits, syncVars, slot,
                   leaked, orders>>

\* The call returns or raises; its locals are gone.
Return(p) ==
    /\ pc' = [pc EXCEPT ![p] = "idle"]
    /\ broken' = [broken EXCEPT ![p] = FALSE]
    /\ IF p \in Readers
       THEN /\ tries' = [tries EXCEPT ![p] = 1]
            /\ moved' = [moved EXCEPT ![p] = FALSE]
            /\ UNCHANGED submits
       ELSE submits' = [submits EXCEPT ![p] = 0] /\ UNCHANGED <<tries, moved>>

\* Where a task goes when it is connected: a reader captures the epoch and
\* queues at the gate, a mutator queues for the order lock.
Proceed(p) ==
    /\ pc' = [pc EXCEPT ![p] = IF p \in Readers THEN "gate" ELSE "rpc"]
    /\ moved' = IF p \in Readers THEN [moved EXCEPT ![p] = FALSE] ELSE moved

\* ensure_connected: already connected, seen before or under the lock.
AlreadyConnected(p) ==
    /\ pc[p] = "ensure" /\ syncLock # p
    /\ connected
    /\ Proceed(p)
    /\ UNCHANGED <<tries, broken, submits, syncVars, slot, leaked,
                   orders>>

\* Bug_ operators are defects a change could introduce; no action uses them.
\* Here: synchronizing without dropping the previous stream first.
Bug_ConnectNoRelease(p) ==
    /\ pc[p] = "ensure"
    /\ syncLock = Nobody
    /\ ~connected
    /\ syncLock' = p
    /\ phase' = "attempt"
    /\ attempt' = 1
    /\ UNCHANGED <<taskVars, connected, slot, leaked, orders>>

\* ensure_connected takes _sync_lock and starts by releasing the slot.
TakeToConnect(p) ==
    /\ pc[p] = "ensure"
    /\ syncLock = Nobody
    /\ ~connected
    /\ syncLock' = p
    /\ phase' = "close"
    /\ UNCHANGED <<taskVars, connected, attempt, slot, leaked, orders>>

\* _recover that leaves the connected flag up while it works.
Bug_RecoverStaysConnected(p) ==
    /\ pc[p] = "recover"
    /\ syncLock = Nobody
    /\ ~moved[p]
    /\ syncLock' = p
    /\ phase' = "close"
    /\ UNCHANGED <<taskVars, connected, attempt, slot, leaked, orders>>

\* _recover that does not wait for its turn.
Bug_RecoverUnlocked(p) ==
    /\ pc[p] = "recover" /\ syncLock # p
    /\ ~moved[p]
    /\ syncLock' = p
    /\ connected' = FALSE
    /\ phase' = "close"
    /\ UNCHANGED <<taskVars, attempt, slot, leaked, orders>>

\* _recover for a reader whose epoch is still current.
TakeToRecover(p) ==
    /\ pc[p] = "recover"
    /\ syncLock = Nobody
    /\ ~moved[p]
    /\ syncLock' = p
    /\ connected' = FALSE
    /\ phase' = "close"
    /\ UNCHANGED <<taskVars, attempt, slot, leaked, orders>>

\* _recover for a reader whose disconnect another reader has dealt with.
AlreadyRecovered(p) ==
    /\ pc[p] = "recover"
    /\ syncLock = Nobody
    /\ moved[p]
    /\ pc' = [pc EXCEPT ![p] = "gate2"]
    /\ moved' = [moved EXCEPT ![p] = FALSE]
    /\ UNCHANGED <<tries, broken, submits, syncVars, slot, leaked, orders>>
-----------------------------------------------------------------------------
(* The holder of _sync_lock.                                                *)

\* The stream goes away, under whatever calls are being made on it.
StreamGone == broken' = [p \in Procs |-> broken[p] \/ p \in Invoking]

\* broker.close(): drops the stream.  A close that outlives close_timeout is
\* abandoned, and upstream may go on counting its stream.
CloseStream ==
    /\ slot' = "none"
    /\ StreamGone
    /\ \/ UNCHANGED leaked
       \/ slot # "none" /\ leaked' = TRUE

\* _release_slot
ReleaseSlot(p) ==
    /\ syncLock = p /\ phase = "close"
    /\ CloseStream
    /\ phase' = "attempt"
    /\ attempt' = 1
    /\ UNCHANGED <<pc, tries, moved, submits, connected, syncLock,
                   orders>>

\* broker.synchronize() opens the stream and waits for it to synchronize.
\* A slot that is still taken answers TooManyRequests.
OpenStream(p) ==
    /\ syncLock = p /\ phase = "attempt"
    /\ IF slot = "none" /\ ~leaked
       THEN slot' = "opening" /\ phase' = "opening"
       ELSE phase' = "backoff" /\ UNCHANGED slot
    /\ UNCHANGED <<taskVars, connected, syncLock, attempt, leaked, orders>>

\* The stream is synchronized.  A recovery also moves the epoch.
Synchronized(p) ==
    /\ syncLock = p /\ phase = "opening"
    /\ slot' = "open"
    /\ connected' = TRUE
    /\ syncLock' = Nobody /\ phase' = "none" /\ attempt' = 1
    /\ IF pc[p] = "recover"
       THEN /\ moved' = [q \in Readers |->
                           q # p /\ pc[q] \in {"gate", "invoke", "recover"}]
            /\ pc' = [pc EXCEPT ![p] = "gate2"]
       ELSE Proceed(p)
    /\ UNCHANGED <<tries, broken, submits, leaked, orders>>

\* synchronize() failed: the broker closes what it opened.
SyncFailed(p) ==
    /\ syncLock = p /\ phase = "opening"
    /\ CloseStream
    /\ phase' = "backoff"
    /\ UNCHANGED <<pc, tries, moved, submits, connected, syncLock,
                   attempt, orders>>

\* A synchronization that never gives up.
Bug_BackoffForEver(p) ==
    /\ syncLock = p /\ phase = "backoff"
    /\ connected' = FALSE
    /\ phase' = "attempt"
    /\ UNCHANGED <<taskVars, syncLock, attempt, slot, leaked, orders>>

\* One attempt more than max_sync_attempts.
Bug_BackoffOffByOne(p) ==
    /\ syncLock = p /\ phase = "backoff"
    /\ connected' = FALSE
    /\ IF attempt <= MaxSyncAttempts
       THEN /\ attempt' = attempt + 1 /\ phase' = "attempt"
            /\ UNCHANGED <<taskVars, syncLock>>
       ELSE /\ Return(p)
            /\ syncLock' = Nobody /\ phase' = "none" /\ attempt' = 1
    /\ UNCHANGED <<slot, leaked, orders>>

\* The delay after a failed attempt: try again, or give up with SYNC_FAILED.
Backoff(p) ==
    /\ syncLock = p /\ phase = "backoff"
    /\ connected' = FALSE
    /\ IF attempt < MaxSyncAttempts
       THEN /\ attempt' = attempt + 1 /\ phase' = "attempt"
            /\ UNCHANGED <<taskVars, syncLock>>
       ELSE /\ Return(p)
            /\ syncLock' = Nobody /\ phase' = "none" /\ attempt' = 1
    /\ UNCHANGED <<slot, leaked, orders>>
-----------------------------------------------------------------------------
(* Reads.                                                                   *)

\* The broker call begins on the stream there is.
Begin(p, label) ==
    /\ pc' = [pc EXCEPT ![p] = label]
    /\ broken' = [broken EXCEPT ![p] = slot # "open"]

\* The gate counts only the first try of a read.
Bug_GateFirstOnly(p) ==
    /\ p \in Readers
    /\ pc[p] \in {"gate", "gate2"}
    /\ Cardinality({q \in Readers : pc[q] = "invoke"}) < ReadConcurrency
    /\ Begin(p, IF pc[p] = "gate" THEN "invoke" ELSE "invoke2")
    /\ UNCHANGED <<tries, moved, submits, syncVars, slot, leaked, orders>>

\* A permit of _read_gate is free.
EnterGate(p) ==
    /\ p \in Readers
    /\ pc[p] \in {"gate", "gate2"}
    /\ Cardinality(Invoking \cap Readers) < ReadConcurrency
    /\ Begin(p, IF pc[p] = "gate" THEN "invoke" ELSE "invoke2")
    /\ UNCHANGED <<tries, moved, submits, syncVars, slot, leaked, orders>>

\* The read is answered, or fails with an error that is not retried.
ReadReturns(p) ==
    /\ p \in Readers /\ p \in Invoking
    /\ ~broken[p]
    /\ Return(p)
    /\ UNCHANGED <<syncVars, slot, leaked, orders>>

\* NotConnectedError: one shared recovery, and the error the second time.
ReadDisconnected(p) ==
    /\ p \in Readers /\ p \in Invoking
    /\ broken[p]
    /\ IF pc[p] = "invoke"
       THEN /\ pc' = [pc EXCEPT ![p] = "recover"]
            /\ broken' = [broken EXCEPT ![p] = FALSE]
            /\ UNCHANGED <<tries, moved, submits>>
       ELSE Return(p)
    /\ UNCHANGED <<syncVars, slot, leaked, orders>>

\* TIMEOUT, TooManyRequests or 504: again after a pause, up to ReadAttempts
\* times; a candle flight counts its attempts itself.
ReadFails(p) ==
    /\ p \in Readers /\ p \in Invoking
    /\ IF tries[p] < ReadAttempts /\ p \notin Candles
       THEN /\ pc' = [pc EXCEPT ![p] = "pause"]
            /\ broken' = [broken EXCEPT ![p] = FALSE]
            /\ moved' = [moved EXCEPT ![p] = FALSE]
            /\ UNCHANGED <<tries, submits>>
       ELSE Return(p)
    /\ UNCHANGED <<syncVars, slot, leaked, orders>>

ReadAgain(p) ==
    /\ pc[p] = "pause"
    /\ pc' = [pc EXCEPT ![p] = "ensure"]
    /\ tries' = [tries EXCEPT ![p] = @ + 1]
    /\ UNCHANGED <<moved, broken, submits, syncVars, slot, leaked,
                   orders>>

\* The last waiter left a candle flight: its task is cancelled at its await
\* and every lock it holds is released; the stream stays as it is.
Cancel(p) ==
    /\ p \in Candles /\ pc[p] # "idle"
    /\ Return(p)
    /\ IF syncLock = p
       THEN syncLock' = Nobody /\ phase' = "none" /\ attempt' = 1
       ELSE UNCHANGED <<syncLock, phase, attempt>>
    /\ UNCHANGED <<connected, slot, leaked, orders>>
-----------------------------------------------------------------------------
(* Mutations.                                                               *)

\* No _rpc_lock around the duplicate check and the order.
Bug_NoOrderLock == TRUE

OrderLockFree == Invoking \cap Mutators = {}

\* Under _rpc_lock: an equal order that succeeded inside the window is
\* answered with its receipt.
Duplicate(p) ==
    /\ pc[p] = "rpc" /\ OrderLockFree
    /\ remembered
    /\ Return(p)
    /\ UNCHANGED <<syncVars, slot, leaked, orders>>

\* Under _rpc_lock: the order goes to the broker, if there is a stream.
Submit(p) ==
    /\ pc[p] = "rpc" /\ OrderLockFree
    /\ ~remembered
    /\ Begin(p, "invoke")
    /\ submits' = [submits EXCEPT ![p] = IF slot = "open" THEN @ + 1 ELSE @]
    /\ UNCHANGED <<tries, moved, syncVars, slot, leaked, orders>>

\* The receipt; it is remembered for the duplicate window.
OrderDone(p) ==
    /\ p \in Mutators /\ pc[p] = "invoke"
    /\ ~broken[p]
    /\ Return(p)
    /\ remembered' = TRUE
    /\ UNCHANGED <<syncVars, slot, leaked, adrift>>

\* An order that lost its stream is sent again on the next one.
Bug_OrderResent(p) ==
    /\ p \in Mutators /\ pc[p] = "invoke"
    /\ broken[p]
    /\ pc' = [pc EXCEPT ![p] = "ensure"]
    /\ connected' = FALSE
    /\ UNCHANGED <<tries, moved, broken, submits, syncLock, phase,
                   attempt, slot, leaked, orders>>

\* A call that reached the broker ends without a receipt: nothing is
\* remembered, and upstream may still carry the order out.
GivenUp(p) ==
    /\ UNCHANGED remembered
    /\ \/ UNCHANGED adrift
       \/ submits[p] > 0 /\ adrift' = TRUE

\* NotConnectedError: marked disconnected, raised, never sent again.
OrderDisconnected(p) ==
    /\ p \in Mutators /\ pc[p] = "invoke"
    /\ broken[p]
    /\ Return(p)
    /\ connected' = FALSE
    /\ GivenUp(p)
    /\ UNCHANGED <<syncLock, phase, attempt, slot, leaked>>

\* A timeout or any other broker error is raised as it is.
OrderFails(p) ==
    /\ p \in Mutators /\ pc[p] = "invoke"
    /\ Return(p)
    /\ GivenUp(p)
    /\ UNCHANGED <<syncVars, slot, leaked>>
-----------------------------------------------------------------------------
(* The broker and the clock.                                                *)

\* The terminal loses its broker: calls on it answer "not connected".
Lose ==
    /\ slot = "open"
    /\ slot' = "lost"
    /\ StreamGone
    /\ UNCHANGED <<pc, tries, moved, submits, syncVars, leaked,
                   orders>>

\* Upstream notices that an abandoned stream is dead.
LeakEnds ==
    /\ leaked /\ leaked' = FALSE
    /\ UNCHANGED <<taskVars, syncVars, slot, orders>>

WindowEnds ==
    /\ remembered /\ remembered' = FALSE
    /\ UNCHANGED <<taskVars, syncVars, slot, leaked, adrift>>

\* Upstream carries such an order out after all, or drops it.
Decided ==
    /\ adrift /\ adrift' = FALSE
    /\ UNCHANGED <<taskVars, syncVars, slot, leaked, remembered>>
-----------------------------------------------------------------------------

\* Steps that need nothing of the broker: a lock or a permit that is free, a
\* flag, a sleep that is over.
OwnStep(p) ==
    \/ AlreadyConnected(p) \/ TakeToConnect(p)
    \/ TakeToRecover(p) \/ AlreadyRecovered(p)
    \/ OpenStream(p) \/ Backoff(p)
    \/ EnterGate(p) \/ ReadAgain(p)
    \/ Duplicate(p) \/ Submit(p)

\* The ends of SDK calls: of a close or a synchronization, a read, an order.
CallReturns(p) ==
    \/ ReleaseSlot(p) \/ Synchronized(p) \/ SyncFailed(p)
    \/ ReadReturns(p) \/ ReadDisconnected(p) \/ ReadFails(p)
    \/ OrderDone(p) \/ OrderDisconnected(p) \/ OrderFails(p)

Task(p) == OwnStep(p) \/ CallReturns(p)

Next ==
    \/ \E p \in Procs : Call(p) \/ Task(p)
    \/ \E p \in Candles : Cancel(p)
    \/ Lose
    \/ LeakEnds
    \/ WindowEnds
    \/ Decided

Spec == Init /\ [][Next]_vars

\* asyncio resumes a task whose await is over.  _sync_lock, _rpc_lock and
\* _read_gate serve in FIFO order, so a task to which one is free again and
\* again gets it: strong fairness.  Nothing says that an SDK call ends: on
\* Python 3.9 asyncio.wait_for returns only when the task it has cancelled
\* does.  Candle reads alone wait with asyncio.wait and abandon theirs.
Fairness ==
    /\ \A p \in Procs : SF_vars(OwnStep(p))
    /\ \A p \in Candles : WF_vars(p \in Invoking /\ CallReturns(p))

FairSpec == Spec /\ Fairness
-----------------------------------------------------------------------------
(* What must hold.                                                          *)

\* The variables have their types: no read and no synchronization is tried
\* more often than it may be.
TypeOK ==
    /\ pc \in [Procs -> Labels]
    /\ tries \in [Readers -> 1..ReadAttempts]
    /\ moved \in [Readers -> BOOLEAN]
    /\ broken \in [Procs -> BOOLEAN]
    /\ submits \in [Mutators -> Nat]
    /\ connected \in BOOLEAN
    /\ syncLock \in Procs \cup {Nobody}
    /\ phase \in Phases
    /\ attempt \in 1..MaxSyncAttempts
    /\ slot \in {"none", "opening", "open", "lost"}
    /\ leaked \in BOOLEAN
    /\ remembered \in BOOLEAN
    /\ adrift \in BOOLEAN

\* _read_gate never lets more than ReadConcurrency reads through to the broker
\* at once, those a recovery sends through it a second time included.
GateBounded == Cardinality(Invoking \cap Readers) <= ReadConcurrency

\* The hub never asks for a synchronization while it still holds a stream,
\* not even after a task was cancelled half-way through opening one: a
\* TooManyRequests is never of its own making.
OwnSlotFree == phase = "attempt" => slot = "none"

\* The connected flag is the truth about the slot: while it is up there is a
\* stream and nobody is working on it, so the reads that skip the lock on it
\* never run into a reconnect under way.
ConnectedHasStream ==
    connected => slot \in {"open", "lost"} /\ syncLock = Nobody

\* Equal orders that race for the order lock are taken one at a time, and none
\* while the receipt of another is remembered.  A call that failed leaves no
\* receipt: what it sent may be carried out beside the next equal order.
NoTwinOrder ==
    /\ \A p, q \in Mutators : {p, q} \subseteq Invoking => p = q
    /\ remembered => Invoking \cap Mutators = {}

\* The duplicate window is there so that equal orders do not both fill; the
\* code does not hold this much.
NoTwinUpstream == adrift => Invoking \cap Mutators = {}

\* One call reaches the broker with its order at most once, whatever happens
\* to the stream, to the acknowledgement and to the tasks around it.
OrderSentOnce == \A p \in Mutators : submits[p] <= 1

\* The owner implements the abstract slot: one task at a time, close before
\* open, up only from opening.
Slot == INSTANCE SyncSlot WITH holder <- syncLock
ImplementsSlot == Slot!Spec

\* p awaits an SDK call of its own; a candle read never does for long.
AtBroker(p) ==
    \/ p \in Invoking \ Candles
    \/ syncLock = p /\ phase \in {"close", "opening"}

\* What may keep p from going on: its own SDK call, or one made by whoever
\* holds what p waits for.
BehindBroker(p) ==
    \/ AtBroker(p)
    \/ /\ pc[p] \in {"ensure", "recover"}
       /\ \E q \in Procs : syncLock = q /\ AtBroker(q)
    \/ /\ pc[p] \in {"gate", "gate2"}
       /\ Cardinality({q \in Readers : AtBroker(q) /\ q \in Invoking})
            >= ReadConcurrency
    \/ pc[p] = "rpc" /\ \E q \in Mutators : AtBroker(q)

\* Every call ends, with an answer or an error, or is in the end for ever
\* behind an SDK call that does not: no lock, permit, retry or recovery of the
\* hub's own keeps one waiting, a stuck order stops no read, a stuck read no
\* order, and no candle read is stuck in its own call.
CallEnds ==
    \A p \in Procs : []<>(pc[p] = "idle") \/ <>[]BehindBroker(p)

\* The docstring of _recover: one reconnect for every engine that observed the
\* same disconnect.  A reader that starts a reconnect never tears down a
\* working stream: its own call failed on one that was gone, so an open one
\* has been synchronized since.
OneReconnectPerDisconnect ==
    [][\A p \in Readers :
         syncLock # p /\ syncLock' = p /\ pc[p] = "recover"
           => slot # "open"]_vars
=============================================================================
