---------------------------- MODULE CandleFlight ----------------------------
(***************************************************************************)
(* metaapi_hub/owner.py, historical_candles: the single-flight candle fetch *)
(* of one key (symbol, timeframe, limit), its short cache, its retries and  *)
(* its stale fallback.  Keys share nothing but the read gate (SyncOwner).   *)
(* A request is atomic but for awaiting its flight; a flight is the task of *)
(* _load_candles, and reads through the broker call of _invoke_read.        *)
(***************************************************************************)
EXTENDS Naturals, FiniteSets

CONSTANTS
    Requests,         \* concurrent requests for the key
    Flights,          \* names of flights, used again once nobody knows them
    CandleAttempts,   \* candle_attempts
    MaxOrphans,       \* bound: abandoned broker calls at a time
    None

ASSUME FlightAssumption ==
    /\ IsFiniteSet(Requests) /\ IsFiniteSet(Flights)
    /\ Cardinality(Flights) >= Cardinality(Requests)
    /\ None \notin Requests \cup Flights
    /\ CandleAttempts \in Nat \ {0}
    /\ MaxOrphans \in Nat

VARIABLES
    joined,    \* request -> the flight it awaits
    task,      \* flight -> what its task is doing
    fetchTry,  \* flight -> attempt of _load_candles
    waiters,   \* flight -> _Flight.waiters
    inflight,  \* _inflight[key]
    good,      \* age of the last good set, in _cache and _last_good alike
    orphans    \* broker calls that were abandoned and still run

flightVars == <<joined, task, fetchTry, waiters, inflight, good, orphans>>

Running == {"reading", "backoff"}
Done == {"ok", "stale", "failed"}
Ages == {"none", "fresh", "usable", "old"}  \* cache_ttl, candle_stale_ttl

FlightInit ==
    /\ joined = [q \in Requests |-> None]
    /\ task = [f \in Flights |-> "unused"]
    /\ fetchTry = [f \in Flights |-> 1]
    /\ waiters = [f \in Flights |-> 0]
    /\ inflight = None
    /\ good = "none"
    /\ orphans = 0
-----------------------------------------------------------------------------
(* Requests.                                                                *)

\* The flight a request may join.
Current == IF inflight # None /\ task[inflight] \in Running THEN inflight
                                                            ELSE None

\* Bug_ operators are defects a change could introduce; no action uses them.
\* Here: a joiner that is not counted.
Bug_JoinUncounted(q) ==
    /\ joined[q] = None /\ good # "fresh"
    /\ Current # None
    /\ joined' = [joined EXCEPT ![q] = Current]
    /\ UNCHANGED <<task, fetchTry, waiters, inflight, good, orphans>>

\* The cache is too old and a fetch is under way: wait for that one.
Join(q) ==
    /\ joined[q] = None /\ good # "fresh"
    /\ Current # None
    /\ joined' = [joined EXCEPT ![q] = Current]
    /\ waiters' = [waiters EXCEPT ![Current] = @ + 1]
    /\ UNCHANGED <<task, fetchTry, inflight, good, orphans>>

\* No fetch is under way, or a finished one lingers: start one.
Launch(q) ==
    /\ joined[q] = None /\ good # "fresh"
    /\ Current = None
    /\ \E f \in Flights : task[f] = "unused"
    /\ LET f == CHOOSE g \in Flights : task[g] = "unused"
       IN  /\ task' = [task EXCEPT ![f] = "reading"]
           /\ waiters' = [waiters EXCEPT ![f] = 1]
           /\ joined' = [joined EXCEPT ![q] = f]
           /\ inflight' = f
    /\ UNCHANGED <<fetchTry, good, orphans>>

\* Every waiter that leaves frees the slot, whoever holds it now.
Bug_PopAny(f) == inflight' = None

\* _inflight.pop, if the flight is still the one in the slot.
Pop(f) == inflight' = IF inflight = f THEN None ELSE inflight

\* _leave_flight of a flight that has finished: its slot is freed.
LeaveDone(q) ==
    LET f == joined[q]
    IN  /\ f # None /\ task[f] \in Done
        /\ joined' = [joined EXCEPT ![q] = None]
        /\ waiters' = [waiters EXCEPT ![f] = @ - 1]
        /\ Pop(f)
        /\ IF waiters[f] = 1
           THEN /\ task' = [task EXCEPT ![f] = "unused"]
                /\ fetchTry' = [fetchTry EXCEPT ![f] = 1]
           ELSE UNCHANGED <<task, fetchTry>>
        /\ UNCHANGED <<good, orphans>>

\* The caller is cancelled while others wait for the same flight.
LeaveOthers(q) ==
    LET f == joined[q]
    IN  /\ f # None /\ task[f] \in Running /\ waiters[f] > 1
        /\ joined' = [joined EXCEPT ![q] = None]
        /\ waiters' = [waiters EXCEPT ![f] = @ - 1]
        /\ UNCHANGED <<task, fetchTry, inflight, good, orphans>>

\* The last one out does not stop the fetch nor free the slot.
Bug_LeaveRunning(q) ==
    LET f == joined[q]
    IN  /\ f # None /\ task[f] \in Running
        /\ joined' = [joined EXCEPT ![q] = None]
        /\ waiters' = [waiters EXCEPT ![f] = @ - 1]
        /\ UNCHANGED <<task, fetchTry, inflight, good, orphans>>

\* The last caller is cancelled: the flight is dropped from the slot and
\* cancelled, and a broker call it had begun is abandoned, not awaited.
LeaveLast(q) ==
    LET f == joined[q]
    IN  /\ f # None /\ task[f] \in Running /\ waiters[f] <= 1
        /\ joined' = [joined EXCEPT ![q] = None]
        /\ waiters' = [waiters EXCEPT ![f] = 0]
        /\ Pop(f)
        /\ task' = [task EXCEPT ![f] = "unused"]
        /\ fetchTry' = [fetchTry EXCEPT ![f] = 1]
        /\ \/ UNCHANGED orphans
           \/ /\ task[f] = "reading" /\ orphans < MaxOrphans
              /\ orphans' = orphans + 1
        /\ UNCHANGED good
-----------------------------------------------------------------------------
(* Flights.                                                                 *)

\* The broker answered.
Loaded(f) ==
    /\ task[f] = "reading"
    /\ task' = [task EXCEPT ![f] = "ok"]
    /\ good' = "fresh"
    /\ UNCHANGED <<joined, fetchTry, waiters, inflight, orphans>>

\* An error that is not retried.
Refused(f) ==
    /\ task[f] = "reading"
    /\ task' = [task EXCEPT ![f] = "failed"]
    /\ UNCHANGED <<joined, fetchTry, waiters, inflight, good, orphans>>

\* The attempts are used up: the last good set, if it is young enough.
Exhausted(f) == task' = [task EXCEPT ![f] =
    IF good \in {"fresh", "usable"} THEN "stale" ELSE "failed"]

\* One attempt more than candle_attempts.
Bug_AgainOffByOne(f) == IF fetchTry[f] <= CandleAttempts
                        THEN task' = [task EXCEPT ![f] = "backoff"]
                        ELSE Exhausted(f)

\* One attempt failed with a retryable error.
Again(f) == IF fetchTry[f] < CandleAttempts
            THEN task' = [task EXCEPT ![f] = "backoff"]
            ELSE Exhausted(f)

\* The broker call failed.
Failed(f) ==
    /\ task[f] = "reading"
    /\ Again(f)
    /\ UNCHANGED <<joined, fetchTry, waiters, inflight, good, orphans>>

\* It exceeded rpc_timeout: abandoned, it goes on at the broker without the
\* permit of the gate it had, and its answer is dropped.
TimedOut(f) ==
    /\ task[f] = "reading"
    /\ orphans < MaxOrphans
    /\ orphans' = orphans + 1
    /\ Again(f)
    /\ UNCHANGED <<joined, fetchTry, waiters, inflight, good>>

\* A retry that is not counted.
Bug_RetryUncounted(f) ==
    /\ task[f] = "backoff"
    /\ task' = [task EXCEPT ![f] = "reading"]
    /\ UNCHANGED <<joined, fetchTry, waiters, inflight, good, orphans>>

Retry(f) ==
    /\ task[f] = "backoff"
    /\ task' = [task EXCEPT ![f] = "reading"]
    /\ fetchTry' = [fetchTry EXCEPT ![f] = @ + 1]
    /\ UNCHANGED <<joined, waiters, inflight, good, orphans>>

\* _orphan_finished
OrphanEnds ==
    /\ orphans > 0 /\ orphans' = orphans - 1
    /\ UNCHANGED <<joined, task, fetchTry, waiters, inflight, good>>

\* The good set ages.  The waiters of a finished flight wake in the loop's
\* next pass, before any time to speak of has gone by.
Age ==
    /\ good \in {"fresh", "usable"}
    /\ \A f \in Flights : task[f] \notin Done
    /\ good' = IF good = "fresh" THEN "usable" ELSE "old"
    /\ UNCHANGED <<joined, task, fetchTry, waiters, inflight, orphans>>
-----------------------------------------------------------------------------

Fly(f) == Loaded(f) \/ Refused(f) \/ Failed(f) \/ TimedOut(f) \/ Retry(f)

FlightNext ==
    \/ \E q \in Requests : \/ Join(q) \/ Launch(q)
                           \/ LeaveDone(q) \/ LeaveOthers(q) \/ LeaveLast(q)
    \/ \E f \in Flights : Fly(f)
    \/ OrphanEnds
    \/ Age

FlightSpec == FlightInit /\ [][FlightNext]_flightVars

\* A broker call ends or times out, a sleep ends, and a waiter wakes once its
\* flight is finished.  That a waiter is cancelled is never owed to anyone.
FlightFairness ==
    /\ \A f \in Flights : WF_flightVars(Fly(f))
    /\ \A q \in Requests : WF_flightVars(LeaveDone(q))

FlightFairSpec == FlightSpec /\ FlightFairness
-----------------------------------------------------------------------------
(* What must hold.                                                          *)

\* The variables have their types; no flight tries more often than it may.
FlightTypeOK ==
    /\ joined \in [Requests -> Flights \cup {None}]
    /\ task \in [Flights -> {"unused"} \cup Running \cup Done]
    /\ fetchTry \in [Flights -> 1..CandleAttempts]
    /\ waiters \in [Flights -> Nat]
    /\ inflight \in Flights \cup {None}
    /\ good \in Ages
    /\ orphans \in 0..MaxOrphans

\* However requests join, are cancelled and overlap with flights that are
\* finished but not yet left, one fetch at most is under way for the key.
SingleFlight ==
    \A f, g \in Flights : task[f] \in Running /\ task[g] \in Running => f = g

\* An engine that gives up never takes away the fetch another one awaits.
NobodyStranded == \A q \in Requests : joined[q] # None => task[joined[q]] # "unused"

\* A fetch nobody waits for does not hold the slot: the next request starts a
\* new call instead of joining a hung one.
SlotAwaited ==
    \A f \in Flights : task[f] \in Running => \E q \in Requests : joined[q] = f

\* Every request is answered, or was cancelled.
Answered == \A q \in Requests : joined[q] # None ~> joined[q] = None
=============================================================================
