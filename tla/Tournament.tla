----------------------------- MODULE Tournament -----------------------------
(***************************************************************************)
(* backtester/tournament.py: every profile that passes the verifier is run   *)
(* over every time window by a pool of worker processes; the results arrive  *)
(* in any order, are joined per profile, ranked, and the best are written to *)
(* the directory the paper trader reads.                                     *)
(***************************************************************************)
EXTENDS Integers, FiniteSetsExt, SequencesExt

CONSTANTS
    Setups,        \* combinations of risk model, entry mode, pyramid and exit
    FilterCombos,  \* sets of filters
    Instruments,
    Windows,       \* numbered from the shortest, as they end on the same day
    Sharpes,       \* ratios a backtest may have, in tenths
    Drawdowns,     \* in thousandths of the peak
    TopN           \* how many profiles are exported (10)

ASSUME TournamentAssumption ==
    /\ IsFiniteSet(Setups) /\ IsFiniteSet(FilterCombos) /\ IsFiniteSet(Instruments)
    /\ {"none"} \notin FilterCombos
    /\ Windows = 1 .. Cardinality(Windows) /\ Windows # {}
    /\ Sharpes \subseteq Int /\ Drawdowns \subseteq Nat
    /\ TopN \in Nat \ {0}

VARIABLES
    stage,      \* "running", "clearing", "writing", "done" or "aborted"
    screened,   \* the profiles dispatched
    shortest,   \* for each instrument the shortest window its candles reach
    metrics,    \* what the backtest of a profile over a window comes to
    open,       \* tasks whose future has not been collected
    results,    \* what as_completed has delivered
    ranking,    \* the qualified profiles, best first
    files       \* the export directory, what is written in the order of the ranks

tournamentVars == <<stage, screened, shortest, metrics, open, results, ranking, files>>

-----------------------------------------------------------------------------
Generated == [setup : Setups, filters : FilterCombos, instrument : Instruments]

\* The id joins the dimensions; an empty list of filters is the word "none".
ProfileId(p) == <<p.setup, IF p.filters = {} THEN {"none"} ELSE p.filters, p.instrument>>
Exported(id) ==
    [setup |-> id[1], filters |-> IF id[2] = {"none"} THEN {} ELSE id[2], instrument |-> id[3]]

\* The alphabetical order of the ids: any order that tells two ids apart.
Ids == {ProfileId(p) : p \in Generated}
Place == CHOOSE f \in [Ids -> 1 .. Cardinality(Ids)] : \A i, j \in Ids : f[i] = f[j] => i = j

\* What prescreen_profiles may keep of them; with --no-prescreen all.
Screenings == SUBSET Generated
\* The shortest window an instrument's candles reach, one too many if none.
Reaches == [Instruments -> Windows \cup {Cardinality(Windows) + 1}]

Failed == [error |-> TRUE]
Metrics == [sharpe : Sharpes, dd : Drawdowns, factor : {15}, trades : {40}]

Lesser(a, b) == IF a < b THEN a ELSE b
\* In ten thousandths: 40 % Sharpe, 30 % drawdown, 20 % profit factor, 10 % trades.
TournamentScore(m) ==
    400 * (IF m.sharpe > -30 THEN m.sharpe ELSE -30) + 3 * (1000 - Lesser(m.dd, 1000))
      + 40 * Lesser(m.factor, 50) + 10 * Lesser(m.trades, 100)

\* evaluate_multi_window_profiles over the results that are there.
Joined(id) == {r \in ToSet(results) : r.id = id}
Bug_Complete(id) == Joined(id) # {}
Complete(id) == \A w \in Windows : \E r \in Joined(id) : r.window = w
Safe(m) == m.sharpe > 0 /\ m.dd < 80
Qualified == {id \in Ids : Complete(id) /\ \A r \in Joined(id) : Safe(r.metrics)}
\* The mean over the windows, times their number.
Composite(id) == MapThenSumSet(LAMBDA r : TournamentScore(r.metrics), Joined(id))

Bug_Before(i, j) == Composite(i) > Composite(j)
Before(i, j) == Composite(i) > Composite(j) \/ (Composite(i) = Composite(j) /\ Place[i] > Place[j])

-----------------------------------------------------------------------------
Older == [rank \in 1 .. 2 |-> [old |-> rank]]
\* A file that was open when the program stopped.
Torn == [torn |-> TRUE]

TournamentInit ==
    /\ stage = "running"
    /\ screened \in Screenings
    /\ shortest \in Reaches
    /\ metrics \in [screened \X Windows -> Metrics \cup {Failed}]
    /\ open = screened \X Windows
    /\ results = <<>> /\ ranking = <<>>
    /\ files = Older

\* A window without candles gives no result, an exception in the backtest an
\* error; both are counted and dropped.
Answered(p, w) == w >= shortest[p.instrument] /\ metrics[<<p, w>>] # Failed

Collect(p, w) ==
    /\ stage = "running"
    /\ open' = open \ {<<p, w>>}
    /\ results' = IF Answered(p, w)
                  THEN Append(results, [id |-> ProfileId(p), window |-> w, metrics |-> metrics[<<p, w>>]])
                  ELSE results
    /\ UNCHANGED <<stage, screened, shortest, metrics, ranking, files>>

Evaluate ==
    /\ stage = "running" /\ open = {}
    /\ ranking' = SetToSortSeq(Qualified, Before)
    /\ stage' = IF Qualified = {} THEN "done" ELSE "clearing"
    /\ UNCHANGED <<screened, shortest, metrics, open, results, files>>

\* export_top_profiles removes the files of the tournament before one at a time, in
\* the order the directory lists them, then writes the first TopN, one by one, each
\* made from the id alone.
Clear ==
    /\ stage = "clearing"
    /\ \/ \E i \in DOMAIN files : files' = RemoveAt(files, i) /\ UNCHANGED stage
       \/ files = <<>> /\ stage' = "writing" /\ UNCHANGED files
    /\ UNCHANGED <<screened, shortest, metrics, open, results, ranking>>

Write ==
    /\ stage = "writing" /\ Len(files) < Lesser(TopN, Len(ranking))
    /\ files' = Append(files, Exported(ranking[Len(files) + 1]))
    /\ UNCHANGED <<stage, screened, shortest, metrics, open, results, ranking>>

Finish ==
    /\ stage = "writing" /\ Len(files) = Lesser(TopN, Len(ranking))
    /\ stage' = "done"
    /\ UNCHANGED <<screened, shortest, metrics, open, results, ranking, files>>

\* A worker process dies (future.result() raises), or the program is stopped, which
\* may leave the file it writes cut short.
Abort ==
    /\ stage \notin {"done", "aborted"}
    /\ stage' = "aborted"
    /\ \/ UNCHANGED files
       \/ stage = "writing" /\ Len(files) < Lesser(TopN, Len(ranking)) /\ files' = Append(files, Torn)
    /\ UNCHANGED <<screened, shortest, metrics, open, results, ranking>>

TournamentNext ==
    \/ \E t \in open : Collect(t[1], t[2])
    \/ Evaluate \/ Clear \/ Write \/ Finish \/ Abort

TournamentSpec == TournamentInit /\ [][TournamentNext]_tournamentVars

-----------------------------------------------------------------------------
\* What the tournament is for, told from the backtests themselves: a profile is
\* good if each of its windows has candles and a backtest with a Sharpe ratio
\* above 0 and a drawdown under 8 %.
Good(p) == \A w \in Windows :
    w >= shortest[p.instrument] /\ metrics[<<p, w>>] # Failed /\ Safe(metrics[<<p, w>>])
GoodIds == {ProfileId(p) : p \in {q \in screened : Good(q)}}
Mark(p) == MapThenSumSet(LAMBDA w : TournamentScore(metrics[<<p, w>>]), Windows)
Beats(p, q) == Mark(p) > Mark(q) \/ (Mark(p) = Mark(q) /\ Place[ProfileId(p)] > Place[ProfileId(q)])

\* When the last answer is in, what is ranked is what is good: no order of the
\* answers, missing window or failed backtest makes up, loses or mixes a profile
\* (353-383).
QualifiedAreGood == stage = "running" /\ open = {} => Qualified = GoodIds

\* In whatever order the workers answer, wherever the program stops: no file of the
\* tournament before stays beside a new one, and the new ones that are whole are the
\* best of the good screened profiles, in their order, none left out that beats one
\* that is in; at the end there are as many as there can be.  A tournament in which no
\* profile is good touches no file of the one before (tournament.py:398-399, 404, 594).
ExportedAreBest ==
    LET good == {p \in screened : Good(p)}
        old == ToSet(files) \cap ToSet(Older)
        new == SelectSeq(files, LAMBDA f : f \notin ToSet(Older) \cup {Torn})
    IN /\ old # {} => ToSet(files) \subseteq ToSet(Older)
       /\ ToSet(new) \subseteq good
       /\ \A i, j \in DOMAIN new : i < j => Beats(new[i], new[j])
       /\ \A i \in DOMAIN new : \A p \in good \ ToSet(new) : Beats(new[i], p)
       /\ good = {} => files = Older
       /\ stage = "done" /\ good # {} =>
            Torn \notin ToSet(files) /\ Len(new) = Lesser(TopN, Cardinality(good))
=============================================================================
