# Swing Screener: specifications and proofs

TLA+ modules of the parts of Swing Screener where the order of events or an edge of a
number matters: the trading book and the files it is kept in, the background runs, the
rules that manage a position, what a screener run meets on its way, and the stores
that runs leave behind. TLC checks them on small instances; TLAPS proves the main
results for every instance. Paths below are relative to the repository.

    tlc -config MCBook.cfg MCBook       # one run; PROJECT.json lists them all
    tlapm BookProofs.tla                # one module of proofs

## The system

Swing Screener is a FastAPI server (`api/`) over a Python library
(`src/swing_screener/`), with a React front end (`web-ui/`). It keeps all its state
in JSON, YAML and parquet files. `scripts/heroku_start.sh` starts one server process,
and says why: "background in-memory jobs should not split across workers".

Inside the process three things run at once:

- the **event loop**, which runs the `async def` handlers (portfolio, orders,
  configuration, strategy, watchlist, weekly reviews, one universe). They call blocking
  services and never await, so each handler runs from start to end before the next;
- the **thread pool**, which runs the `def` handlers (screener, pool, backtest,
  intelligence, fundamentals, daily review, all universes) and, for *every* handler,
  the `def` dependencies that build its repositories;
- **background threads**: one for each screener run, backtest and enrichment.

They meet in the files (some under `portalocker` locks, one lock for each access, some
under none), in the dictionaries of the run managers (under a `threading.Lock`) and in
`lru_cache`s.

| part | state | operations | what makes it hard | what makes it correct |
| --- | --- | --- | --- | --- |
| orders and positions book | `orders.json`, `positions.json` | create, submit, cancel, fill an order; create a position, move its stop, set its trail method, close it, in part or wholly | each request is several file accesses; a fill writes two files; it may die or time out between any two | an order is bought once, entries are not duplicated, ids are unique, stops only rise, shares are conserved |
| JSON file storage | any file of `data/` | read, write, read-modify-write, create when missing | truncate-then-dump, touch before the lock, lookups outside it | acknowledged edits stay, nobody reads half a file, locks are released |
| screener and backtest runs | a dictionary and a file for each job | start, the steps of the thread, poll, evict, recover after a restart | dictionary and file are written and read apart; writes may fail | polls never go backwards and end; an active job is kept |
| pool administration | `symbol_pool.json`, its lock, a dictionary and a file for each job | refresh universes, rebuild, enrich, poll, recover | the lock changes hands from request to thread; two read-modify-writes of minutes | nothing is clobbered; the lock is held by whoever is at work and is given back |
| stop rules and trade management | the position, the bars of its ticker, the advice on the screen | evaluate, advise, accept late or edit, close | a sequence of rules over a sequence of bars, each rounding on its own | an accepted advice settles the matter for the day, can be placed, and only raises the stop |
| backtest event study | the simulated trade | enter, manage, exit | the same rules, driven by other code over a calendar with holes | trades do not overlap, have prices, and behave as live ones |
| screener pipeline, with re-entry and daily review | the run's candidates | size, look in the portfolio, rank, show | the portfolio changes between the reads of a run of minutes | what is recommended fits the budget, also beside what is held |
| review queue, evaluation cache, screener history | one file each | count, queue, restore, record, prune | read and written apart by runs that overlap | a run's record stays in the history |
| OHLCV cache | a parquet for each ticker, an index | fetch, retry, fall back, store, clear | no lock; two files for each ticker; time | the index promises no more than the files hold |
| strategy store | `strategies.yaml` | list, create, update, delete, activate | not locked; loading may write | edits stay |
| universe registry | a snapshot for each universe, the master of instruments, caches of both | refresh one or all, set a benchmark, load | no lock; caches; two files written one after the other | every member is a known instrument; a benchmark stays |
| fundamentals | a snapshot for each company | load, fetch, store, fall back | requests overlap; an error is stored like figures | an outage does not replace figures, and is forgotten |
| risk, recommendation, ranking | none | score, label, decide, rank, value | many thresholds and penalties over the same, perhaps missing, figures; the browser values again what it has opened | better evidence does not rank lower; the card shows the server's value and what is wrong with the figures |
| intelligence | a file of the day for all tickers, a history for each | analyse, sweep, look up | no lock; two files; midnight | both files agree and keep what was said |
| web UI local book | browser storage | as the book | a second implementation, which keeps stop orders too | a position holds what its orders bought; its stop order is up to date |
| portfolio read model, settings, watchlist, weekly reviews, DeGiro, API shell, reporting, web UI, deployment | one document each, or none | read, replace, format | nothing that the parts above do not have | not modelled, see the end |

`PROJECT.json` lists every component with its sources, and every hazard at its line.

## The modules

| module | models |
| --- | --- |
| `Ledger` | what the book promises: its records, and the edits that may happen to them, one step each |
| `Book` | the handlers of `orders_service.py` and `portfolio/write.py`, one step for each file access; extends `Ledger` |
| `LocalBook` | the browser's book, `features/persistence/portfolioService.ts` |
| `JsonFile` | one file under `file_lock.py`, its creation, timeouts and crashes |
| `JobTable` | the dictionary of jobs and its trimming, shared by the next two |
| `RunManager` | `screener_run_manager.py` (and `backtest_run_manager.py`, the same code) |
| `PoolAdmin` | `pool_admin_service.py` and `pool_enrich_run_manager.py` |
| `Holding` | what any holding of a ticker promises, live or simulated |
| `StopRules` | `evaluate_positions` of `portfolio/state.py`, over the bars of a market |
| `Trade` | one live position: the stop advisor, the advice, the trader; extends `StopRules` |
| `Replay` | the backtest of one ticker, `event_study.py`; extends `StopRules` |
| `Sizing` | `risk/` and `execution/guidance.py`: shares, stop and verdict of a setup |
| `Reentry` | a candidate beside the portfolio, `same_symbol_reentry.py`; extends `Sizing` |
| `DailyReview` | `generate_daily_review`; extends `Reentry` |
| `OhlcvCache` | the cache of daily bars of `yfinance_provider.py` |
| `Screen` | screener runs on what they share: bars, counters, evaluations, history |
| `StrategyStore` | `strategy/storage.py` and its endpoints |
| `Universe` | `data/universe.py`: snapshots, master and caches |
| `Fundamentals` | `fundamentals/service.py` and `storage.py`: one stored snapshot |
| `Scoring`, `Decision`, `Ranking` | `fundamentals/scoring.py`, `recommendation/decision_summary.py`, `recommendation/priority.py` with `decision_context.py`, each extending the one before |
| `Valuation` | what a candidate's card says: the fair value and the warnings of `decision_summary.py`, and the browser's second implementation, `decisionSummary.ts`; extends `Decision` |
| `Filings` | what period each figure of a company is of: the providers under `fundamentals/providers/`, as a company files, amends and recasts its reports |
| `Intelligence` | `intelligence/cache.py`, `history.py`, `symbol_analyzer.py` and their router |
| `MCBook`, `MCJsonFile`, `MCRunManager`, `MCPoolAdmin`, `MCSymbol`, `MCScreener` | small instances, side by side, and the statements of the documentation that TLC refutes |
| `BookProofs` (of `Ledger`, `Book` and `LocalBook`), `JsonFileProofs` (of `JsonFile` and `Fundamentals`), `RunManagerProofs`, `PoolAdminProofs`, `SymbolProofs` (of `StopRules`, `Trade`, `Replay`, `Filings`, `Valuation` and `Scoring` to `Ranking`), `ReentryProofs` (of `Reentry` and `DailyReview`), `StoreProofs` (of `StrategyStore`, `Screen`, `Universe`, `OhlcvCache` and `Intelligence`) | the theorems |
| `Sums` | lemmas on finite sums and least elements, which two of them need |

An MC module has a variable `part`, chosen initially; only the variables of that part
move. The parts of a run are thus checked one after the other on the same constants.

Two abstract specifications have implementations. `Ledger!LedgerSpec` is implemented by
`Book`, which uses the same two variables for the files. `Holding` is implemented by
`Trade` (`Live == INSTANCE Holding WITH life <- pos.status, ...`, the property
`LiveSpec`) and by `Replay` (`Sim`, the property `SimSpec`): the live position and the
simulated trade, which different code moves, promise the same.

**Book over Ledger.** `orders` and `positions` are the two files, as sequences of
records. `pc[p]` is the next file access of the request that process `p` serves;
`odata[p]` and `pdata[p]` are what it holds in memory to write. `CreateOrder`, for
instance, is the read and the checks of `create_order`; `CheckPosition` the read of
`positions.json`, with the choice of an id; `AppendOrder` and `WriteOrders` the read
and the write of `append_order`. `Abandon` ends a request between any two accesses,
which stands for a crash, a lock timeout (503) and a failing write alike. Prices are
integers in tenths of a cent, so that rounding to a cent does something. A position
id is a uuid4, which here is a fresh number.

**LocalBook.** A handler of the browser reads the store, changes a copy and writes it
back in one go, so each is one action. Fills merge into the position of the ticker, and
the position's stop order is kept up to date, or is not.

**JsonFile.** The content of a file is the set of edits made to it, which is enough
to tell whether one was lost. Requests are of three kinds: readers; updaters, which
hold one exclusive lock from read to write (the review queue); and savers, which read
and write under two (orders, positions), but on the event loop, so one at a time. Each
begins with the lookup of `get_orders_repo`, which runs in the thread pool. `Book`
takes a file access as one step; `JsonFile` is the justification, and shows when it
fails (a crash in the middle of a dump, a file that is being created).

**RunManager, PoolAdmin.** `mem` is the dictionary, `file` the job files, `worker[j]`
the next step of the request that starts job `j` and then of its thread, `poll[c]` the
step of a poll. A screener's poll reads the file, puts what it read into the dictionary
under the lock, and copies its answer from that job without it, three steps between
which the thread may change the job; `early[c][j]` says that the answer was ahead of the
file. Status and result change in one step: a copy that has the one without the other
keeps the browser asking (`web-ui/src/features/screener/api.ts:74`). The run managers differ in one decision: the screener's `get_job` reads
the file first and lets it prevail; the enrichment's looks in the dictionary first.
A file is replaced by a rename there, so a write is one step that happens or, when the
disk may fail, does not; nor need the files of evicted jobs be removed then.
In `PoolAdmin` the pool is the set of its symbols and the set of those with taxonomy;
a rebuild replaces the first and keeps the second, an enrichment adds to the second.

**StopRules, Trade, Replay.** A market is the sequence of days on which the ticker
traded, each with its close, its average true range and the sum of the closes so far;
prices are in tenths of a cent. The rules are operators, each named for its code: a
moving average, the four trail methods, `Evaluate` with its order of precedence. In
`Trade` a day may pass, the rules are asked, and what they say stays on the screen as
`advice` until the trader accepts, edits or ignores it; the position is then changed by
the guards of `update_position_stop` and `close_position`. In `Replay` a bar is taken
at a time and every suggestion is applied, as `_simulate_forward` does.

**Sizing, Reentry, DailyReview.** Money is whole; the plan, the pattern's stop, the
regime, the cap and the fee gates are the steps of `engine.py` and its helpers, and
`Rebuilt` is what `_apply_decision` may make of the result. A run reads open positions,
closed positions and orders in three steps, then asks for the stop and shows; the user
acts between any two. `shown` is the candidate on the page and `order` the entry that
waits, so the time between the run, the order and its fill is part of the model.
`Dialog` is what the order dialog makes of the candidate at the price that is suggested,
any of `Prices`; beside an open position it asks for an add-on whatever the candidate
was shown as. `OrderByHand` is the dialog with its fields edited, or opened on what is
not recommended, which it lets pass (`enforceRecommendation` is off). Setups have one
stop, where the code has a plan's (`k_atr`) and, without a plan, one of two average true
ranges (`screener_service.py:807`); the properties hold of either.

**OhlcvCache, Screen.** Bars are `none`, `partial` or `final`. A request looks in the
index, then in files, then downloads, retries what is missing, merges, stores file by
file and then writes the index, each a step; `spoiled` names the tickers to which
happened one of the mishaps that the code does not undo (below). In `Screen` what was
fetched, what is counted, evaluated and recorded are separate steps of runs that
overlap; indicators and signals are a choice of candidates among what has bars.

**StrategyStore, Universe, Intelligence.** Each models documents which are read,
changed in memory and written as a whole, without a lock. The ghosts `crossed`,
`overruled`, `mixed`, `smeared` say when two requests got in each other's way, as what
is lost then is lost in the code too; the invariants hold of everything else. A write
that truncates first is two steps, so a reader may find it cut.

**Fundamentals.** `stored` is the snapshot, `torn` whether the file is cut. A request
loads, fetches or fails, and dumps, under a lock for each access that may time out.
`disturbed` says that the file was written or unreadable during the request.

**Scoring, Decision, Ranking, Valuation.** Pure operators over records of figures, in
whole ten-thousandths. `Ranking` makes a behaviour of them: a provider tells a record,
it is stored, a run ranks the candidate. So does `Valuation`: a run writes the card of a
candidate with the snapshot that is stored or before it is, and the browser opens it.
Of the card's warnings the one of an extended price is left out: it concerns no figure.

**Filings.** Time is counted in quarters, and a value says what it is of: how many
quarters it sums up, the last of them, and the filing that stated it. The state is what
the company has filed; the series, margins, growth and latest quarter that each provider
makes of it are operators over that. A fact's form tells its period (a `frame` that names
a quarter, `sec_edgar.py:93`, is not looked at).

## What is checked

Runs that pass:

| run | parts and bounds, and why they are enough | properties |
| --- | --- | --- |
| `book` | *several*: two orders and two positions of one ticker at one price, so that the second order can duplicate, follow or add to the first. *single*: one of each, prices 10.3, 10.4 and 12.0 cents, the first two in the same cent, two shares, so that a position is sold in parts. *local*: five orders, two positions, two prices, as each fill makes a stop order. One server process throughout | `UniqueIds`, `NoDoubleFill`, `FillIsRecorded`, `SharesConserved`, `StopsRatchet`, `LedgerSpec`; `LocalBookAgrees` |
| `files` | *updated*: three updaters and two readers of a file, one crash: two updaters race while a third waits. *missing*: the same as savers that all may find no file. *figures*: two overlapping requests for one company, snapshots of age 0 to 2, one crash, failing dump or timeout | `AcknowledgedKept`, `NoTornRead`, `CreationAloneLoses`; `FiguresKept`, `FiguresReturn` |
| `runs` | *failing*: room for one job of two and writes that fail, so every eviction happens. *good*: one run, two clients, two restarts, a disk that takes every write; with room for every job runs do not affect each other | `ActiveJobKept`, `ReportsTrue`; `GoodReportsAdvance`, `GoodPollingEnds` |
| `pool` | *roomy*: a rebuild and two jobs at once, failing threads and updates, a restart: any two of three compete for the lock. *full*: room for one job of two, two clients, job files that cannot be created | `LockMatches`, `NothingClobbered`, `PollingEnds`; `FullReportsAdvance` |
| `symbol` | *live* over three bars, *backtest* over six; four trail methods; closes of 80.5, 140.5 and 160 cents, with prices off the cent; an average of two bars. Every rule applies, and precedes every other, within these. *ranking*, *card*: figures on both sides of every mark they are judged by, and missing; each method of valuation applies and fails. *filings*: five quarters, with a year end among them and a second after it, one amendment or recast, one change of tag | `AdvicePlaceable`, `AdviceSettles`, `LiveSpec`; `TradesAreSound`, `SimSpec`; `EvidenceHelps`; `ServersValuation`, `DeficitsTold`; `PeriodsAreLike` |
| `screener` | *reentry*: any setup of three prices, run with the full budget, while the user buys, moves, sells and leaves two positions, so every mode and every limit on its size occurs; no position is worth more than the cap, and no stop of an order is below the three. *review*: the same for every budget, at two prices and single shares, with a review. *race*, *days*, *run*, *runs*, *strategies*, *universe*, *ticker*, *day*: the stores, with the bounds in the header of `MCScreener.cfg`: two requests that overlap, or two that follow each other over the days that make an entry stale | `RecommendedFits`, `AddOnFits`, `ReviewAgrees`, `ModeTrue`; `IndexIsTrue`, `HistoryIsKept`, `EditsAreKept`, `RegistryKept`, `AnalysesKept` |

What they say:

- **Book.** `NoDoubleFill`: an order is bought once, whatever is retried. `FillIsRecorded`:
  a position opened by a fill has its order on file as filled. `SharesConserved`: what
  was bought of a position is what it holds and what was sold. `StopsRatchet`: a stop on
  file never falls, as rounded. `LocalBookAgrees`: a position of the
  browser's book holds what its orders bought, and a waiting stop order of an open
  position sells all of it at its stop.
- **Files.** An acknowledged edit stays, whatever fails afterwards, and only creation
  can lose one; a request is told that a file does not parse only after a dump was left
  unfinished. `FiguresKept`: figures on file are not replaced by an error or by older
  ones unless the file was disturbed meanwhile. `FiguresReturn`: a file without figures
  has figures again.
- **Runs and pool.** What clients are told is true. While the disk takes writes, a screener's
  client is not told less than before, but for what it was told ahead of the file; while
  a job's file exists, no more is a client of the pool; polling ends; the lock is held by whoever
  is at work, through the hand-over and every failure, and keeps the two long
  read-modify-writes apart.
- **Trades.** `AdviceSettles`: after an advice of today is accepted the rules have
  nothing more to raise today, though it is rounded and compared by different code.
  `AdvicePlaceable`: what may be placed of an advice, the update accepts.
  `TradesAreSound`: a backtest books no exit at a missing price, and no trade before
  the one before is over.
- **Candidates and stores.** `RecommendedFits`, `AddOnFits`: whatever made the size of a recommended
  trade, it risks no more than the budget and costs no more than the cap; and the order
  that the dialog offers stays, together with the open position, within the budget,
  whatever the user sold and raised since, until he buys something else. Three things
  are excepted, as the code does not see to them: what the suggested price exceeds the
  entry, on each share; a second open position of the ticker; and an add-on that the
  dialog makes of a candidate that was to be managed only. `ModeTrue`: what a candidate is shown as was true at one of the run's reads or
  between them. `ReviewAgrees`: the review does not suggest a stop below the one it
  shows, and lists a ticker as new and as held only if it was bought meanwhile.
  `IndexIsTrue`: the index of bars promises no more than the files hold. `HistoryIsKept`,
  `EditsAreKept`, `RegistryKept`, `AnalysesKept`: what was recorded, edited, refreshed
  and said stays, where requests did not write over each other. `EvidenceHelps`: better
  or fresher figures, at the same valuation, never rank a candidate lower, nor does an
  error rank it higher than no snapshot. `ServersValuation`: what a card says of a
  company's worth is what the server makes of its snapshot, also where the browser has
  worked it out. `DeficitsTold`: a conviction that better figures would raise is
  shown with a warning about them, though only two warnings are kept. `PeriodsAreLike`: a
  growth that is told compares a period with one as long, a year before, as they were
  last stated, and a margin divides figures of one length, whatever was filed, amended,
  recast or tagged anew.

Every operation starts from a finite set of inputs, and the state is bounded by the
number of ids that may be drawn (`MaxOrders`, `MaxPositions`, `Jobs`, the requests), by
the days (`LastDay`, `MaxBars`), and by `MaxRestarts`, `MaxCrashes`, `MaxMishaps` and
`MaxEdits`. At those bounds nothing more can be asked of the server, which is why
deadlock is not checked.

Runs that find a violation, each of one statement of the code's own documentation:

| run | statement | what happens |
| --- | --- | --- |
| `book_crash` | a fill marks the order filled *and* opens the position | a handler that ends between the two writes leaves a filled order without a position, and the retry is a 409 |
| `pool_leak` | the pool lock is released whether enrichment succeeds or fails, and "busy" means that an operation is in progress | a provider that cannot be built leaves it taken until a restart |
| `trade_replay` | the backtest replays the live path | it moves the stop above the last close, which the live update refuses, and is stopped there at a price above the market |
| `cache_stale` | tickers without new data are served stale | stale bars are merged behind the empty column of the download, and lost |
| `cache_history` | historical windows never change | a bar stored while its day was trading is history the next day |
| `review_never` | symbols whose download failed are counted | they come back as empty columns, and are not |

Each property of a passing run also has a mutant, a small plausible bug in a
definition (in the modules, next to it: `..._AnyStatus`, `..._Cached`), under which TLC
finds the property violated.

### Fairness

`RunManager!FairSpec` and `PoolAdmin!FairSpec` assume weak fairness of each thread that
is alive, of each request that is being served, and nothing of what users do: no job
need be started. Threads are the operating system's, so one that can run does; the
run functions loop over finite lists and their network calls time out. The dictionary
lock is held for a few statements only. `SF_vars(Waiting(c, j) /\ Ask(c, j))` says that
a browser that was told "running" asks again, which is what the polling hooks of
`web-ui` do until the status is terminal; it is strong because a poll that is already
under way disables the next one. Starting, refreshing and restarting are not fair, and
restarts are bounded, as liveness across unboundedly many restarts is not promised.

`Fundamentals!Fairness` assumes weak fairness of requests being served, of the clock and
of someone asking for the company (a screener run does), and two things of the
environment: `SF_vars(Fetch(r))`, a provider that is asked for ever answers sometimes,
and `SF_vars(Open(r))`, a lock that is tried for ever is got sometimes (its timeout is
seconds, and who holds it writes a small file). `FiguresReturn` is about the code
given these: the cached error must grow old, the torn file must count as none, and no
request may keep an error for good.

## What is proved

For all values of the constants (under the `ASSUME`s of the modules, all of them types
and ranges of constants except where the table says otherwise):

| theorem | states | assumes |
| --- | --- | --- |
| `BookProofs!TypeCorrect` | `Spec => []TypeOK` | |
| `BookProofs!Implements` | `Spec => LedgerSpec` | one process |
| `BuysOnce`, `FillsRecorded`, `EntriesAlone`, `IdsUnique`, `SharesKept` | the safety properties of the book, the last `SharesConserved` | one process |
| `StopsOnlyRise`, `OrdersOnlyAdvance` | its action properties, by `Implements` and the ledger's | one process |
| `BookProofs!LedgerSafe` | the ledger keeps `LedgerInv` | |
| `BookProofs!LocalBookHolds` | `LocalBookAgrees`, of the browser's book | |
| `JsonFileProofs!AcknowledgedEditsKept`, `ReadsAreWhole` | `AcknowledgedKept`, `NoTornRead` | the file exists to begin with |
| `JsonFileProofs!UpdatesAccumulate`, `LocksAreReleased` | `OnlyCreationLoses`, `LocksReleased` | |
| `JsonFileProofs!FiguresStay` | `FiguresKept` | |
| `RunManagerProofs!ActiveJobsKept`, `ReportsAreTrue`, `TypeCorrect` | `ActiveJobKept`, `ReportsTrue`, `TypeOK` | |
| `RunManagerProofs!ReportsStay` | `ReportsAdvance`, with its exception for what was told before it was on file | the disk takes writes, and there is room for every job |
| `PoolAdminProofs!LockHeldByWorkers` | `LockMatches` | building the provider never fails |
| `PoolAdminProofs!PoolKept`, `TypeCorrect` | `NothingClobbered`, `TypeOK` | |
| `PoolAdminProofs!AnswersStay` | `ReportsAdvance` | a file that exists can be written and removed |
| `SymbolProofs!TradeIsHolding` | `Spec => LiveSpec`: a live position is a holding | |
| `TradeAdviceSettles`, `TradeTypeCorrect` | `AdviceSettles`, `TypeOK` | |
| `TradeAdvicePlaceable` | `AdvicePlaceable` | `Coarse`: the closes are whole cents, or no rule keeps a stop within half a cent of them |
| `ReplayIsHolding` | `SimSpec`: a simulated trade is a holding | |
| `ReplayIsSound`, `ReplayTypeCorrect` | `TradesAreSound`, `TypeOK` | |
| `PeriodsHold` | `PeriodsAreLike` | |
| `DeficitsAreTold` | `DeficitsTold` | |
| `CardsAgree` | `ServersValuation` | `WorthAssumption`, see below |
| `EvidenceNeverHurts` | `EvidenceHelps` | revenues are not negative, as `\div` has no meaning by less than nothing |
| `ReentryProofs!RecommendationsFit`, `AddOnsFit` | `RecommendedFits`, `AddOnFits` | |
| `ModesAreTrue`, `ReviewsAgree` | `ModeTrue`, `ReviewAgrees` | |
| `StoreProofs!StrategyEditsKept` | `EditsAreKept` | |
| `RunHistoryKept`, `RegistryStays`, `IndexStaysTrue`, `AnalysesStay` | `HistoryIsKept`, `RegistryKept`, `IndexIsTrue`, `AnalysesKept` | |

Two assumptions on constants say more than a type. `MarketAssumption`: a close and a
price of a trader are positive, and 0 is the price of a day that has none.
`WorthAssumption`: a share costs a dime or more (`min_price` of `config/defaults.yaml`
asks five dollars, unless a request asks for less), as of a cheaper one the estimate may
be rounded to nothing, which the server takes for no estimate and the browser does not;
and a provider that tells a company's book value as nothing or less does not tell a
price to book of it between 0 and 10 as well, as the browser would then value the
company by it.

**The ledger.** `LedgerInv` is the conjunction of the record types and the safety
properties. It is inductive only as a whole: that no order is filled twice rests on
every filled position having its order on file as filled, which rests on ids being
unique. Three lemmas (`OrdersEditStep`, `PositionsEditStep` and the ones on rounding)
carry it through each edit.

**The book.** The files alone do not say why the next write is legal: a handler writes
a list it read some steps ago. `BookInv` adds to `LedgerInv`, for each value of `pc[p]`,
what the list in memory is (`HandlerOK`): an edit, by the ledger's own definition, of
what is in the file *now*. With one process that is inductive, since no one else
writes; with two it is false. `IdsIssued` says that the ids on
file are among those drawn. Then every step that writes a file is a step of the ledger
and every other step leaves both files alone, which is `Implements`; the safety
properties follow from `LedgerInv`, the action properties from the ledger's.

`SharesConserved` is a sum over the partial closes of a position, and the book of the
browser is full of sums. A recursive function over sequences is out of the prover's
reach, but a sum over a finite set is not: `Sums` shows, by well-founded induction over
the subsets of the set, that what `SumFunctionOnSet` folds in some chosen order does not
depend on it, so that one element can be taken out (`SumRemove`), and one added. A
partial close adds to the sum what it takes from the shares; an order that has a position
is filled, so no later edit changes what it bought.

**The browser's book.** `LocalInv` is the property with the types and with what orders
may name (`Named`): a stop order has its position, and an order that waits has none or an
existing one. A waiting entry is no summand until it is filled, and a fill adds it to
shares and cost at once. Cancelling and closing leave both sides of the sum alone. The
merge into "the first open position" needs that a least one exists.

**The file.** `FileInv` says that the lock a request holds follows from the step it is
at, that who holds it exclusively holds it alone, that one handler is on the event loop,
and, the point, that whoever is about to write has read at least every edit there is
(`NothingMissed`). An updater has that from its lock and a saver from the event loop.
`KeptInv` adds that a file that existed is never created and is broken only under the
hands of a request that dumps it.

**The figures.** `FiguresInv` says that as long as nobody disturbed a request the file is
whole and what it loaded is what is stored (`Unmoved`), and that what it made to store is
no older than what it loaded, or it loaded nothing (`Making`). A dump of figures over
figures then does not lose or age them.

**The runs.** `ActiveJobKept` needs that nothing ever says of a run that it is over
before it is: neither the dictionary, nor the file, nor what a poll has read from the
file and is about to put into the dictionary (`Undecided`), and that a job not yet
started has left no trace (`Unborn`). For `ReportsTrue` the invariant says of each of
these copies that the status it holds is warranted by the outcome or by a restart
(`AllWarranted`). A restart marks as failed what the file says is active, so it also
needs that a run that is over has its outcome on file if the disk takes it
(`Recorded`). For `ReportsAdvance`, the file only advances and knows of a run that has
begun (`Filed`); what was told is followed by what the file says, unless it was told
early, and an early outcome is the run's (`FileAhead`); the same holds of what a poll
has read, of which an outcome is the file's or the run's (`ReadAhead`), and an outcome
still to be written is not in the file (`Outstanding`).

**The pool.** `Owned` says that whoever is at work on the pool is the holder of the
lock, which `TryLock` makes inductive, and `Current` that the copy of whoever is about
to write is the pool as it is. The converse of `Owned` needs the assumption: an
enrichment that cannot build its provider leaves the lock with no one at work. For
`ReportsAdvance`, a job at work is "running" wherever it is noted and is not evicted
(`Ongoing`); a poll gets as far as the file only of a job that is over (`Asked`), and
finds the outcome there or nothing, as files go with the jobs that are evicted.

**The rules and the trade.** The first lemmas are on the operators: what rounding to a
cent bounds, that a moving average and a trail of a market are prices, that a suggestion
that raises the stop is above it and says so after rounding too. The invariant of
`Trade` says of an advice made today that it is what the rules give on today's bars for
the position as it was (`AdviceGiven`), and that its stop is then the highest they give
(`AdviceHighest`). Accepting it changes only the stop, on which the rules depend
monotonically, so they have nothing left to raise. That is not inductive without
`AdviceGiven`, because the advice is a copy that the day, the method and the entry could
have left behind. That the position is a `Holding` needs only types: the risk is
positive, so `Evaluate` divides by something. But for the moving average, which is
excepted, each rule asks for a stop at or below the close; rounding to the cent could
lift it over a close that is off the cent, which `Coarse` excludes (TLC checks it with
closes off the cent, and distances of half a cent and more), and that gives
`AdvicePlaceable`.

**The backtest.** Its invariant says that the trades are in order, that a trade in
progress was entered after the last one ended (`Sequence`), and that each closed trade
has a price (`Priced`), which comes from a bar, as the bars of the market have one.

**The periods.** A *point* of a series is the fact that prevails at its end, found by a
rank on filing and length (`PointExists`, by least elements). `FilingsInv` says only
what a company may file: a form fits its quarter, who reports by quarters leaves none
out, and others report ends of halves. The rest is about the operators: the last five
points of a series hold the latest and those within four quarters; a 10-Q restates the
year before, so the point four quarters before the latest exists and is of one length
with it (`span`), or that quarter was dry; where the company keeps its tags every fact
is in one series; and the cash flow is no later than the last quarter reported.

**The card.** `CardInv`: a card that was not opened is the summary of no snapshot or of
the one there is by now; one that was opened shows the server's range, and the label of
the server or of the browser. For `DeficitsTold`, with equal labels only the penalties
for the figures differ, so a conviction that good figures would raise has one of them;
the first deficit is the second warning, and the later deficits never come first without
it. For `ServersValuation`, both implementations estimate alike: they differ in the book
value they take for known, which matters only where it is positive, and in that the
server drops an estimate of zero, which no estimate is; the multiples are bounded from
below by the clamps and the prices by the assumption. The labels weigh alike when no
score is zero.

**The ranking.** `Stronger` compares two snapshots of a company part by part, and
`Ahead` the figures they are made of. That a better record (`Better`) makes a stronger
snapshot rests on every part growing with the figures: `PortionGrows`, of both
directions; `MeanGrows`, of as many scores, by a lemma of `Sums`; the penalties, the
coverage, which is the same, and the quality, which falls to "low" for a growth beyond
belief only if it is that of the series and was so before (`ExtremeLess`). A stronger
snapshot then makes no weaker label (`FundamentalsGrow`), no lesser action
(`ActionGrows`: of a company that is valued the same, as "wait for a breakout" of a dear
one comes before "watch" of a fair one), no fewer points and no smaller score (`PlaceGrows`).
`RankInv` says that the place is the one the stored snapshot gives and that the snapshot
is of the present record. Records are compared that tell their age or both do not, and
errors only with the absence of a snapshot: a record of unknown age counts as the
youngest to the comparison and as the oldest to the penalty.

**The candidate.** What is shown was worked out some steps before, from a portfolio that
has changed since. `FitInv` says that whatever the run holds in hand already fits
(`RunFits`) and that what it read as held was open (`HeldIsOpen`). The work is in lemmas
on the operators of `Sizing`: `RecommendSound` bounds the shares by both quotients,
`RebuiltSound` and `AddOnFit` do so for the size made again from another entry and the
live stop. For `ModeTrue`, `ModeInv` says that what is true of the ticker now, and what
the run found, are among the `moments` of the run (`MomentsKnown`); as the portfolio
forgets nothing during a run, a ticker not held when the run began and never fresh since
was left all the while, and the run has seen it so. For `AddOnFits`, unless something
was bought since, what is open is what the run found and risks no more than it did then
(`BesideRun`), and what is shown fits beside it (`BesideShown`); `DialogLoss` then bounds
the order by what is shown: at a price below the entry the stop gives way by as much or
the distance shrinks to the least, and the shares are never more. `ReviewInv` adds that
no stop has fallen since the review listed the positions, and that an opportunity is
held only if it was bought after that.

**The stores.** Each invariant says what a request holds between its read and its write,
unless a ghost says that another got in its way. `EditsInv`: a document that needs
mending is still the first one (`Mending`), and what the endpoint read is what was last
answered (`Reading`); the document is, up to normalisation, what was answered
(`Agrees`), and normalising is idempotent. `HistoryInv`: what is written or about to be
has dates that were noted, so that pruning to the newest dates removes only what newer
ones displace. `RegistryInv`: what a request learned is of the master, unless `mixed`,
and its snapshot is up to date, unless crossed; the same holds of each cached copy.
`CacheInv`: what holds of the index holds of each index that a request is extending
(`Truthful`), and a request stores only columns of the window it asked for
(`Downloading`, `Storing`). `AnalysesInv`: who is about to replace a history has read
that one (`SweepReading`); a sweep of the day agrees with the newest entries, or will
once the only request that holds an answer about the ticker is over (`Agreeing`).

Only model-checked: `CreationAloneLoses`, `GoodReportsAdvance` and
`FullReportsAdvance`, which are instances (of `OnlyCreationLoses` and of the two
`ReportsAdvance`) of what is proved, as tlapm cannot cite a temporal theorem through
`INSTANCE`; and all liveness (`FiguresReturn`, `GoodPollingEnds`, `PollingEnds`), as
`ENABLED` and fairness are out of TLAPS's reach. What a recursive function computes for
every input cannot be proved with the installed provers either; the models that are
proved about use folds over finite sets instead.

## What the models show besides

Behaviours that a reader of the documentation would not expect, met while modelling,
and that no run is spent on. Some are why a property has the exception it has.

*The book.*

- "All position management uses R-multiples (multiples of initial risk)"
  (`src/swing_screener/portfolio/README.md`): a partial close divides by the distance
  to the *current* stop (`write.py:193`), so after the stop was raised its R is not
  one. `read.py:317` computes the realised profit without partial closes, and
  `regime_analytics.py:88` multiplies R by shares.
- With two processes on the same files a submit can undo a fill: `NoDoubleFill` and the
  refinement need the one process of `heroku_start.sh`.
- With one process, two first requests that both find no file can lose the first edit:
  the creation is the exception in `CreationAloneLoses`, and the assumption `Exists` of
  `AcknowledgedKept`.
- A fill of an add-on opens a second position, and re-entry then counts the first only
  (`same_symbol_reentry.py:134`): the exception `several` in `AddOnFits`. The fill
  dialog's "will merge" (`web-ui` messages) is true of the browser's book only.
- The browser's book leaves the stop order of a closed position waiting, leaves a
  position open when its stop order is filled, makes no new stop order after one was
  cancelled and more is bought, and recomputes the initial risk when more is bought.

*Runs and pool.*

- A poll of a screener run that straddles its end can put "running" back into the
  dictionary, where the finished job then counts as active and is not evicted; after
  one failed write an older file prevails over the result in memory
  (`screener_run_manager.py:172`), which is why `GoodReportsAdvance` assumes a good disk.
- Even then a client can be told "completed", and at its next poll "running": the answer
  is copied from the job in the dictionary after the lock is released (173-177), when
  `_update` may have changed it (202-211) and not yet written the file. The browser
  stops asking when it is told of the end, so only a second page sees it. This is the
  second disjunct of `RunManager!ReportsAdvance`.
- An enrichment already reported as done is reported as failed after a restart that
  comes before its file is written: the second disjunct of `PoolAdmin!ReportsAdvance`.

*The screener.*

- The reward-to-risk gate compares the target it was computed from with a constant, so
  it never rejects. A candidate's catalyst is always weak in the ranking, as the
  opportunity it is read from is not passed.
- The order dialog sends the suggested order price, while size and stop come from the
  recommendation's entry (`OrderReviewExperience.tsx:89-109`): a breakout's trigger above
  the entry loses more than the budget. Nothing checks that the candidate is still
  current.
- Beside an open position the dialog makes an add-on of any candidate
  (`ActionPanel.tsx:30-43`, with a test), also of one that is to be managed only because
  nothing is left of the budget or the stop is to be hit: it is ordered at the size of a
  new entry, and `create_order` takes it.
- A zero pillar score counts as missing (`decision_summary.py:214`), a signal "none"
  counts as supportive (421), and the action is not monotone in the valuation: so
  `EvidenceHelps` is about companies valued the same. A company without snapshot (0.5)
  can rank above one with strong but stale figures.
- A position's analysis is served from what was said of it as a candidate, as the cache
  of the day does not tell them apart.

- Of EDGAR, the cash flow of a second or third quarter is the year's so far, and its
  margin divides that by the revenue of the quarter, "quarterly" all the same. A change
  to a tag that is looked for later leaves the series as it was for ever
  (`sec_edgar.py:146`), and a quarter without revenue makes its growth compare with five
  quarters before. DEGIRO tells the end of its last *year* as the most recent quarter
  (`degiro.py:295`).

*Stores without a lock.*

- The cache of bars: a window that leaves a gap behind makes the index promise the hull
  (`yfinance_provider.py:94`); clearing it leaves the index; a failed write extends it;
  NaN rows overwrite stored bars. These are what `spoiled` excludes in `IndexIsTrue`.
- Two runs that end together lose one's record of the history; a thread that asks for
  the active strategy can reset it after a create; two refreshes lose each other's
  instruments or leave an old snapshot in the `lru_cache` for good; two analyses of
  different tickers lose one from the file of the day, and one that reads while the
  other writes loses the rest of it. An analysis begun before midnight is the next
  day's answer, and the history can then be out of order.
- A late error snapshot can replace good figures when the file was unreadable or
  written meanwhile, and is then reused like any other until it is old.
- Refreshing an unchanged index that is stale writes nothing, so it stays stale,
  whatever the answer's summary says.

## What is not modelled

The map covers about 17 % of the lines that count as implementation. A fifth of those
are notebooks that call the library; of the rest, most is scraping and parsing of
external sources, prompts, formatting, indicator arithmetic over frames, and the web
UI's components, which TLA+ would only repeat.

- Indicators, signals and the confidence of a setup: arithmetic on frames. The models
  take any result.
- Of market data, all providers but the default one, latest prices, source health; of
  fundamentals, the figures of one day (balance sheets, ratios), red flags and highlights; of
  intelligence, prompts, evidence and what the model says.
- In `Scoring`, book value does not count towards coverage, a company has one series of
  revenue of regular periods, and quotients are rounded down.
- Of the universe registry, universes made by discovery; of the symbol pool, its
  filters and merges.
- `apply_stop_updates` and `scale_in_position` of the command line; statistics over
  backtests; the stateless review; lists, metrics, import and export of the browser.
- Progress counters of enrichment jobs and the diffs in its answers; metrics; logging.
- Fees, dates, notes, exit reasons and the like in orders and positions: no decision of
  the book depends on them.
- Settings, watchlist and weekly reviews: one document each, read and replaced on the
  event loop, which is `JsonFile`'s saver. The DeGiro synchronisation reads positions
  and compares; the portfolio read model, reporting and the API shell compute and
  format. The web UI is present as the client that polls and as the user who trades.

## Plan

1. That the file accesses of `Book` are implemented by `JsonFile`.
2. A refinement of the unlocked stores to one document edited atomically, for requests
   that do not overlap.
3. The other providers' caches, and discovery of universes.
