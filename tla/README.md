# nq-engine: TLA+ models and proofs

This directory holds the formal models of nq-engine, a Python program that runs
intraday strategies on NQ/MNQ futures against an Interactive Brokers paper
account, replays the same strategies over recorded bars, and keeps logs of what
they did. The modules are written from the code; every definition that stands
for code is listed with its lines under `map` in `PROJECT.json`. Paths below are
relative to the repository; line numbers are those of the modelled commit.

Contents: 1 the system, 2 the modules, 3 the runs, 4 fairness, 5 what is proved,
6 what is only model-checked, 7 where code and documentation part, 8 other
observations, 9 what is not modelled, 10 plan, 11 how to run.

## 1. The system

### Components, their state and operations

| Component | Source | State | Operations |
|---|---|---|---|
| IBKR client | `src/bridge/ibkr_client.py` | socket, config and environment, the pending order of a call | `mode`, `authenticate`, `place_order` (simulated, or transmit and poll for a fill), `cancel_open_orders`, `sync_request`, `disconnect` |
| Multi-engine bridge | `multi_engine_bridge.py` | per engine: engine object, `pos`, entry; `net`, `trades`, `warming`, aggregators | `run_live`, `run_dry`, `_warmup`, `feed_sub_bar`, `_on_tf_close`, `_enter`, `_exit`, `shutdown`, SIGINT handler |
| Fade bridge | `ib_fade_bridge.py` | one engine, `position`, `AccountState`, `trades`, aggregator | `run_live`, `run_dry`, `warm`, `on_closed_bar`, `_enter` (optional risk veto), `_exit`, `shutdown` |
| Risk manager | `src/risk/manager.py` | none; judges an `AccountState` kept by its caller | `evaluate` |
| Signal bridge, OSO builder | `src/bridge/bridge.py`, `oso.py` | the `AccountState` | `on_signal`, `build_oso`, `build_flatten` |
| Bar aggregation | both bridges, `src/data/resample.py` | the bucket being filled | `add`, `flush`, `resample` |
| Engines | `src/engine/*.py` | indicators, zones, the position they believe they hold | `feed_ts`, `on_bar` |
| Engine registry | `src/bridge/engine_registry.py` | none | the list of engines, timeframes and gates |
| Session context | `src/session/context.py`, `src/data/model.py` | levels, running highs and lows, session and Globex day | `on_bar`, `_roll_session`, `_roll_day` |
| Shock detector and engine | `src/detector/shock.py`, `src/engine/shock_v1.py` | windows, cooldown; a walk over bars per event | `on_bar`; `_entry_E1` to `_entry_E3`, `manage`, `run_bakeoff` |
| Forward log, portfolio | `src/research/forward_log.py`, `portfolio.py` | append-only files of trades | `run_engine`, `tally`, `run_all_sleeves`, `max_concurrency`, `main` |
| Trade log, session report | `trade_log.py`, `session_report.py` | none between runs | pairing of executions into round trips, `label`, `match` |
| Back-test harness, drift control | `src/backtest/harness.py`, `drift_control.py` | the open trade, the list of trades | `run_backtest`; `candidate_indices`, `_excursion`, `run_drift`, statistics |
| Tradovate client | `src/bridge/tradovate_client.py` | none used | a stub |
| Gap reports | `src/research/edgeful_reports.py` | none | `load_days`, five reports, the gap-fade back-test and its sweep |
| Research scripts | `research/*.py` | none | offline statistics |
| Account checks | `ib_account.py`, `ib_test.py` | none | connect, print, exit |
| Routines | `scripts/`, `routines/` | none | shell around the programs |

### How they interact

A bridge is one thread. A sub-bar from the broker (or a line of a replay file)
goes to an aggregator; when that closes a bar of some timeframe, every engine of
the timeframe is asked in registry order through `on_bar`; a decision that fits
the position the bridge has booked for the engine becomes one blocking
`place_order` call, and the answer is booked. The engine changes its own
position inside `on_bar`, before any order exists, and is never told what became
of it. Ctrl-C raises `KeyboardInterrupt` in whatever the thread is doing;
`main()` then runs `shutdown()`, which flattens what the book says is open.

The signal bridge is the other way to the client: a signal is judged by the risk
manager against an `AccountState`, becomes an entry with a bracket, and the
account follows the executions. The harness drives the same engine objects over
recorded bars and keeps a record of the open trade from the decisions alone.

The shock engine never trades live: over the bars there are, it runs the
detector, looks forward from each event for the entries of its schemes and walks
each trade to its end. The portfolio's SHOCK sleeve does so at every forward run
and files the trades beside those of the other engines.

### What is hard, and what makes each part correct

- **Client.** A fill can arrive after the bounded wait has ended, without a
  socket, or never; nothing cancels the order. Correct: the caller's knowledge is
  off by no more than the calls that gave up; nothing leaves without a paper
  account and port; every call comes back.
- **Bridges.** Three opinions of one position (engine, book, account), moved at
  different lines, with an exception or Ctrl-C between any two. Correct: the book
  is what the filled answers say, no answer is booked to another engine, engine
  and book part only where an order was withheld or unfilled, `shutdown`
  flattens, terminates and leaves no more than the unknown orders.
- **Risk manager.** Four limits in an order, none of which alone bounds the
  account. Correct: a sequence of approved trades stays within drawdown, daily
  loss and size; a HALT is final.
- **Engines.** Bar-driven state machines with several early returns, whose zones
  and positions change on different bars. Correct: one position, one decision per
  bar, a stop that never loosens, no second entry into a spent zone, a bounded
  hold.
- **Harness.** Trusts the engine: a decision that does not fit its record falls
  through silently. Correct: its record is the engine's position.
- **Aggregators, session context.** Late sub-bars and gaps meet the bucket,
  session or day of another time; live, the polling loop's own delay decides the
  minute a sub-bar is labelled with. Correct: the bars are those of `resample.py`,
  the levels those of the bars.
- **Shock engine.** Run with hindsight over all bars, with each condition written
  twice, for longs and shorts. Correct: its trades are those a live engine would
  have made, and lose no more than the stop allows.
- **Gap reports, drift control.** Several views of the same days and the same
  holds, each computed by itself. Correct: they agree.
- **Forward log, portfolio, trade log.** Files appended run after run, keyed by
  entry time, from bars that grow and are corrected, with trades that still run;
  executions of several engines paired by the account's net position.

`PROJECT.json` lists the hazards one by one, at the line where each bites, with
the properties that cover it.

## 2. The modules

| Module | Stands for | Notes |
|---|---|---|
| `Amounts` | arithmetic | used everywhere |
| `IBKRClient` | the client, the socket, the broker | one action per step of `place_order`; the broker is external |
| `PositionBook` | abstract: what a bridge promises | implemented by both bridges |
| `MultiEngineBridge` | `multi_engine_bridge.py` on top of `IBKRClient` | one action per source line that another step can come between |
| `RiskManager` | `evaluate` | operators only |
| `FadeBridge` | `ib_fade_bridge.py` on `IBKRClient` and `RiskManager` | |
| `SignalBridge` | `on_signal`, brackets, account | on `RiskManager` |
| `EngineBars` | bars, decisions and parameters of the engines | |
| `LvlImb`, `ObReentry`, `ObNyOpen` | the three zone engines | `on_bar` is one step |
| `IndicatorEngines` | `V4Engine`, `EmaCrossEngine`, `RangeRevertEngine`, `MeanRevFadeEngine` | conditions on averages are inputs |
| `EngineContract` | abstract: what bridges and harness assume of an engine | implemented by all seven |
| `Backtest` | `run_backtest` composed with any of the engines | |
| `Ohlc` | bars, buckets, `resample.py` | time counts in bars of the shortest timeframe |
| `Sessions` | the sessions and days of `model.py` and `context.py` | operators only |
| `BarAggregator`, `SessionContext`, `ShockDetector` | the aggregators of both bridges, `context.py`, `shock.py` | one action or operator per `add` or `on_bar` |
| `ShockEngine` | entries, walk and trades of `shock_v1.py` | operators only |
| `GapReports`, `DriftControl` | `edgeful_reports.py`, `drift_control.py` | operators, and the draw |
| `Feed` | the consumers of a stream of bars, each on its own | composes those above |
| `FeedProperties` | | what they make of a stream, against the whole stream |
| `PaperLog` | `forward_log.py` and both modes of `portfolio.py` | one action per step of `main` at which a kill leaves other files |
| `RoundTrips` | the pairing and the labels in `trade_log.py` and `session_report.py` | one action per execution |
| `Records` | the record-keeping programs, each on its own | composes the two above |
| `*Proofs` | theorems about the module named | checked by tlapm |
| `FoldTheorems` | lemmas on folds over finite sets | used by the proofs |
| `MC*` and `.cfg` | instances for TLC | |

### State and actions against the code

**IBKRClient.** `callSt`, `polls`, `parent` are the program counter of a call:
`Transmit` is lines up to the submission, `PollAgain`/`PollSeesFill`/
`PollTimesOut` are one turn of the wait loop of line 217, `Refuse` is the error
path, `Abandon` is a `KeyboardInterrupt` inside the call. `account` is what the
broker holds, `reported` what the `filled=True` answers add up to; an order
nobody waits for moves to `resting`, where it can fill (`LateFill`) or die at any
later time. `giveups` counts the calls after which the caller does not know.

**MultiEngineBridge.** `pc` names the line the thread is at. `_on_tf_close` is
`NoDecision`, `DecideEnter`, `DecideExit`, `DecideDropped`, `CloseEnds`; `_enter`
is `EnterBooksPos` (line 155) then `EnterBooksNet`, `_exit` is `ExitLogsTrade`
(170), `ExitBooksNet` (173), `ExitBooksPos` (176), so that `Sigint` can fall
between them; `shutdown` is `ShutSkip`, `ShutFlatten`, `ShutBooks`, `ShutEnds`.
The history variables `missed`, `owed`, `cut`, `refused` record what no variable
of the program does and are read by properties only.

**FadeBridge.** The same shape for one engine; the risk veto is `BarEnterVetoed`,
the missing look at `ack["filled"]` is in `EnterBooks` and `ExitBooks`.

**SignalBridge.** `orders` is every order sent with its state; a bracket is one
record whose stop and target are alternatives. `overlapped` says that an order
was ever sent while another could still execute.

**Engines.** The position of an engine and the fields only a held position reads
are one record `held`, which is `Flat` when `in_pos` is false. What the averages,
the range and the displacement detection compute is a free choice of their
outcome at each bar: the models keep every guard, early return and assignment
around them. Zones carry a number, and the history sets `spent` and `broken` say
which gave an entry and which were closed through. An average over flat bars is
zero again long after warm-up, and `range_revert.py:50` then returns before it
counts the bar and before both exits: `Idle` is this return. The histories `age`
and `idle_bars` count the bars of a range trade and those of them that were idle,
next to `_held`, which counts only the others. Only that engine needs the action:
for `MeanRevFadeEngine` such a bar is one that neither enters nor leaves, and the
other two have no such return.

**Backtest.** `kind` picks the engine; each step is one bar, given to the
engine's `OnBar` and its decision to `Record`, as in the loop of `run_backtest`.

**Feed.** `seen` is the stream a consumer was given, `program` the consumer. An
aggregator's `FeedSubBar` is `feed_sub_bar` with every `add` and `flush` it
calls. It is fed in two ways: `Sub_Bar` is a line of a replay file, in any order,
since the file is not sorted; `Poll` is a turn of the live loop, which asks for a
price several times, drops answers that are no price, builds a sub-bar from the
rest and labels it with the time at which it is done (`clock`, which each turn
moves by the sleeps and by what the loop took besides). `ContextOnBar` is
`on_bar` with `_roll_day` and `_roll_session`, in the code's order; a (high, low)
pair is one record and `None` is `NoRange`. `DetectorOnBar` takes the threshold
and the volume baseline as inputs: what the volatility estimate computes is free,
above the floor. Time 0 is 18:00 ET, so that a Globex day is a quotient and a
session an interval of the remainder.

**ShockEngine.** The code looks forward through the bars it has; the operators
are functions of the bars seen so far and of an event, so the same operators give
what a run today and a run tomorrow say. On signed prices the two branches of
every condition are one (`Far` and `Near` are the bar's ends in and against the
direction of the trade). `Trail` is the stop that the loop of `manage` has
reached at a bar, `Stopped` and `TimeIsUp` are its exits in their order, and a
trade that no bar ends carries `final = FALSE`.

**GapReports, DriftControl.** `LoadDays` keeps one record per day with a
predecessor, as the code's list of dictionaries; a percentage is a pair of
counts. `Draw` chooses the bars entered, with and without replacement; `chosen`
is their list.

**PaperLog.** An engine is a function of its bars, so what it makes of a bar is
chosen when the bar arrives (`NewBar`) and stays, until bars of the past are
corrected or filled in (`Revise`) and a trade of the past disappears, appears or
ends differently. The same step stands for the floor of the shock engine's
threshold, which every run takes anew over all bars there are. The SHOCK sleeve
(`ShockBar`) differs: its trades are in the list from their entry on, with a
provisional result that the next bar changes (`over`), their exit is
approximated by their entry as in `portfolio.py:106-111`, and two can share an
entry (`no` tells them apart and is not in the file). The trades of a sleeve are
a set; the order in which the code lists them only matters where it appends and
where it counts positions, and `Sooner` is that order. `InOrder` lists a set in
an order, `Sorted` is `list.sort`, stable, as used by `_read_logged_pnls` and
`max_concurrency`: both say of each element how many come before it. A run is `Load`,
`ReadKeys`, `AppendRows`, `WriteTally`, with `pc` naming the next; `Killed` and
`KilledInAppend` end it anywhere, the second with part of its rows in the file,
the last of them whole, without its newline, or torn. `log` is what was written,
row by row, and `cut` the first row that lacks its newline: alone at the end it
is read like any other, with a row after it the two are one line (`Glued`), which
`json.loads` rejects as it does a torn one (`Unreadable`). Without `--forward`
the program is `"aggregate"`: it writes nothing, and its bars and trades are
there for the concurrency it prints. The history variables `revised`, `uneven` and `logged`
are read by properties only, as are `cash` and `scaled` in **RoundTrips**, whose
`Execution` is one turn of the loop over the broker's fills. Its `enters` are
the `FILL ENTER` lines of the bridge's log, each written up to a wait for a fill
later than the execution (`Logged`), or not at all (`Unlogged`); `no` stands for
the strategy, which is another at each entry.

## 3. The runs

All runs explore the whole state space of their instance.

| Run | Instance | Question |
|---|---|---|
| `client` | 2 tags, 2 polls, 2 calls per tag | any caller, any broker |
| `bridge` | 2 engines of one timeframe, 1 poll, 3 bars | the session as a whole |
| `fade` | 1 engine, 1 poll, 6 bars, limits in hundreds of dollars | with and without `route_risk` |
| `signal` | 3 orders, limits in hundreds of dollars | sequences of approved trades |
| `engines` | 5 prices, 2 zones, hold of 3, up to 2 idle bars, trailing window of 2 | each engine under the harness |
| `feed` | streams of 4 or 5 bars of 2 to 4 shapes, with gaps; 9 polls | what the consumers make of a stream |
| `records` | 1 sleeve with 7 bars, 1 and SHOCK with 3, or (report) 2 and SHOCK with 3; 2 SHOCK trades, 1 revision; 5 executions, or 4 with log lines | what is in the files |

`client`: `AccountWithinGiveups` (account and answers differ by at most the calls
that gave up, resting orders counted), `PaperOnly`, `CallsReturn` (liveness).
Two polls let a fill come before, between and after them; two calls per tag let
a late fill of the first meet the second.

`bridge`: `BookMatchesReports`, `BookWithinGiveups`, `NetIsSumOfBook`,
`EngineMatchesBook`, `TradesAreRoundTrips`, `ShutdownLeavesOnlyGiveups`,
`StopEnds` (liveness), `BookSpec` (refinement of `PositionBook`). Two engines on
one bar are the least in which an answer could be booked to the wrong one; three
bars are an entry, an exit and one more decision, or a missed entry, its missed
exit and a new entry. The proofs remove both bounds for the safety properties.

`fade`: `EngineMatchesPosition`, `PositionWithinGiveups`, `RoutedLossesBounded`,
`RoutedHaltIsFinal`, `ShutdownLeavesOnlyGiveups`, `StopEnds`, `BookSpec`. Six
bars are three round trips, enough to reach the daily halt, the drawdown halt and
to ask again afterwards; a loss of 3 against a ceiling of 2 is a fade trade
without a stop losing more than the risk manager was told.

`signal`: `LossesBounded`, `ExposureWithinMax`, `HaltIsFinal`. Risks 0 and 3 lie
outside what is accepted; three orders are a loss up to the halt and one more.

`engines`: `RecordMatchesEngine`, `HeldWithinMaxHold`, `ContractSpec`
(refinement of `EngineContract`), `StopNeverLoosens`, `NoEntryIntoSpentZone`.
The five prices make a bar fall inside, below and above a zone, between its low
and the padded stop, reach +1R and reach the target; two zones are needed for
one to be passed over while the other is held; a gap of two minutes jumps over
the end of a hold of three. Two idle bars can lie next to each other or apart, and
make a range trade two bars older than its hold.

`feed`: `BarsMatchResample`, `LevelsMatchHistory`, `ShocksMatchHistory`,
`ShockTradesCausal`, `ShockTradesBounded`, `GapViewsAgree`,
`DriftWithinExcursion`. The aggregators get 4 sub-bars at any of 6 times, with
timeframes of 2 and 3: a sub-bar can be late for one and not for the other. Live,
they get 3 sub-bars of 3 polls, each of which can fail, from a loop that takes up
to two thirds of a minute longer than its sleeps: a minute can be skipped and a
turn can bring no sub-bar at all. The context machine gets 5 bars at increasing
times in almost three days of 6 slots, one slot per session except Asia with two:
every session can be empty and a gap can end in the session of the next day in
which it began. The shock program gets 5 bars over 6 times, window 2 and cooldown
3: a trigger can fall exactly on the end of a cooldown, a gap can empty the
window, and two events fit into one stream. Its four shapes are a rise, a fall, a
quiet bar above the stops of a rise, and a bar an impulse higher, so that each
scheme enters in both directions, is stopped at the first and at a trailed stop,
is scratched, meets the guard, reaches +1R or outlives the bars; prices are
multiples of 20 so that 30%, 45% and half of an impulse are exact. The days of the
reports have gaps of exactly a half and of the whole of the close before, and the
buckets have their edges there (500 and 1000 tenths of a percent; the code's own
lie between 0.2% and 1.5%); the drift control draws one or two of the entries of
5 bars.

`records`: `LogIsForwardTrades`, `TallyIsOfTrades`, `ConcurrencyIsPeak`,
`LedgerIsCash`, `LabelsMatchEntries`. Seven bars, the first before the forward
window, make three trades of which the first can begin before it; `--since` can
leave the earlier of two out for a later run to file. One engine and the SHOCK
sleeve are enough for sleeves whose bars end at different times; two SHOCK
trades can enter on one bar, on two, and be filed while they run. A run can be
killed before a newline, the next finish on the row so cut, and a third write
onto its line. The report has two engines beside the SHOCK sleeve: in three bars
both can be in the market, and one can leave on the bar on which the other
enters. Five
executions of one or two contracts are two round trips and one more, or a
position that is added to, cut, or crosses zero. For the labels four executions
come 2 or 5 apart, with a delay of the line of at most 1 and matches nearer than
4: twice the delay, and the delay beyond the match, the two limits the property
names, are both reached exactly, and the property is false with either a unit
weaker.

The remaining runs each show one sentence of the repository to be false of the
code (section 7). Each property of a passing run has a mutant in `PROJECT.json`:
a plausible error in one mapped definition that makes TLC find it violated. The
mutated forms stand next to the definitions they vary, marked "Mutant of".

`CHECK_DEADLOCK` is left on everywhere: a finished session stutters explicitly
(`Finished`), and nothing else may stop.

## 4. Fairness

Only the program's own thread is fair. `ClientSpec` has weak fairness on `Poll`:
the wait loop is a Python loop over a half-second sleep, it takes its next turn
whatever the broker does. Both bridges have weak fairness on `Main`, the steps of
the main thread. Nothing is assumed of the broker (it may never answer), the
socket, the feed beyond `Main` (the bars of a run are bounded), or the operator
(`Sigint` and `SecondSigint` are never forced). The engines, the signal bridge,
the feed and the records have safety properties only and no fairness.

## 5. What is proved

tlapm checks the following for every value of the constants that satisfies the
named assumptions, hence for any number of engines, timeframes, bars, polls,
orders and for any limits.

**IBKRClientProofs** (from `ClientAssumption`: at least one poll).
`ClientTypeCorrect`, `ClientWithinGiveups`, `ClientPaperOnly`. The invariant is
the conjunction of the type, the bound on each tag with the resting and the
running order counted, and the paper configuration of any order at the broker.
The bound without the resting orders is not inductive: a late fill uses up the
slack an earlier timeout made, so the invariant carries both on one side.

**MultiEngineBridgeProofs** (adds `BridgeAssumption`: every engine is in `States`;
order and timeframes free). `TypeCorrect`, `BookFollowsReports`, `BookNearAccount`,
`EngineFollowedByBook`, `RoundTripsOnly`, `ShutdownFlattens` and `ImplementsBook`
(the bridge implements `PositionBook`). The invariant ties the program counter to
the call (which order is running, on which side, for the head of `todo`: `Control`,
`OrderPos`), says what the book still owes the last answer (`Drift`) and how
engine, book and trades hang together between the lines of a booking
(`EngineBook`, `RoundTrips`), and for shutdown that the engines already visited
are flat and those still in `todo` contain every open position (`ShutCovers`).
Without the first part no booking step preserves the book; without the last the
end of shutdown says nothing.

**SignalBridgeProofs** (from `SignalAssumption` and `RiskAssumption`).
`SignalTypeCorrect`, `LimitsHold`, `CeilingHolds`, `ExposureHolds`, `HaltHolds`.
`LossesBounded` is not inductive: it becomes so with `OneAtATime` (without
overlap at most the last order is live, and it accounts for the whole position),
`RoomForTheLoss` (while that order can still lose, the account has more room than
the loss, because evaluate kept `MaxRisk` of it), `WithinLimits`, `RisksPositive`
and, for the halt, `StaysStopped` (nothing live, nothing held, and the account
the HALT was answered for still halts).

**FadeBridgeProofs** (from `ClientAssumption`, `RiskAssumption` and
`FadeAssumption`). Every safety property of the run `fade`: `FadeTypeCorrect`,
`EngineFollowsPosition`, `PositionNearAccount`, `FadeShutdownFlattens`,
`RoutedLosses`, the action property `RoutedHaltHolds`, and `FadeImplementsBook`.
The invariant has four parts. `Base` ties the program counter to the call, as in
the other bridge. `EngineFollowed` says in which lines engine and position may
differ. `Drift` bounds the account by the calls that gave up through every line
of a booking; it excludes a session that ignored an unfilled answer, which is
where this bridge fails. `Losses` is needed because the bounds on the losses are
not inductive: while a routed position is held, the account must not be one that
`evaluate` would halt (`RoomForATrade`), so that the one trade that is open ends
at most its own loss beyond a limit; and a HALT is remembered by an account that
still halts and has no position (`LastWord`).

**MultiEngineBridgeProofs**, once more: `NetFollowsBook` is about a sum over the
engines by a fold. It is proved from `NetOfBook`, the same equation with the
amount the current line has not yet added, and from the lemmas of `FoldTheorems`.

**FoldTheorems** (no assumptions). What a fold over a finite set computes.
Induction over the set is not available, since the library's rule takes an
operator as its parameter; each lemma is shown by its least counterexample
instead: among the subsets for which it fails there is one with no smaller one
(`LeastSubset`, from the well-foundedness of strict inclusion), and taking one
element away contradicts that. So a fold has a value and only one, the sum of a
function over a set does not depend on the order, changes with one summand as it
should, and the fold that the community modules define is that sum
(`MapThenSumSet`), is additive, monotone and bounded as its summands are; a
finite set of integers has a largest and a least element. An element whose place
is the number of those before it is listed once and in order (`PlacesList`,
`SortPlaces`); a list in an order is the only one (`OneOrder`).

**RecordsProofs** (from `RecordsAssumption`: the sleeves are a finite set of
numbers, times and bounds natural numbers, and the SHOCK sleeve is not the one
`forward_log` runs). `LedgerFollowsCash`: the pairing
books what was paid and received in every session it claims to handle.
`LabelsFollowEntries`: a label is the strategy of the entry where no line of
another entry on that side is near enough to be mistaken for it. Their invariant
`TripsInv` is about the round trip that is open, whose side and money no
property mentions. `LogHoldsForwardTrades`: in any order of bars, revisions,
runs and kills, each row of the file is a forward trade the engine made, no
trade has two rows, and a finished run leaves none out; the row of each can be
read, but for one that a later row was written onto. Its invariant is
`FilesInv`, of three parts, and `Whence`. `Kept` is what engines can have made: one trade at a
time for an engine, and none that is running while it is flat; two SHOCK trades
differ in their entry or their number. `Scoped` is what a run knows at each of
its steps: the trades it read, which of them the file did not have, that it will
write each of those once, that afterwards all of them have a line. `Filed` is
what the file is after every step, with or without a torn row. `Whence` says
where a row is: once one lacks its newline, what the finished runs had was
written up to it, since a run that writes more no longer finishes; so a row that
shares a line after that is of no finished run. `Kept` is needed
because the key in the file does not hold the number of a trade: against earlier
runs the keys tell trades apart, but that the lines of one append differ, two
SHOCK trades of one key included, follows only from what engines make.
`InOrderLists` shows that the
order of the append lists every trade once: a trade's place is the number of
trades before it, and these numbers are different and fill an interval.

`TallyFollowsTrades`: what the tally says is true of the trades it read. Each is
in the file once (`Filed`), so the sums over the rows are sums over a set
(`RowsSum`). For `forward_log` the drawdown is in the order of the entries
because a stable sort by entry of trades with different entries is the only list
in that order (`SortsByEntry`, `OneOrder`); that the entries differ is `Alone`,
since that program runs one engine, which is why the SHOCK sleeve must be another.
For the portfolio nothing sorts, and the file must be in the order of the exits
on its own. That is not inductive: a run could find, late, a trade that ended
early. `Timely` rules it out with a time c, chosen anew in each step: every line
is of a trade that ended by c, and each trade that ended by then has a line or
comes after all lines. A run that reads every sleeve up to the same bar moves c
to that bar, a killed one may leave part of its lines, which are the first ones
(`AppendTimely`), and the condition that sleeves end together and nothing was
revised is exactly what a bar needs to keep it (`DataTimely`, `Punctual`).
`Tallied` finally says of a tally what it says of the first lines of the file, so
that it stays true while the file grows (`TalliedStays`).

`ConcurrencyFollowsTrades`: `max_concurrency` walks over the entries and exits
sorted by time, exits first. `MarkKey` is the number by which the pair sorts,
`EventsSorted` that the walk's order is one by this number. By then a prefix of
the walk counts the trades whose entry is in it less those whose exit is
(`WalkCounts`). A trade whose exit is at its entry goes down before it goes up,
so at an entry the walk may count fewer than are open but not more
(`EntryWithin`); after the last mark of that time it counts exactly those
(`EntryReached`). The number only rises at an entry, hence its peak is the
largest number open at one. The only fact about the programs this needs is
`Kept`: no trade ends before it begins.

**BacktestProofs** (from `EngineAssumption`: prices are natural numbers, limits
and gaps are positive). Every property the run `engines`
checks is proved, and `LastLowAboveStop` besides: `EnginesTypeCorrect`,
`HarnessFollowsEngine`, `HoldsAreBounded`, `LowsStayAboveStop`,
`StopsOnlyTighten`, `ZonesAreNotReentered`, `EnginesKeepContract`. The argument
has two halves. For each engine an invariant of its own (`LvlInv`, `ReentryInv`,
`NyOpenInv`, `IndInv`) shows that a bar makes one of the three moves of the
contract (`EngineMoves`: nothing, an entry from flat, an exit of everything);
`RecordStep` then shows, from the moves alone and for any engine, that the
harness's record follows. The engine invariants need more than types. A zone's
second entry is excluded by `ZonesOnce`: ids are never used again, and an id
that gave an entry belongs to a zone that is marked, disarmed or gone. The time
limits carry their own property, since an age is only known to be bounded
because the bar that would have reached the limit closed the position; for the
range trade the age is what `_held` counts and the idle bars together. The
engines take the minimum of a window of lows and the oldest of a set of zones;
that these minima exist is `LeastNat`, from the well-foundedness of the natural
numbers.

**FeedProofs** (from `FeedAssumption`: the sessions of a day follow one another,
thresholds, horizons, quotes and the length of a swing are positive, a shape has
its open and close between its low and its high). `BarsFollowResample`,
`LevelsFollowHistory`, `ShocksFollowHistory`, `ShockEngineCausal`,
`ShockTradesStopped`, `GapReportsAgree` and `DriftHeldWithin`, for any number of
bars, of any shapes and at any times. All but the first rest on `StreamInv`: the bars so far are a
sequence ordered by time, which a step leaves alone or makes one bar longer.

`BarsFollowResample` compares two ways to the same bars: resample fills a table
row by row and sorts its keys at the end, an aggregator holds one bar and closes
it for good. Both are compared with a third form, `OhlcOf`: first open, largest
high, least low, last close, sum of the volumes of a set of lines. `TableIsFilled`
shows that the table has that bar for each bucket, `PlaceIsIndex` that a label's
place in the order is the number of labels up to it. `AggInv` says that the bars
closed and the one in progress are these bars for the sub-bars that were not
late, and that no sub-bar is beyond the one in progress; without the second part
nothing says that a sub-bar of a later bucket opens a new one. Sub-bars that are
added together, as the quotes of a polled minute are, are merged as one
(`LinesMerge`). On live quotes labels do not go back (`LiveInv`, `QuotientGrows`).

The context machine adds one bar at a time, `LevelsMatchHistory` speaks of all
of them. `ContextInv` says of every variable of the machine which bars it is the
range or the sum of. That a bar preserves it is a fact about sorted times: the
bars of a day, and those of a session within a day, come in one piece, so a bar
that opens a new day or session meets the complete one before it. One case
breaks this and is kept out of the invariant by name (`Split`): a session that
ran into the day and goes on in it, whose sums the code does not start again.

For the detector, `WindowInv` says that the window is the tail of the stream
that is recent enough, and `DetectorInv` that each event has the bars it
describes, a move as large as a positive threshold, and its distance from the
earlier ones of its direction. The shock engine has no state: it is a function of
the bars, run over all of them each time. `ShockEngineCausal` therefore compares
two runs, over s and over s with one bar more. An entry is the first bar that
meets a condition, hence the same in both once there is one; a trade is over by
what the bars up to its end say, hence stays over. `ShockTradesStopped` follows
the stop along the walk: it only tightens, so no exit is worse than the first
stop, and the hybrid's legs lose no more than their shares of it.

`GapReportsAgree`, from `SizesCovered` (the buckets begin at no gap, follow one
another, and end beyond any gap two of the prices make, as `EDGEFUL_BUCKETS` up
to `1e9` do) and `ShapedInv` (the bars have the shapes they are given):
a day's gap lies in one bucket and only one (`OneSize`), so the counts by size
add up to those of the report over all sizes (`CountsAddUp`). A fade wins only
where the price came back to the close before, what it makes lies between its
stop and the gap, and without a win on a day that was filled it was stopped
(`FadeHolds`). A day that opened beyond yesterday's range broke it, and no more
days continue a break of the opening range than break it (`RangesFollow`).

`DriftInv` says that every hold of the draw ends inside the stream; what the
holds make is a sum over the draw, compared with the sum of their excursions
hold by hold (`SumOverLeq`).

In the proofs the conditions on averages are free, so they hold for any feed and
any tuning of the indicators.

## 6. What is only model-checked

Liveness (`CallsReturn`, `StopEnds`): fairness and ENABLED are beyond tlapm.

Every invariant and every action property a passing run checks is also a
theorem. The runs still matter for these: they show on an instance that the model
does what the theorems speak of (every action fires), and each mutant that the
property can be broken.

The other way round, `TypeOK` of the bridge, `ClientTypeOK`, `SignalTypeOK`,
`EntriesWithinCeiling` and `LastLowAboveStop` are proved for every instance and
no run spends time on them.

## 7. Where code and documentation part

| Run | Code | What the repository says |
|---|---|---|
| `exit_not_retried` | `multi_engine_bridge.py:166`: after an unfilled exit the engine is flat and the book is not; the next signal of the engine is an entry, which is dropped | the log line: "position stays open; retry next signal" |
| `fade_unheld` | `ib_fade_bridge.py:182`: the position is set whatever the answer says | `ibkr_client.py:214-215`: "so the bridge never assumes a position it doesn't hold" |
| `flat_when_halted` | `manager.py:77`: the halted check precedes the exemption of FLAT | `manager.py:80`: "exits always allowed"; `bridge.py:43` |
| `live_size` | `manager.py:99`: each proposal is clamped by itself, `open_position` is not read | `portfolio.py:184`: "clamps total live size" |
| `broken_zone` | `lvl_imb.py:88-102`: on_bar returns before zones are invalidated while a position is held, so a zone closed through in that time is entered later; `ob_reentry.py:143` spares the zone that is held, with the same effect | `lvl_imb.py:10-11`: "valid until a 5m CLOSE below its far edge"; `ob_reentry.py:6` says the same of its zones |

## 8. Other observations

These were met while modelling; no run is spent on them.

- A FLAT signal leaves the legs of the bracket working: `cancel_open_orders`
  (`ibkr_client.py:256`) has no caller. `ExposureWithinMax` and `LossesBounded`
  therefore speak of sessions without overlapping orders.
- Ctrl-C between lines 155 and 156, or 173 and 176, of `multi_engine_bridge.py`
  leaves `net` wrong, or makes shutdown flatten what is flat already. The
  properties name the two cuts as exceptions.
- `shutdown` records a trade for a flatten that was not filled (247-264), and
  forgets a position whose flatten raised.
- An engine that enters during warmup is in a position the book never had; its
  exit is then dropped. `EngineMatchesBook` speaks of engines without such a
  decision.
- A HALT answered while a bracket works is not final: the bracket's profit can
  lift the account above the limit again. `HaltIsFinal` asks for an idle account.
- `ob_reentry.py:143` exempts the held zone from invalidation for good: closed
  through above the padded stop, it is armed and entered again later.
  `NoEntryIntoBrokenZone` speaks of both engines; the trace of the run happens to
  show `LvlImb`. No bridge loads this engine, the portfolio does
  (`portfolio.py:79`).
- A tap of a zone while LvlImb holds a position is not consumed, so the entry may
  be on the second New York tap (docstring line 12), and `skipped_inpos`
  (line 72), meant to count these, is never incremented.
- An engine books a stop at the stop's price also when the whole bar lies below
  it, and an entry at the zone's price also when the bar never trades there.
- `context.py:51-56` clears the day's Asia and London levels before it credits
  the session that ran. After a feed gap from one day's Asia or London into the
  next day, yesterday's range is shown as today's; after a gap into the same
  session, `_sess_pv` and `_sess_v` go on counting yesterday's.
  `LevelsMatchHistory` names both gaps and is false without either exception.
- A snapshot holds the machine's own `LevelState` (`context.py:78`): one kept
  across bars changes with it.
- Live bars are not labelled as replayed ones: `run_live` of the multi-engine
  bridge takes the minute in which its polling ended, the fade bridge's
  `_poll_loop` the following bucket, `resample.py` and the replay the start of
  the bucket; `model.py:56` calls `Bar.ts` the bar's close.
- A late sub-bar can be dropped by a short timeframe and merged by a longer one,
  so bars of two timeframes over the same minutes need not agree.
- The detector's window includes its left end: with one-minute bars 180 seconds
  are four bars and a move over 240 seconds, against "3-bar" in `shock_v1.py:37`.
- A turn of the live polling loop is as long as its sleeps and what the loop does
  besides, and its sub-bar carries the minute in which it ended: minutes are
  skipped without any gap in the market.
- `shock_v1.py:55` takes the floor of the threshold from a median over the whole
  sample, future included, while lines 15 and 33 call the baselines causal. Each
  forward run of the portfolio takes it anew, so SHOCK trades of past days can
  appear or vanish though no bar was corrected; their lines stay. The thresholds in
  `Feed` are any, and do not change afterwards.
- The shock engine's stop can lie beyond an E1 entry, whose price is the next
  open wherever that is: a "stop" then books a profit. E3 is filled at its
  trigger, and a stop at the stop's price, also when the bar opened beyond it; what
  remains of the bar of an entry is not walked. `ShockTradesBounded` is about
  these prices, not about what a market would have paid.
- A SHOCK trade is filed while it runs, at the close of the last bar, and its line
  is never corrected (`portfolio.py:96-112`). Two that enter on one bar have one
  key: both are filed by the run that meets both, but if that run is killed
  between their lines the second never is. `LogIsForwardTrades` claims no more.
- The exit of a SHOCK trade is its entry, so it never counts in `max_concurrency`
  (`portfolio.py:143-151`).
- `report_orb` ends the opening range `or_min` minutes after 9:30 whatever session
  the report is for, and builds the time by adding to the minutes, which raises
  from `or_min` = 30 on.
- A hold of the drift control is a number of bars, so over a gap it runs into
  other sessions and days.
- `session_report.py` takes the `entry=` of a log line for the price of the signal
  (line 22) and prints the difference from the fill as slippage (lines 5 and 73).
  The bridge logs the fill there (`multi_engine_bridge.py:153`), so the slippage of
  a trip with the right label is zero; what the report calls its average is the
  distance between the fills of two trips, where a label is wrong.
  `LabelsMatchEntries` says so of the code as it is.
- `session_report.py:108` takes the largest trade of the day: without a round trip
  the report ends in an exception and is not written.
- `trade_log.py` and `session_report.py` pair executions by the net position of
  the account. An execution that neither leaves zero nor reaches it (two engines
  in the market, a partial fill, a reversal) makes their total differ from the
  money paid, though the source is called "authoritative" (`trade_log.py:57`).
  `LedgerIsCash` speaks of the other sessions.
- A line torn by a kill makes every later run of `forward_log.py` or of the
  portfolio's forward mode end in `json.loads` until somebody repairs the file.
  So does a row cut before its newline, but later: the next run reads it and may
  finish, and the next row written stands on its line (`forward_log.py:168`,
  `portfolio.py:214`). Two rows are then unreadable, the first perhaps of a run
  that finished. `LogIsForwardTrades` names it.
- A range trade outlives `max_hold` bars when bars are flat:
  `range_revert.py:50` returns before it counts the bar and before both exits.
  `HeldWithinMaxHold` counts such bars apart.
- Bars that are corrected or filled in after a trade was logged leave the old
  line in the file. The portfolio's drawdown is taken in the order of the file,
  which is not that of the exits when the sleeves' bars end at different times.
- `run_backtest` drops a position still open on the last bar.

## 9. What is not modelled

Prices, profits and statistics, except where a limit is about them; the contents
of logs and reports; the floating-point averages (`_Ema`, `_Atr`, the detector's
volatility estimate and `compute_baselines`), whose outcome is a free choice;
partial executions (orders carry one contract); reconnects (the client makes
none). Of the back-test and drift statistics the quantiles and the seeded
generator are left out (which bars it draws is free), of the gap reports the
table by weekday and the slices by date, of the portfolio the tables of the
back-test report, of the trade log and the session report the sums per strategy
and the text.

Not modelled at all: the Tradovate stub, whose live branch raises and which no
runner builds; the research scripts, which read price files, print a table and
end; the account checks; the shell routines.

## 10. State of the plan

Done: client, both bridges, risk manager, signal bridge, engines, harness, feed
with the live loop, shock engine, gap reports, drift control, both logs with the
SHOCK sleeve, records, and the proofs of section 5. Of what the runs check only
liveness has no proof (section 6). What is left out of the models is in section 9.

## 11. How to run

    tlc -workers 2 -config MCMultiEngineBridge.cfg MCMultiEngineBridge.tla
    tlapm MultiEngineBridgeProofs.tla

Each run's module and configuration are in `PROJECT.json` under `runs`.
