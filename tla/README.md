# A verification development for my-job-agent

TLA+ specifications of the parts of this repository whose correctness depends on
the order of things: a paper-trading account served by overlapping requests, the
write-behind store of the market-data tape, the connection that carries the feed
leases, the election, without a coordinator, of the feed that produces ticks, the
runner that opens an operator's standing instructions once a session, the weekly roll of
the account's capital, a second desk that two processes drive under a row lock, the
renewal of the FYERS token, and the way of a job application from the queue to a portal.
TLC checks them on small instances; TLAPS proves some of their properties for every
instance. `PROJECT.json` maps every definition to the lines it models and lists the
runs, the hazards and the disagreements that were found.

All paths below are relative to the repository.

## 1. Inventory

The repository is a NestJS application (`src/`, TypeScript) with a MySQL database, a
headless worker process (`src/trading-agent/`), a C++ prototype (`src/engine`,
`src/market_data`, `src/roadmap`) and many feature modules. Two processes matter for
concurrency: the **app** (HTTP requests, cron jobs, the Upstox REST poll) and the
**worker** (the FYERS WebSocket). Both are single-threaded event loops: between two
`await`s nothing interferes, at every `await` any other handler may run. They share
nothing but MySQL.

| component | state | operations | what is hard |
|---|---|---|---|
| **PaperDesk** `src/trading/upstox-live-paper/upstox-live-paper.service.ts` | rows: portfolio, trades, orders, positions, P&L ledger | openTrade, closeTrade, updatePortfolio, toggles, updateCapital, refreshPositionsMarkPrices | up to nine awaited statements per request, no lock, no transaction; check-then-act; whole-row saves of stale reads; crashes between statements |
| **WriteBehind** `src/trading/unified-market-data/unified-market-data.service.ts` | two buffers, in-flight flags, timer, backoff gate, timeout counters, pool | ingest, scheduled flush, timeout, re-queue, pool release | abandoned queries that still answer; a gate, a timer and a flag that must not strand rows; bounded buffers |
| **LeaseConnection** `.../lease-connection.store.ts` | one connection and the promise that opens it | open, find, upsert, recycle | a connect that completes after it was recycled; shared failure of concurrent operations |
| **FeedArbitration** `.../feed-arbitration.service.ts`, `feed-arbitration.state.ts` | lease rows; per process: credentials, last tick, award | heartbeat, ownership tick, poll, election | two processes electing from different and ageing views; fail-open reads; dead owners |
| **InstructionRunner** `.../upstox-live-paper-instruction.service.ts` | instruction rows | create, update, rearm, remove, cron run, run-due, run-now | cron, endpoints and edits overlap and save whole rows they read before; a batch is decided from ageing copies; crash between trade and stamp |
| **CapitalContinuity** `.../upstox-live-paper-capital-continuity.service.ts` | portfolio row, roll events | applyWeekRoll | six reads, an event and an update with an await between any two; the event marks the week before the capital changes |
| **FnfDesk** `src/trading/fnf-trading.service.ts`, **SessionDriver** `src/trading-agent/session-driver.service.ts` | a second portfolio and its trades; the cycle of each process | openTrade under `FOR UPDATE`, closeTrade without, edits; list, exits, entries | the lock is taken after the read it should protect; two processes see one signal |
| **TokenSupervisor** `src/trading-agent/token-supervisor.service.ts`, **ProviderTokens** `src/trading/provider-token.service.ts` | the token row; failure counter, flag, last attempt | timer, check, refresh, storeTokens, logins | checks outlast the timer; three statements without a transaction; a flag set after an await |
| **ApplyEngine** `src/applications/`, `src/astro/` | queue items, application rows, lead status | prepare, approve, hold, sweep, loop, retry tick, apply, mark-success | submissions last minutes, timers do not wait, objects read earlier are saved whole |
| **AutoEntry** `.../upstox-live-paper-autoentry.service.ts` | running flag, candidates | scan, manage carried positions | flag bypassed by one path |
| **EventIntel** `src/trading/event-intel/` | events, versions, states | transitions, versioning | a long lifecycle, out-of-order evidence |
| **NativeMarketData** `src/market_data/` | sockets, threads | supervise, reconnect | real threads |
| **JobApplication** `src/job-application` | lifecycle records, scores | qualification, evidence, lifecycle | text heuristics; no protocol |
| research, gap engine, pattern engine, options, pages, astro, scout, ... | tables | formulas and request handlers | numeric; no protocol |

Interactions: the weekly roll reads and writes the row PaperDesk keeps. The worker's
session driver and the app's requests share the second desk through its rows, and the
worker's supervisor and the app's logins the token row. AutoEntry, InstructionRunner, the
HTTP controllers and the pattern dispatcher all call PaperDesk. The feeds write the tape through WriteBehind; whether
they may is decided by FeedArbitration, whose leases travel over LeaseConnection.
LeaseConnection exists because WriteBehind once starved the shared pool.

What makes each part correct:

- PaperDesk: the portfolio row is what the trades add up to; position rows mirror
  trades; the risk limits hold; nothing closed comes back.
- WriteBehind: no accepted row is lost without being counted; buffers and connections
  stay bounded; every row reaches the table in the end.
- LeaseConnection: one connection; a broken one is never used again; after the faults
  operations succeed.
- FeedArbitration: one producer per universe; the primary when it delivers; the
  standby when the primary is gone.
- InstructionRunner: one position per instruction and session; only what the operator
  ordered; a result never overwrites an order.
- CapitalContinuity: a week changes the capital once, on record, by what it earned.
- FnfDesk: a contract is held once; a close is booked once; the row adds up.
- TokenSupervisor: a due token is renewed; a dead one is not asked for over and over; a
  login stays.
- ApplyEngine: a lead gets one application; nothing goes out without consent; no success
  is claimed that did not happen; retries end.

The complete list of hazards, with lines, is in `PROJECT.json`.

## 2. Modules

| module | models | state and actions |
|---|---|---|
| `PaperDesk` | the paper account | one action per awaited statement (`CountOpen`, `LookupSame`, `InsertTrade`, `SaveEntryOrder`, `BookOutlay`, ...); `task[c]` is a request in flight with the row it read; `Crash` drops all tasks and keeps all rows |
| `PaperDeskProofs` | theorems about `PaperDesk` | section 5 |
| `WriteBehind` | buffers, flushes, timeouts | `Ingest`, `TimerFires`, `FlushOk`, `FlushFails`, `FlushTimesOut`, `LateAnswer`, `GateOpens`; `pool` is the queue of INSERTs at the connection pool |
| `LeaseConnection` | the lease connection | `Begin`, `Connect`, `ConnectFails`, `Complete`, `QueryFails`, `GiveUp`, `Wedge`; `Recycle` is part of every failure |
| `MarketStoreProofs` | theorems about `WriteBehind` and `LeaseConnection` | section 5 |
| `FeedArbitration` | the election | worker: `FyersTick`, `OwnershipBeat`, `OwnershipAward`, `MeasureFyers`; app: `PollDecides`, then `PollStandsBy`, `PollUnauthorised` or `PollFetches`; both: `Flush`; world: `Crash`, `Restart`, `Lose`, `Regain`, `Clock` |
| `InstructionRunner` | the standing instructions | operator: `Create`, `Update`, `Rearm`, then `SaveEdit`; `Remove`; runner: `RunDue` or `RunNow`, then per row `Plan`, `Lookup`, `Insert`, `Book`, `Finish`; faults: `BookFails`, `FinishFails`, `Crash`; world: `CloseTrade`, `WindowOpens`, `WindowCloses`, `NewDay` |
| `InstructionRunnerProofs` | theorems about `InstructionRunner` | section 5 |
| `Account` | the desk with every request one step: `Open`, `Close`, `SetCapital` | what `PaperDesk` implements when requests do not overlap, and what `WeekRoll` is written over |
| `WeekRoll` | applyWeekRoll over `Account` | `BeginRoll`, then per await `ReadClosed`, `ReadOpen`, `FindMark`, `WriteMark`, `ReadCapital`, `RollCapital`; around it `Enter`, `Exit`, `Configure`, `NewWeek`, `Crash` |
| `WeekRollProofs` | theorems about `WeekRoll` | section 5 |
| `FnfDesk` | the second desk and its drivers | entry: `BeginOpen`, `LockRow`, `LookForClash`, `CommitOpen`; close: `BeginClose`, `SaveClosed`, `BookClose`; edit: `BeginEdit`, `SaveRow`; driver: `StartCycle`, `ListTrades`, `Evaluate`, `ExitRefused`, `DriverExit`, `DriverEntry`, `EndCycle`; `Crash` of one process |
| `FnfDeskProofs` | theorems about `FnfDesk` | section 5 |
| `TokenSupervisor` | the renewal of the FYERS token | `Timer`; per check `CheckHealth`, `Decide`, `ReadGrant`, `Fetch`, `Collapse`, `Save`; per login `StartLogin`, `CollapseLogin`, `SaveLogin`; faults `ReadFails`, `StoreFails`, `WorkerRestarts`, `AppRestarts` |
| `FeedAndTokenProofs` | theorems about `FeedArbitration` and `TokenSupervisor` | section 5 |
| `ApplicationPipeline` | from queue to portal | the engine both entries share is `Engine`, `Send`, `SaveApp`, `SetLeadApplied`; its callers are `StartLoop`/`LoopTakes`/`Prepared`, `StartSweep`/`SweepTakes`/`ReadMatch`/`SaveMatch`/`Mark`, `StartTick`/`ReadDue`/`CountRetry`/`Retry`/`SaveRetry`, `StartApply`; the user's are `StartPrepare`, `StartEdit`, `MarkSuccess`, `StartFollowUp`; faults `SendUnrecorded`, `SaveAppFails`, `SetLeadFails`, `MatchFails`, `Crash` |
| `ApplicationPipelineProofs` | theorems about `ApplicationPipeline` | section 5 |
| `SumTheorems` | what sums over finite sets are, for the theorems about books | section 5 |
| `MCPaperDesk`, `MCWriteBehind`, `MCFeedArbitration`, `MCInstructionRunner`, `MCWeekRoll`, `MCFnfDesk`, `MCApplicationPipeline` | constants and symmetry for TLC (`LeaseConnection` and `TokenSupervisor` need none) | |

A definition whose comment begins with "Slip" is a plausible mistake in the one it stands
before. No action uses it: it is there to show that a property would notice.

Abstractions. A trade of `PaperDesk` is its outlay, costs and result; a contract is a
model value; prices, lots and texts are gone. The entry rules keep every comparison
the code makes. A row of `WriteBehind` is a model value, and its deterministic id is
why storing it twice is harmless. `FeedArbitration` counts time in polls of the Upstox
desk (30 s by default): an age of 0 is FRESH (up to 10 s), 1 and 2 are STALE (up to
60 s), 3 is DOWN, and a lease expires after 3 (90 s). Ages saturate one past the last
threshold, so the model is finite without cutting behaviours. The timers inside one
unit go off in any order, and each goes off at least once before the unit ends.
`InstructionRunner` keeps of the desk what decides whether a trade is opened twice: the
lookup of the contract and the insertion are two steps, and what follows the insertion
is one step that may fail. Whether the quote is fresh, the size known and the
portfolio armed is a free choice at `Plan`. All instructions trade in one portfolio,
and no request outlasts its day (the window closes ten minutes before the market and
hours before midnight).

`Account` and `WeekRoll`: `Account` has one guard where the code has two, because
openTrade passes capital plus max(0, netPnl) as the peak, so that the loss guard and the
drawdown guard are two percentages of one booked loss. `WeekRoll` takes the requests of
the desk as single steps, which the refinement of `desk_serial` justifies, and the roll
read by read. A position carried over the week's end blocks the roll whatever it is
worth: nothing writes the column `unrealisedPnl`, and the entry cost is charged at the
opening, so the trades and the row cannot agree.

`FnfDesk`: a quantity is one lot, and what sizing, stop and risk budget decide is the
comparison they come to. openTrade passes 0 as the number of open positions, so the limit
on positions never applies and is not in the model; a ceiling of 0 counts as the capital
(`Number(ceiling) || capital`). The driver works through the list it read before its
exits. A crash is that of one process, and rolls its open transaction back.

`TokenSupervisor` counts time in checks of ten minutes, so the cooldown of 15 minutes is
2; a check may outlast the next two. The two reads before the flag's test are one step.
Access tokens are fresh or due, refresh tokens are of the last login or of an earlier
one. FYERS_PIN is set in the worker only, so the app's own refresh endpoint never
refreshes. A token whose expiry cannot be decoded, at which the supervisor does
nothing, is left out, and so is Upstox, whose request flow is switched off in the code.

`ApplicationPipeline` leaves open what settings, caps, profile, qualification, mail
server and portals answer, and which failed rows are due: any subset. Whether submissions
are blocked is open at every look as well: POST sandbox/toggle sets the flag at any time and
does nothing else, so no variable is needed for it. The engine looks at its gates (154 and
603 of apply-engine.service.ts), which refuse, and once more just before the submission (257
and 636), several awaits later, which ends as `sandboxed`: an outcome of `Send`, whose row
both entries then count as final. `sent` counts what mail server, browser or portal adapter
report as submitted. The search for a twin lead (140-146) finds none, as (source,
externalId) is unique. Marking a row as applied by hand is one step, and covers the retry
endpoint, which marks any row that is not applied.

History variables: `disturbed` (PaperDesk) says whether two requests have overlapped
or a crash has cut one; `accepted` (WriteBehind) is the set of rows ever accepted;
`calm` (FeedArbitration) counts the whole units since anything failed, was lost, came
back or was measured differently; `entries`, `total` and `excused` (InstructionRunner)
count the trades opened and name the instructions whose once-a-session guard was
disturbed today, because two tasks held the row at once, it was rearmed, or a fault fell
between its trade and its stamp; `applied` and `overlapped` (WeekRoll)
count the changes a week has made and say whether rolls, or a roll and an edit, have
overlapped; `booked`, `contested` and `disturbed` (FnfDesk) count the
bookings of a close and tell which overlapped; `sent`, `staged`, `attempts`, `consent`,
`shared` and `mishap` (ApplicationPipeline) count what went out, name the leads of which
nothing did though a submission was left out for the sandbox, record what was approved and
name the leads that were in two hands, or met a fault, a second row or a mark by hand; `newest`,
`raced`, `contested` and the counts `failed` (TokenSupervisor) hold the last login and
whether checks met between test and setting of the flag, or a login met a refresh. They
never guard an action, except that `total` bounds the trades.

## 3. Runs

| run | question | bounds | states |
|---|---|---|---|
| `desk_serial` | are the handlers right when requests do not overlap? | 1 caller, 4 trades, 3 contracts, 3 outlays, results -3 and 2, capital 7 or 10, limit 2 | 65 250 |
| `desk_concurrent` | what survives overlaps and crashes? | 2 callers, 3 trades, 2 contracts, limit 1, 1 crash | 1 101 428 |
| `write_behind` | is anything lost, leaked or unbounded? | 2 quotes, 1 snapshot, room for 1, batch of 1, pool of 3 | 1 279 147 |
| `write_behind_live` | does every row arrive while the tape runs? | 2 quotes, 1 snapshot, room for 1, batch of 1, pool of 2, a release at every timeout | 25 344 |
| `lease` | one opening; nothing stranded but by a late connect; recovery | 2 operations, 4 sockets, 2 faults | 35 557 |
| `feeds` | does the election settle, and on the right feed? | 1 fault of any kind, both priorities at their defaults | 1 537 269 |
| `instructions` | once a session, as ordered, orders kept, executions true? | 2 tasks, 1 instruction, 2 sessions, 2 trades, 2 edits, 1 fault | 2 018 033 |
| `apply_pipeline` | one submission per lead, with consent, truly recorded, bounded retries? | 1 lead, 2 tasks, 1 item, 1 application row, 2 retries, 1 fault | 4 177 313 |
| `apply_twice` | violation: a lead is submitted once | 1 lead, 1 task, 2 items, 2 rows, no fault | |
| `week_roll` | once a week, exactly what was earned? | 2 rolls, 2 trades, results -2 and 3, capital 4 or 6, 2 weeks, 1 crash | 5 934 989 |
| `fnf_desk` | what does the row lock protect, and what is right without it? | 2 drivers, 1 request, 2 trades, 2 contracts, 1 crash | 668 617 |
| `tokens` | one refresh at a time, no storm, logins kept, tokens renewed? | 2 rows, 1 login, checks that outlast the next 2, 2 failures per token, 1 fault | 961 301 |

Why the bounds are enough. The hazards of `PaperDesk` are races of two requests; a
third caller adds no new kind of overlap, and the theorem of section 5 covers any
number. In `desk_serial` capital 7 and 10 against outlays 3, 4 and 6 put the deployable
amount on both sides of every comparison, and a loss of 3 reaches the loss guard. In
`write_behind` a buffer with room for one row overflows on every re-queue, and a pool
of 3 with a release after 2 timeouts is the smallest that satisfies the assumption
the constants must meet (`PoolSize > 1` and `2 * RecycleAfter <= PoolSize + 1`, true of the
defaults; `MYSQL_POOL_SIZE` may be set to 1, src/src/config/db.config.ts:60, and then
`AbandonedBounded` fails, which the proof found: both flushes can be in flight over one
connection). In
`lease` two operations are the heartbeat and the ownership read; four sockets are more
than can be in use, and a dead one is used again. In `feeds` one fault stands for a
crash, a lost token, a silent broker, a failed read or a failed write, and a fault may
hit at any point of any unit; recoveries (`Restart`, `Regain`) are not counted, and
`Init` starts with either broker silent. `Settle = 5` is `Throttle + 4`, what the proof of
section 5 needs: a row written in the first calm unit may still tell what was so before,
it may get `Throttle + 1` old before it is written over, and an award read from it lasts
another unit. One fault settles in 4, and
the run with `Settle = 4` and two faults shows two producers: Upstox loses its token, then
Fyers its credentials but not its socket, and when the token is back, the beat of the first
calm unit still says it is not, and the worker goes on publishing because nobody seems to be
a candidate. With `Settle = 5` TLC finds no error under two faults either (8.9 million
states, more than the run is given). In `instructions` one row
suffices because no property relates two of them and tasks share nothing else but the
contract, whose refusal is a free choice already; two tasks are every pair of cron tick,
request and edit; the second session is what the guard must open for, and `Dates` holds
both a one-shot and a standing instruction. The bounds end every behaviour of that run and
of the two of the applications, which is why these three do not look for deadlocks.

In `apply_pipeline` two tasks are any two of loop, sweep, tick, endpoint and edit, and leads
share nothing but the counters the model leaves open. A second row of a lead exempts it
from the promises (`mishap`), so one row is enough there; `apply_twice` has two. In
`week_roll` two weeks are the one that is rolled and the one the desk trades in meanwhile,
two trades let one be closed between any two reads and another be carried over, a loss of
2 with its costs takes a capital of 4 to nothing, and two rolls are an impatient operator.
In `fnf_desk` two drivers are the app's and the worker's, two contracts let one be entered
while the other is held, and a budget for two lots of 2 in a capital of 6 is used up. In
`tokens` the cooldown of two checks and the limit of two failures are the code's own;
a check that outlasts the next two is the shortest whose attempt meets another one after
the cooldown; two rows are the active one and a revoked or stray one.

### What the passing runs show

- `BooksBalance`, `PositionsMirrorTrades`, `EntryRulesHold`, `ExposureWithinCapital`:
  the bookkeeping of the handlers is right in every order of entries, exits, edits and
  capital changes. All of them need `~disturbed`; with overlaps they fail, and the
  hazards name the lines. `Implements` says it in one formula: with one caller and no
  crash, the statements of a request are together one step of `Account`. In the mapping
  an entry takes effect when its cost is charged and an exit when its outlay is released;
  before, what the request has half written is undone or left out.
- `ExposureBound`, `OrdersPrecedeRows`, `ClosedStaysClosed`: what overlaps and crashes
  cannot break. The limit is exceeded by fewer trades than there are callers.
- `NothingLostSilently`, `RequeueStaysBounded`, `AbandonedBounded`,
  `ReleaseOnlyWhenDegraded`, `RowsReachStore`: timeouts, late answers and pool releases
  lose nothing silently, retain a bounded number of queries, never destroy the pool of a
  path reported healthy, and deliver every row while ticks keep coming.
  `RowsReachStore` needs what `OutageEnds` says, that a row sent over and over is at last
  sent with a connection: without that, and with a release after two timeouts, TLC finds
  a row that meets a pool full of wedged queries every time, because each success of the
  other table clears the run of timeouts that would release them. What the property shows
  is that no row waits for ever behind the gate, the timer, a buffer that is full when it
  comes back, a newer row of its table or a query that the other table's release cut off.
  In this run every timeout releases the pool, so no query outlives the flush that gave it
  up; with a release after two timeouts and a pool of 3 the property holds for one quote
  and one snapshot (25 041 states), and for two quotes alone (18 349). Abandoned queries
  and newer rows with both tables at work are 2.5 million states, more than TLC's check of
  liveness gets through.
- `OneOpening`, `StrandedByLateConnect`, `Recovers`: see the module's comments.
- `SoleProducer`, `PrimaryServes`, `StandbyTakesOver`: convergence stated as safety. The
  counter `calm` makes "once nothing changes any more" a state predicate, so no fairness
  is needed.
- `OncePerSession`, `EntersAsOrdered`, `ResultsKeepOrders`: with the row in one pair of
  hands the runner does what its comments say although every decision is taken from a
  copy. `ExecutionsWitnessed` needs no condition: lost updates lose executions, and
  never invent one.
- `NeverReapply`, `RetriesBounded`, `SuccessIsTrue`, `SendsHaveConsent`: the sequential
  use of the engine by user, sweep, tick and endpoint is right; what spoils it is named by
  `shared` and `mishap`. `SuccessIsTrue` needs neither: faults and stale objects forget
  submissions, and never make one up. Its one exception is the item whose submission was
  left out for the sandbox: the sweep says `sent` of it (disagreement 11), while no
  application row and no lead ever claims it.
- `OneRollPerWeek`: a week that changed the capital is on record and has changed it once,
  or once for each roll that overlapped; a crash between the event (395) and the update
  (430) leaves the week on record and the capital as it was, for good. `FirstRollEarned`:
  the first roll adds what the trades closed by the end of that week brought in, although
  the desk trades on while it reads. The conditions matter: a roll may name a week that
  is not over, and a capital the operator sets between the preview and the update is
  overwritten.
- `OneOpenPerInstrument`: the lock does keep a contract single, across processes and
  crashes. `BookedOnce`: a close is booked twice only by two closes of that trade.
  `BooksBalance` needs requests that do not overlap: openTrade writes a value computed
  from the row it read before it took the lock (251, 353), and closeTrade takes none.
- `RefreshesBounded`: one refresh at a time, and no content is asked for more often than
  allowed, although checks outlast the timer; `raced` excuses two checks that met between
  the test of the flag and its setting, where only the cooldown is left, and a read must
  hang for 20 minutes to get past it. `LoginHolds`: with one writer at a time
  there is one active row and it has the last login's refresh token, whatever fails.
  `Renews`: no flag, counter or cooldown keeps a due token from being renewed.

### Disagreements found

One has a run, in which TLC shows the behaviour; the others follow from properties and
theorems as said.

1. `apply_twice`: an application that went out and was marked as applied by hand is
   submitted again by the sweep, because submitPrepared refuses only the statuses it lists
   and `applied` is not one (apply-engine.service.ts:567), against "never re-apply to the
   same portal job id" (134).
2. A losing week can raise the capital: the roll adds the results of all trades since the
   account was created (capital continuity, 293-297 and 223) and resets nothing, so a
   profit that was rolled once is added again by the next roll. Capital 4, a week of +3
   rolled to 7, a week of -2: the roll adds +1. `FirstRollEarned` is about the first roll
   for this reason; src/scripts/upstox-capital-continuity.test.js:61 says "losing week must
   LOWER available capital".
3. Two entries that overlap both pass the count of open trades, against the comment that
   no caller can exceed the account's limits. `ExposureBound` says by how much.
4. After a timeout the flush timer can fire inside the backoff gate and nobody re-arms it;
   the rows wait for the next tick, which after the close never comes. `RowsReachStore`
   therefore needs `LiveTapeSpec`.
5. `recycle()` destroys a connection that is still opening, and the continuation of
   `open()` installs it all the same: the case `StrandedByLateConnect` leaves.
6. A primary that lives but delivers nothing keeps the universe, because a standby that
   does not poll is as DOWN as the primary and priority breaks the tie (theorem
   `StalledPrimaryKeepsTheSlot`). It takes no fault: a worker with credentials and no
   ticks at the opening is enough.
7. Two overlapping runs of one instruction both open a trade, against "at most ONE position
   per instruction per session": the rows `OncePerSession` excuses.
8. `finish` of the instruction runner saves the whole row, so an instruction disabled or
   removed while its quote was fetched is enabled, or back, afterwards (`ResultsKeepOrders`
   states when that cannot happen). And `runNow` is documented as "force also ignores the
   guards", but `planInstruction` refuses a disabled or already executed instruction.
9. The supervisor counts the refresh tokens of all FYERS rows, the revoked ones included
   (getRefreshStatus, provider-token.service.ts:325), against "missing refresh token => ZERO
   refresh attempts": with an old row in the table it tries until its failures are used
   up. And a refresh that overlaps a login stores the old refresh token over the new one
   (306), the case `contested` excuses in `LoginHolds`.
10. An error of the database, unlike a timeout, reaches neither the health machine nor the
   gate of the tape: a store that refuses every batch is retried at full rate and reported
   healthy (unified-market-data.service.ts:473).
11. An item can say `sent` although nothing was submitted: the sandbox is turned on between
   the gate (apply-engine.service.ts:603) and the second look (636), and the sweep marks
   the item as sent (muhurta-send.service.ts:47). The exception in `SuccessIsTrue`.
12. "While ON, the agent runs the full pipeline" and "sandbox rows are ignored by real mode"
   (sandbox.controller.ts:8-13): with the sandbox on, both gates refuse with "kill switch
   active" before anything is prepared for sending (154, 603), and a row that says
   `sandboxed` stops both entries of the engine for good (137, 567).
13. MonsterAdapter.apply answers `submitted` when it has credentials, and submits nothing
   (monster.adapter.ts:95-98); the engine, and with it `sent`, believes it.

## 4. Fairness

- `WriteBehind` `FairSpec`: timers go off (`WF` on `TimerFires`, `GateOpens`: they are
  `setTimeout`s), a flush ends (`WF` on `FlushEnds`: the race with the timeout settles),
  and a late query that gets a connection is answered. A wedged query need never answer.
  `OutageEnds`: a row that is sent over and over is at last sent with a connection, and
  accepted. `LiveTapeSpec` adds that ticks keep arriving (`WF` on `Ingest`), true of the
  trading session and of nothing else.
- `LeaseConnection` `LeaseFairSpec`: the heartbeat comes round (`WF` on `Begin`), connects
  complete and queries end. `Recovers` additionally assumes infinitely many quiet
  moments, which the interval of 15 s against a limit of 8 s per operation gives.
- `TokenSupervisor` `TokenFairSpec`: the interval fires (`WF` on `Timer`), and some running check
  goes on (`WF` on `Proceed` of any check: reads, requests and statements are answered or
  fail). FYERS may refuse every time, logins need neither start nor end.
- The other modules state safety only and assume no fairness.

## 5. Proofs

Every invariant and action property that a passing run checks is also a theorem, for every
value of the constants that the named assumptions allow. What is left to TLC is liveness:
see the end of this section.

`PaperDeskProofs` (any sets of callers, trades and contracts, any limit, any number of
crashes; `DeskAssumption`):

- `TypeCorrect`: `Spec => []TypeOK`, by one lemma per kind of step.
- `WritesInOrder`: `Spec => []OrdersPrecedeRows`. Not inductive alone: a caller about to
  write the position must be known to have written the order. `TasksKnowTheirTrade` says
  what each step of a request may rely on, `OneOpener` that no two callers open the same
  trade, and their conjunction with `OrdersPrecedeRows` is inductive.
- `ClosedForGood`: `Spec => ClosedStaysClosed`, an action property, from the same
  invariant: only `InsertTrade` and `SaveClosedTrade` write a status.
- `ExposureBounded`: `Spec => []ExposureBound`. The strengthening `AdmissionInv` adds the
  callers that were admitted and have not inserted: a caller is admitted only when it
  counted fewer trades than the limit, and an insertion turns one admitted caller into one
  trade.
- `BooksAreBalanced`, `PositionsMirror`, `EntryRulesKept`, `ExposureStaysWithinCapital`: what
  holds while nothing is disturbed. The invariant `Serial` says that there is then one
  caller at work at most, that what it read from the portfolio row is still there
  (`CopyHolds`), that its entry fits that row (`EntryHolds`) or its exit the trade
  (`ExitHolds`), that positions mirror trades but for the one in hand (`MirrorHolds`), and
  that the row's totals are the sums over the trades that it counts at that step
  (`TotalsHold`). The properties are about the end of a request; the invariant has a clause
  for every statement in the middle, because a later one relies on it.
- `UndisturbedImplements`: `Spec /\ []~disturbed => Implements`. With the mapping of
  `PaperDesk`, every statement of a request is a step of `Account` or a stutter, for any
  number of callers that take turns.

`FnfDeskProofs` (any drivers, clients, trades, contracts; `FnfAssumption`):

- `FnfWellTyped`, `OneTradePerContract`: the lock has one holder (`TypeOK` says so), and what
  it has seen in `LookForClash` stays true until its commit (`Clear`), because nobody else
  can commit.
- `ClosesBookedOnce`: `BookInv` ties the closes in hand to the trades: their trade is on
  record and closed (`ClosesKnown`), a trade that no two closes fought over has one close at
  most, in hand or booked (`OneClose`), and one that is in nobody's hand was booked unless a
  process died (`NoneUnbooked`).
- `BooksAreBalanced`: `Balanced` keeps the totals over the trades that are written but not
  booked, and says that the copy of the one request under way is fresh.

`ApplicationPipelineProofs` (any leads, tasks, items, rows and faults; `PipelineAssumption`):

- `PipelineWellTyped`, `NoFalseSuccess`: `PipelineInv` says of every task that what it has
  in hand is typed (`InHand`) and truthful (`Truthful`): an object that says submitted,
  wherever a task keeps it, is of a lead that went out, and a result sandboxed, or a copy
  of an item that says sent, of one that went out or was left out for the sandbox
  (`Claimed`). Neither is ever taken back, so a stale object stays truthful however late it
  is saved.
- `NoSecondSubmission`, `RetriesEnd`: `HandInv` says that a lead that was never shared is in
  one pair of hands (`Exclusive`); that whoever is past the engine's deduplication has a lead
  that never went out (`Unsent`); that a lead that went out has a row that says so, or a
  task about to say so (`Told`); and that no copy of a row counts fewer retries than there
  were, unless the lead was shared (`Backs`).
- `ConsentIsAsked`: `SendsHaveConsent`, an action property, from `ConsentInv`: what is approved
  in the table, or in a task's copy of an item, has its consent on record (`Consented`), and
  the leads that a retry tick works on are not queued (`OffQueue`), so that only sweeps send
  what the queue holds.

`WeekRollProofs` (any rolls, trades, results, weeks and edits; `RollAssumption`):

- `OncePerWeek`: `RollSpec => []OneRollPerWeek`. `RollInv` counts, with the changes a week
  has made, the rolls under way that found the week unmarked (`InFlight`): together at most
  the rolls there are (`Counted`), and at most one as long as nothing overlapped (`Alone`);
  a roll past its mark has its week on record (`OnRecord`).
- `CapitalStaysPositive`: `DeskTyped` of the same invariant; what a roll sets is clamped.
- `TypeCorrect`, `FirstRollAddsEarned`: `YearInv` adds that the trades held and settled are
  finitely many and distinct and the deployed figure is their sum (`DeskCounted`), and that
  what a roll has read still stands (`Past`): nothing is settled any more in a week that was
  over when the roll was asked for, so the sum it read is still the week's when it is
  added, whatever the desk has traded since.

`MarketStoreProofs` (every size of buffer, batch and pool, `WriteBehindAssumption`; any
operations, sockets and faults, `LeaseAssumption`):

- `ReleasesAreReported`: `Spec => ReleaseOnlyWhenDegraded`. `CountersAgree` compares the
  two counters of timeouts: unless it has reached its cap, the health machine's is never
  below the service's. Without it a release could come while the machine still counts to
  its first threshold.
- `NothingIsLostSilently`, `RequeuesStayBounded`, `TapeWellTyped`: `RowsInv` says where each
  row is: once in its buffer, in the batch in flight, stored, or counted as dropped. Its
  lemmas say what the cutting, joining and trimming of the buffers does to sequences without
  duplicates.
- `WaitersAreBounded`: `PoolOK` bounds the queries the service has given up, less the timeouts
  counted since the last success or release (an answer starts that count again): by one less
  than the pool while a query that has a connection is awaited, because the others hold or
  wait for the rest of it, and by the pool and the release limit always. Of each table at
  most the query sent last is awaited (`LastOfTable`).
- `OnlyTheGateForgets`, `OnlyTrafficRescues`: `Forgotten(t)` says that rows wait and neither a
  timer nor a flush will turn to them. The first theorem shows that this comes about in one
  way, the timer that goes off inside the gate (finding 4 of section 3): the end of every
  flush sets the timer for what it leaves, and a quote flush turns to the snapshots,
  whatever overlaps. The second shows that only a tick ends it, or the other table's flush
  when it leaves rows over. Hence `RowsReachStore` needs ticks (`LiveTapeSpec`).
- `OneConnect`, `LeaseWellTyped`: `LeaseSpec => [](LeaseTypeOK /\ OneOpening)`. The invariant
  `ConnectionInv` adds `ConnIsConnected`: an installed connection that lives was connected,
  and nothing is being opened beside it. Without it `Begin` could open a second one.
- `OnlyLateConnectsStrand`: `LeaseSpec => StrandedByLateConnect`, an action property, by
  elimination of every action but `Connect`.

`InstructionRunnerProofs` (any tasks, instructions, contracts, sessions, edits and faults;
`RunnerAssumption`):

- `RunnerWellTyped`, `OneEntryPerSession`, `ExecutionsAreTrades`: `TypeOK`,
  `OncePerSession` and `ExecutionsWitnessed` are invariants. `RunnerInv` ties the copies
  to the rows: the copy of a row nobody else held is still what is stored
  (`CopiesFresh`), it is due between the plan and the trade (`Planned`), a trade is
  stamped or its run is about to stamp it (`EntriesStamped`), and no copy claims more
  executions than there were trades, one less while a trade is uncounted
  (`CopiesWitnessed`).
- `EntriesAsOrdered`, `OrdersSurviveResults`: the action properties `EntersAsOrdered` and
  `ResultsKeepOrders`, from the same invariant.

`FeedAndTokenProofs`, the election (any thresholds, any number of faults; `FeedAssumption`,
and for the convergence `TimingAssumption`, which the defaults satisfy):

- `FeedsWellTyped`: `Spec => []TypeOK`.
- `OwnerIsCandidate`, `LivingOwner`: what `decideOwnership` decides for every view; they
  rest on `RankingIsStrict`, that its order is total and strict.
- `StalledPrimaryKeepsTheSlot`: the cause of the sixth disagreement, for all thresholds.
- `OneProducer`, `PrimaryComesBack`, `StandbyNeverWaits`: `SoleProducer`, `PrimaryServes` and
  `StandbyTakesOver` are invariants. `CalmInv` says what has been seen after how many calm
  units: a row that is kept is young (`BeatsKept`), a claim older than a loss ages with the
  calm (`LossSeen`), a socket that delivers is fresh (`SocketSeen`) and the poll has measured
  its token (`TokenSeen`) within one; then a primary that delivers awards itself the
  universe, its row says so or is from before, and the standby reads it (`PrimaryWins`);
  a worker whose socket outlives its credentials reads the standby's row and stops
  (`StandbyWins`); and the row of an owner that is gone expires (`OwnerGone`). Because a fault
  sets `calm` to 0, one argument serves for any number of them. `TimingAssumption` says what
  the argument uses of the defaults: the WebSocket has priority; a beat that may be
  skipped does not make a feed DOWN, nor less fresh than a feed between two polls; and
  `Settle` is large enough. `StandbyNeverWaits` uses the last of these only. The attempt to
  prove it with the value the run had before, 4, is what found the two producers described
  in section 3.

`FeedAndTokenProofs`, the token (any rows, logins, lags, limits and breaks;
`SupervisorAssumption`):

- `TokensWellTyped`, `RefreshesAreBounded`, `LoginsHold`. `TokenInv` bounds the failures counted
  together with the refreshes under way, each of which may still add one (`Counted`), and
  has three parts under the conditions the code needs. Unless checks raced, one check at most
  is past the flag's test, and the flag is up while it refreshes (`FlagHolds`). Unless a login
  met a refresh, one call at most will write (`LoneWriter`), it will write over the active
  row (`AllPlaced`), and row and call have what the last login brought (`NewestKept`). Unless
  either, no row has failed more often than the process has counted for it
  (`FailuresCounted`).
- `FlagIsReleased`: `TokenSpec => [](inFlight => a check is in Refreshing)`, by `FlagOwned`: a
  check that holds the flag goes on holding it until its `finally` clause, also past checks
  that met it between test and setting, and a restart clears both. A flag left up would stop
  every later refresh, so `Renews` rests on this.

`SumTheorems` states what the sums of the community modules are over finite sets: unfolding
at any element, an element more or less, agreement, and that naturals add up to a natural.
The sums are defined by a choice and a recursion, and induction over sets takes an operator
the provers cannot instantiate; the lemmas take a minimal counterexample instead
(`MinimalSubset`).

Only model-checked: `RowsReachStore`, `Recovers` and `Renews`. They are liveness under
fairness, which, like `ENABLED`, is out of the prover's reach; what is proved is the safety they rest
on: which step alone can leave rows (`OnlyTheGateForgets`) or a connection
(`OnlyLateConnectsStrand`) without anybody to turn to them, and that the flag comes down
(`FlagIsReleased`). `Implements` is proved for
behaviours in which nothing is disturbed, the only ones it is true of; `desk_serial` checks
it with one caller and no crash. No module declares a RECURSIVE operator.

## 6. Plan

What is done was built in this order: the desk, the tape, the lease connection, the
election, the instructions; then `Account` and the roll over it, the second desk, the
applications, the token; then the proofs of every safety property. What is left, in order:

1. That an entry of the desk which overlaps others still books its own cost and outlay once
   (what of `BooksBalance` survives overlaps), stated with a history of what was lost.
2. `Renews` with two logins at once, which is past what TLC explores; the safety of the token
   is proved for any number of them.
3. The event lifecycle of `EventIntel`, the C++ supervisor, and AutoEntry as a client of
   `PaperDesk`.
4. `FeedArbitration` with units of 5 s, to check flapping under a 10 s poll.

## 7. Not modelled

Numeric code (features, patterns, gap engine, greeks, statistics, scoring) has no
ordering to check and is covered by the repository's table-driven tests. Web pages,
mail, scraping, language-model prompting and spreadsheets are I/O. Of the modelled
components we leave out: the calendar-day loss counters and reports of the desk, the
read side of the tape, the lease connection's close(), which nothing in the application
calls, several universes and the `global` mode of the arbiter, the two-second cache of its decisions, which is far below the unit of time, the upper bound of
the rolled capital and the risk sessions an edit of the capital reopens, the Friday block,
signals and reflections of the second desk, mail texts and the choice of leads of the
applications, and Upstox's tokens.
