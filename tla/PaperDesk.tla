------------------------------ MODULE PaperDesk ------------------------------
(***************************************************************************)
(* The paper-trading account of UpstoxLivePaperService: one portfolio row, *)
(* its trades, orders, position rows and the profit-and-loss ledger, and   *)
(* the requests that change them: openTrade, closeTrade, the read-then-save*)
(* edits (updatePortfolio, setAutoTrade, setFridayTrading, updateCapital)  *)
(* and the refresh of the mark prices.                                     *)
(*                                                                         *)
(* The service takes no lock and opens no transaction.  Every `await` on   *)
(* the database is a point where another request may run, so each handler  *)
(* is split into one action per awaited statement, and a caller keeps the  *)
(* portfolio row it read at the start in its own task record until it      *)
(* writes numbers computed from it.  Crash models the death of the process *)
(* between two statements: the rows stay, every task is gone.              *)
(*                                                                         *)
(* Prices are abstracted to the outlay of an entry and the gross result of *)
(* an exit.  A request that the handler refuses leaves no row behind and   *)
(* is not a step, except where it is refused after its first await.        *)
(***************************************************************************)
EXTENDS Integers, FiniteSets, FiniteSetsExt

CONSTANTS
  Callers,      \* requests that may be in flight at once
  Trades,       \* identifiers of trade rows; their number bounds the entries
  Instruments,  \* option contracts
  Outlays,      \* premium outlay of one entry (fill price * units)
  Grosses,      \* gross result of one exit
  Capitals,     \* configured capital, already clamped
  EntryCost,    \* calculateOptionCost of the entry leg
  ExitCost,     \* calculateOptionCost of the exit leg
  MaxOpen,      \* maxOpenPositions
  MaxLossPct,   \* maxLossPct
  MaxDrawdownPct, \* maxDrawdownPct
  MaxCrashes,   \* bound on the crashes of one behaviour
  None

ASSUME DeskAssumption ==
  /\ IsFiniteSet(Callers) /\ Callers # {}
  /\ IsFiniteSet(Trades) /\ None \notin Trades
  /\ None \notin Instruments
  /\ Outlays \subseteq Nat /\ Grosses \subseteq Int
  /\ Capitals \subseteq Nat \ {0} /\ Capitals # {}
  /\ EntryCost \in Nat /\ ExitCost \in Nat
  /\ MaxOpen \in Nat \ {0}
  /\ MaxLossPct \in Nat /\ MaxDrawdownPct \in Nat /\ MaxCrashes \in Nat

VARIABLES
  account,    \* the portfolio row
  trade,      \* the trade rows
  legs,       \* per trade, the order legs on record
  position,   \* per trade, its position row
  running,    \* runningNetPnl of the newest ledger event
  task,       \* per caller, the request it is executing
  disturbed,  \* history: two requests overlapped, or a crash cut one
  crashes

vars == <<account, trade, legs, position, running, task, disturbed, crashes>>

Positive(n) == IF n > 0 THEN n ELSE 0

Rows == [capital: Nat, ceiling: Nat, deployed: Nat, netPnl: Int,
         totalCost: Int, openPositionCount: Nat]

NewRow(c) == [capital |-> c, ceiling |-> c, deployed |-> 0, netPnl |-> 0,
              totalCost |-> 0, openPositionCount |-> 0]

TradeRows ==
  [status: {"NONE", "OPEN", "CLOSED"}, instrument: Instruments \cup {None},
   outlay: Nat, cost: Nat, netPnl: Int]

NoTrade == [status |-> "NONE", instrument |-> None, outlay |-> 0, cost |-> 0,
            netPnl |-> 0]

OpenSteps  == {"counting", "lookup", "insert", "entryOrder", "deploy", "charge",
               "openEvent", "openPosition"}
CloseSteps == {"exitOrder", "closing", "release", "closeEvents", "closePosition"}
EditSteps  == {"saving", "capital", "capitalEvent", "marking"}
Steps      == OpenSteps \cup CloseSteps \cup EditSteps \cup {"idle"}

Tasks == [at: Steps, row: Rows, trade: Trades \cup {None},
          instrument: Instruments \cup {None}, outlay: Nat, gross: Int,
          openCount: Nat, same: BOOLEAN, marks: SUBSET Trades]

\* A caller with no request; the row it carries is never looked at.
Idle == [at |-> "idle", row |-> NewRow(0), trade |-> None,
         instrument |-> None, outlay |-> 0, gross |-> 0, openCount |-> 0,
         same |-> FALSE, marks |-> {}]

WithStatus(s) == {t \in Trades : trade[t].status = s}
OpenTrades    == WithStatus("OPEN")
OpenCount     == Cardinality(OpenTrades)

Busy(c)   == task[c].at # "idle"
Quiescent == \A c \in Callers : ~Busy(c)
-----------------------------------------------------------------------------
(***************************************************************************)
(* The risk envelope (paperRiskSnapshot and entryGuards), computed from    *)
(* the row the caller read and the count it made.  openTrade passes no     *)
(* session, so a session starts at the configured capital, and it passes   *)
(* capital + max(0, netPnl) as the peak.  The unrealised part is 0: nothing*)
(* ever writes that column.                                                *)
(***************************************************************************)

Equity(row) == row.capital + row.netPnl

LossHit(row) ==
  LET limit == row.capital * MaxLossPct
  IN  limit > 0 /\ Positive(row.capital - Equity(row)) * 100 >= limit

PassedPeak(row) == row.capital + Positive(row.netPnl)

DrawdownHit(row) ==
  LET limit == PassedPeak(row) * MaxDrawdownPct
  IN  limit > 0 /\ Positive(PassedPeak(row) - Equity(row)) * 100 >= limit

Deployable(row) == Positive(row.capital - row.deployed)

\* Slip: the same-contract refusal is left out.
EntryAllowedAveraging(k) ==
  /\ ~LossHit(k.row) /\ ~DrawdownHit(k.row)
  /\ k.openCount < MaxOpen
  /\ k.outlay <= Deployable(k.row)

\* Slip: the limit is read off the row's counter, as snapshotFor does.
EntryAllowedByCounter(k) ==
  /\ ~LossHit(k.row) /\ ~DrawdownHit(k.row)
  /\ k.row.openPositionCount < MaxOpen
  /\ ~k.same
  /\ k.outlay <= Deployable(k.row)

EntryAllowed(k) ==
  /\ ~LossHit(k.row) /\ ~DrawdownHit(k.row)
  /\ k.openCount < MaxOpen
  /\ ~k.same
  /\ k.outlay <= Deployable(k.row)

-----------------------------------------------------------------------------
Init ==
  /\ \E c \in Capitals : account = NewRow(c) /\ running = 0
  /\ trade = [t \in Trades |-> NoTrade]
  /\ legs = [t \in Trades |-> {}]
  /\ position = [t \in Trades |-> "NONE"]
  /\ task = [c \in Callers |-> Idle]
  /\ disturbed = FALSE
  /\ crashes = 0

\* Caller c, idle, has made its first read and continues with the record k.
Start(c, k) ==
  /\ ~Busy(c)
  /\ task' = [task EXCEPT ![c] = k]
  /\ disturbed' = (disturbed \/ ~Quiescent)
  /\ UNCHANGED crashes

At(c, step) == task[c].at = step

Goto(c, step) ==
  /\ task' = [task EXCEPT ![c].at = step]
  /\ UNCHANGED <<disturbed, crashes>>

Finish(c) ==
  /\ task' = [task EXCEPT ![c] = Idle]
  /\ UNCHANGED <<disturbed, crashes>>

-----------------------------------------------------------------------------
(* openTrade *)

\* Bound: every entry under way will find an unused trade identifier.
RowsLeft ==
  Cardinality({c \in Callers : task[c].at \in {"counting", "lookup", "insert"}})
    < Cardinality(WithStatus("NONE"))

\* getPortfolio, a fresh quote, and the headroom check on the row just read.
BeginOpen(c, i, o) ==
  /\ RowsLeft
  /\ o <= account.ceiling - account.deployed
  /\ Start(c, [Idle EXCEPT !.at = "counting", !.row = account,
                           !.instrument = i, !.outlay = o])
  /\ UNCHANGED <<account, trade, legs, position, running>>

\* await trades.count(OPEN); the same-contract lookup only runs if it is not 0.
CountOpen(c) ==
  /\ At(c, "counting")
  /\ task' = [task EXCEPT ![c].openCount = OpenCount,
                ![c].at = IF OpenCount > 0 THEN "lookup" ELSE "insert"]
  /\ UNCHANGED <<account, trade, legs, position, running, disturbed, crashes>>

\* await trades.findOne(same instrument, OPEN).
LookupSame(c) ==
  /\ At(c, "lookup")
  /\ task' = [task EXCEPT ![c].at = "insert",
                ![c].same = \E t \in OpenTrades :
                              trade[t].instrument = task[c].instrument]
  /\ UNCHANGED <<account, trade, legs, position, running, disturbed, crashes>>

RefuseEntry(c) ==
  /\ At(c, "insert")
  /\ ~EntryAllowed(task[c])
  /\ Finish(c)
  /\ UNCHANGED <<account, trade, legs, position, running>>

\* Slip: the identifier of a closed trade is used again.
InsertTradeReused(c, t) ==
  /\ At(c, "insert")
  /\ EntryAllowed(task[c])
  /\ trade[t].status # "OPEN"
  /\ trade' = [trade EXCEPT ![t] =
                 [status |-> "OPEN", instrument |-> task[c].instrument,
                  outlay |-> task[c].outlay, cost |-> EntryCost, netPnl |-> 0]]
  /\ task' = [task EXCEPT ![c].at = "entryOrder", ![c].trade = t]
  /\ UNCHANGED <<account, legs, position, running, disturbed, crashes>>

\* await trades.save(trade), once the guards have let the entry through.
InsertTrade(c, t) ==
  /\ At(c, "insert")
  /\ EntryAllowed(task[c])
  /\ trade[t].status = "NONE"
  /\ trade' = [trade EXCEPT ![t] =
                 [status |-> "OPEN", instrument |-> task[c].instrument,
                  outlay |-> task[c].outlay, cost |-> EntryCost, netPnl |-> 0]]
  /\ task' = [task EXCEPT ![c].at = "entryOrder", ![c].trade = t]
  /\ UNCHANGED <<account, legs, position, running, disturbed, crashes>>

SaveEntryOrder(c) ==
  /\ At(c, "entryOrder")
  /\ legs' = [legs EXCEPT ![task[c].trade] = @ \cup {"ENTRY"}]
  /\ Goto(c, "deploy")
  /\ UNCHANGED <<account, trade, position, running>>

\* Slips: the outlay is subtracted; the outlay replaces the sum.
BookOutlaySubtracted(c) ==
  /\ At(c, "deploy")
  /\ account' = [account EXCEPT
                   !.deployed = task[c].row.deployed - task[c].outlay,
                   !.openPositionCount = task[c].row.openPositionCount + 1]
  /\ Goto(c, "charge")
  /\ UNCHANGED <<trade, legs, position, running>>

BookOutlayReplaced(c) ==
  /\ At(c, "deploy")
  /\ account' = [account EXCEPT
                   !.deployed = task[c].outlay,
                   !.openPositionCount = task[c].row.openPositionCount + 1]
  /\ Goto(c, "charge")
  /\ UNCHANGED <<trade, legs, position, running>>

\* await portfolios.update(deployed, openPositionCount), from the row read first.
BookOutlay(c) ==
  /\ At(c, "deploy")
  /\ account' = [account EXCEPT
                   !.deployed = task[c].row.deployed + task[c].outlay,
                   !.openPositionCount = task[c].row.openPositionCount + 1]
  /\ Goto(c, "charge")
  /\ UNCHANGED <<trade, legs, position, running>>

\* await portfolios.update(netPnl): the entry leg is charged here.
ChargeEntry(c) ==
  /\ At(c, "charge")
  /\ account' = [account EXCEPT !.netPnl = task[c].row.netPnl - EntryCost]
  /\ Goto(c, "openEvent")
  /\ UNCHANGED <<trade, legs, position, running>>

\* recordPnlEvent re-reads the portfolio and never writes it.
RecordOpen(c) ==
  /\ At(c, "openEvent")
  /\ running' = account.netPnl
  /\ Goto(c, "openPosition")
  /\ UNCHANGED <<account, trade, legs, position>>

\* syncPosition with the row just saved, whose status is OPEN.
SyncOpened(c) ==
  /\ At(c, "openPosition")
  /\ position' = [position EXCEPT ![task[c].trade] = "OPEN"]
  /\ Finish(c)
  /\ UNCHANGED <<account, trade, legs, running>>

-----------------------------------------------------------------------------
(* closeTrade *)

\* One read returns the trade and, joined to it, the portfolio row.
BeginClose(c, t, g) ==
  /\ trade[t].status = "OPEN"
  /\ Start(c, [Idle EXCEPT !.at = "exitOrder", !.row = account, !.trade = t,
                           !.outlay = trade[t].outlay, !.gross = g])
  /\ UNCHANGED <<account, trade, legs, position, running>>

\* Slip: the closing order is built and never saved.
SaveExitOrderForgotten(c) ==
  /\ At(c, "exitOrder")
  /\ Goto(c, "closing")
  /\ UNCHANGED <<account, trade, legs, position, running>>

SaveExitOrder(c) ==
  /\ At(c, "exitOrder")
  /\ legs' = [legs EXCEPT ![task[c].trade] = @ \cup {"EXIT"}]
  /\ Goto(c, "closing")
  /\ UNCHANGED <<account, trade, position, running>>

\* await trades.save(trade): the full round trip goes on the trade row.
SaveClosedTrade(c) ==
  /\ At(c, "closing")
  /\ trade' = [trade EXCEPT ![task[c].trade].status = "CLOSED",
                 ![task[c].trade].cost = EntryCost + ExitCost,
                 ![task[c].trade].netPnl = task[c].gross - EntryCost - ExitCost]
  /\ Goto(c, "release")
  /\ UNCHANGED <<account, legs, position, running>>

\* Slip: the round trip is booked, which charges the entry leg a second time.
ReleaseOutlayRoundTrip(c) ==
  LET row == task[c].row IN
  /\ At(c, "release")
  /\ account' = [account EXCEPT
       !.deployed = Positive(row.deployed - task[c].outlay),
       !.netPnl = row.netPnl + task[c].gross - EntryCost - ExitCost,
       !.totalCost = row.totalCost + EntryCost + ExitCost,
       !.openPositionCount = Positive(row.openPositionCount - 1)]
  /\ Goto(c, "closeEvents")
  /\ UNCHANGED <<trade, legs, position, running>>

\* await portfolios.update(...): only the closing leg moves the equity.
ReleaseOutlay(c) ==
  LET row == task[c].row IN
  /\ At(c, "release")
  /\ account' = [account EXCEPT
       !.deployed = Positive(row.deployed - task[c].outlay),
       !.netPnl = row.netPnl + task[c].gross - ExitCost,
       !.totalCost = row.totalCost + EntryCost + ExitCost,
       !.openPositionCount = Positive(row.openPositionCount - 1)]
  /\ Goto(c, "closeEvents")
  /\ UNCHANGED <<trade, legs, position, running>>

\* Three ledger events, none of which writes the portfolio.
RecordClose(c) ==
  /\ At(c, "closeEvents")
  /\ running' = account.netPnl
  /\ Goto(c, "closePosition")
  /\ UNCHANGED <<account, trade, legs, position>>

\* Slip: the position row is left as it was.
SyncClosedSkipped(c) ==
  /\ At(c, "closePosition")
  /\ Finish(c)
  /\ UNCHANGED <<account, trade, legs, position, running>>

\* syncPosition with a CLOSED trade: a position row that exists is closed.
SyncClosed(c) ==
  /\ At(c, "closePosition")
  /\ position' = [position EXCEPT ![task[c].trade] =
                    IF @ = "NONE" THEN @ ELSE "CLOSED"]
  /\ Finish(c)
  /\ UNCHANGED <<account, trade, legs, running>>

-----------------------------------------------------------------------------
(* updatePortfolio, setAutoTrade, setFridayTrading, updateCapital, *)
(* refreshPositionsMarkPrices *)

BeginEdit(c, k) ==
  /\ Start(c, [Idle EXCEPT !.at = "saving",
                 !.row = [account EXCEPT !.capital = k, !.ceiling = k]])
  /\ UNCHANGED <<account, trade, legs, position, running>>

\* The two toggles change a flag this model leaves out and save the whole row.
BeginToggle(c) ==
  /\ Start(c, [Idle EXCEPT !.at = "saving", !.row = account])
  /\ UNCHANGED <<account, trade, legs, position, running>>

SaveRow(c) ==
  /\ At(c, "saving")
  /\ account' = task[c].row
  /\ Finish(c)
  /\ UNCHANGED <<trade, legs, position, running>>

\* updateCapital does nothing when the row already has the capital asked for.
BeginCapital(c, k) ==
  /\ k # account.capital
  /\ Start(c, [Idle EXCEPT !.at = "capital",
                 !.row = [account EXCEPT !.capital = k, !.ceiling = k]])
  /\ UNCHANGED <<account, trade, legs, position, running>>

\* Slip: the outlay committed under the old capital is forgotten.
SetCapitalFresh(c) ==
  /\ At(c, "capital")
  /\ account' = [account EXCEPT !.capital = task[c].row.capital,
                                !.ceiling = task[c].row.ceiling,
                                !.deployed = 0]
  /\ Goto(c, "capitalEvent")
  /\ UNCHANGED <<trade, legs, position, running>>

\* await portfolios.update(capital, ceiling): these two columns and no other.
SetCapital(c) ==
  /\ At(c, "capital")
  /\ account' = [account EXCEPT !.capital = task[c].row.capital,
                                !.ceiling = task[c].row.ceiling]
  /\ Goto(c, "capitalEvent")
  /\ UNCHANGED <<trade, legs, position, running>>

\* The CAPITAL_CHANGED event carries the equity of the row read first.
RecordCapital(c) ==
  /\ At(c, "capitalEvent")
  /\ running' = task[c].row.netPnl
  /\ Finish(c)
  /\ UNCHANGED <<account, trade, legs, position>>

Held == {t \in Trades : position[t] = "OPEN"}

BeginRefresh(c) ==
  /\ Held # {}
  /\ Start(c, [Idle EXCEPT !.at = "marking", !.marks = Held])
  /\ UNCHANGED <<account, trade, legs, position, running>>

\* One position of the refresh: skipped when it has no quote, and otherwise
\* saved as it was read, which writes back a status changed in the meantime.
MarkPosition(c, t) ==
  LET rest == task[c].marks \ {t} IN
  /\ At(c, "marking") /\ t \in task[c].marks
  /\ position' \in {position, [position EXCEPT ![t] = "OPEN"]}
  /\ task' = [task EXCEPT ![c] = IF rest = {} THEN Idle ELSE [@ EXCEPT !.marks = rest]]
  /\ UNCHANGED <<account, trade, legs, running, disturbed, crashes>>

-----------------------------------------------------------------------------
\* The process dies while some request is in flight.
Crash ==
  /\ ~Quiescent
  /\ crashes < MaxCrashes
  /\ task' = [c \in Callers |-> Idle]
  /\ disturbed' = TRUE
  /\ crashes' = crashes + 1
  /\ UNCHANGED <<account, trade, legs, position, running>>

OpenStep(c) ==
  \/ CountOpen(c) \/ LookupSame(c) \/ RefuseEntry(c)
  \/ \E t \in Trades : InsertTrade(c, t)
  \/ SaveEntryOrder(c) \/ BookOutlay(c) \/ ChargeEntry(c)
  \/ RecordOpen(c) \/ SyncOpened(c)

CloseStep(c) ==
  \/ SaveExitOrder(c) \/ SaveClosedTrade(c) \/ ReleaseOutlay(c)
  \/ RecordClose(c) \/ SyncClosed(c)

EditStep(c) ==
  \/ SaveRow(c) \/ SetCapital(c) \/ RecordCapital(c)
  \/ \E t \in Trades : MarkPosition(c, t)

Request(c) ==
  \/ \E i \in Instruments, o \in Outlays : BeginOpen(c, i, o)
  \/ \E t \in Trades, g \in Grosses : BeginClose(c, t, g)
  \/ \E k \in Capitals : BeginEdit(c, k)
  \/ BeginToggle(c)
  \/ \E k \in Capitals : BeginCapital(c, k)
  \/ BeginRefresh(c)

Next ==
  \/ \E c \in Callers : Request(c) \/ OpenStep(c) \/ CloseStep(c) \/ EditStep(c)
  \/ Crash

Spec == Init /\ [][Next]_vars

-----------------------------------------------------------------------------
(* Properties *)

\* Every variable holds rows, steps and numbers of the expected kind.
TypeOK ==
  /\ account \in Rows
  /\ trade \in [Trades -> TradeRows]
  /\ legs \in [Trades -> SUBSET {"ENTRY", "EXIT"}]
  /\ position \in [Trades -> {"NONE", "OPEN", "CLOSED"}]
  /\ running \in Int
  /\ task \in [Callers -> Tasks]
  /\ disturbed \in BOOLEAN
  /\ crashes \in 0..MaxCrashes

\* The columns of the trade rows that the portfolio row adds up.
OutlayOf == [t \in Trades |-> trade[t].outlay]
NetPnlOf == [t \in Trades |-> trade[t].netPnl]
CostOf   == [t \in Trades |-> trade[t].cost]

OpenOutlay == SumFunctionOnSet(OutlayOf, OpenTrades)

Booked ==
  /\ account.deployed = OpenOutlay
  /\ account.openPositionCount = OpenCount
  /\ account.netPnl =
       SumFunctionOnSet(NetPnlOf, WithStatus("CLOSED")) - EntryCost * OpenCount
  /\ account.totalCost = SumFunctionOnSet(CostOf, WithStatus("CLOSED"))

\* Single economic accounting path (openTrade, closeTrade): as long as requests
\* run one at a time and to the end, the portfolio row is what the trade rows
\* add up to: each entry cost charged once, each close booked once, each outlay
\* released once, and the newest ledger event shows the equity it left.
BooksBalance ==
  ~disturbed /\ Quiescent => Booked /\ running = account.netPnl

\* syncPosition: under the same condition every position row tells the status
\* of its trade.
PositionsMirrorTrades ==
  ~disturbed /\ Quiescent => \A t \in Trades : position[t] = trade[t].status

\* The risk envelope of openTrade: an undisturbed desk never admits a trade that
\* takes the outlay of all open trades past the configured capital.
ExposureWithinCapital ==
  [][~disturbed /\ OpenCount' > OpenCount => OpenOutlay' <= account.ceiling]_vars

\* entryGuards: an undisturbed desk never holds one contract twice, and never
\* more positions than the policy allows.
EntryRulesHold ==
  ~disturbed =>
    /\ OpenCount <= MaxOpen
    /\ \A s, t \in OpenTrades :
         trade[s].instrument = trade[t].instrument => s = t

\* The position limit is checked before an await and used after it, so
\* concurrent requests can exceed it; they exceed it by less than one trade per
\* caller, whatever the interleaving and wherever a crash falls.
ExposureBound == OpenCount < MaxOpen + Cardinality(Callers)

\* The order in which openTrade and closeTrade write: whatever a crash cuts off,
\* a closed trade has its exit order on record and a position row belongs to a
\* trade whose entry order is on record.
OrdersPrecedeRows ==
  \A t \in Trades :
    /\ trade[t].status = "NONE" => legs[t] = {} /\ position[t] = "NONE"
    /\ trade[t].status = "CLOSED" => "EXIT" \in legs[t]
    /\ position[t] # "NONE" => "ENTRY" \in legs[t]

\* A refresh that read the position of t before it was closed is still to save it.
RefreshPending(t) == \E c \in Callers : t \in task[c].marks

\* No interleaving brings a closed trade back to life, and only a refresh of the
\* mark prices that overlaps the close revives a closed position row.
ClosedStaysClosed ==
  [][\A t \in Trades :
       /\ trade[t].status = "CLOSED" => trade'[t].status = "CLOSED"
       /\ position[t] = "CLOSED" => position'[t] = "CLOSED" \/ RefreshPending(t)]_vars

-----------------------------------------------------------------------------
(***************************************************************************)
(* The refinement of Account, for one request at a time: an entry takes    *)
(* effect when its cost is charged and an exit when its outlay is          *)
(* released; between the first and the last statement of a request the row *)
(* and the trades are halfway, and the mapping undoes or ignores the half. *)
(***************************************************************************)

Entering == {task[c].trade : c \in {d \in Callers :
                               task[d].at \in {"entryOrder", "deploy", "charge"}}}
Leaving  == {task[c].trade : c \in {d \in Callers : At(d, "release")}}

\* The outlay that is on the row before its entry has been charged.
Uncharged ==
  IF \E c \in Callers : At(c, "charge")
  THEN task[CHOOSE c \in Callers : At(c, "charge")].outlay ELSE 0

HeldTrades    == (OpenTrades \ Entering) \cup Leaving
SettledTrades == WithStatus("CLOSED") \ Leaving

Desk == INSTANCE Account WITH
  capital  <- account.capital,
  deployed <- account.deployed - Uncharged,
  netPnl   <- account.netPnl,
  held     <- [t \in HeldTrades |-> [instrument |-> trade[t].instrument,
                                    outlay |-> trade[t].outlay]],
  settled  <- [t \in SettledTrades |-> trade[t].netPnl]

\* openTrade, closeTrade, updateCapital and the edits: run one at a time and to
\* the end, the sequences of awaited statements are the atomic operations of an
\* account whose every entry respects the limits at the moment it takes effect.
Implements == Desk!Spec
=============================================================================
