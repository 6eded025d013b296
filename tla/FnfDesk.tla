------------------------------- MODULE FnfDesk -------------------------------
(***************************************************************************)
(* The FYERS paper desk: openTrade, closeTrade and updatePortfolio of      *)
(* FnfTradingService, driven by the session driver's cycle in one or more  *)
(* processes and by requests of the API.  "The local and the VM desk both  *)
(* run the session driver": nothing but the database is shared.            *)
(*                                                                         *)
(* openTrade takes the portfolio row's lock in a transaction, looks for an *)
(* open trade of the same contract, inserts and commits; but the numbers   *)
(* it writes come from the row it read before.  closeTrade writes the      *)
(* trade and then the row, without a transaction.  An update of the row    *)
(* waits for the lock.  Crash is the death of a caller's process: its      *)
(* transaction is rolled back and its lock is released.                    *)
(*                                                                         *)
(* A quantity is one lot; prices are the outlay of an entry, the gross     *)
(* result of an exit and one round-trip cost.  A refusal that precedes any *)
(* write, the Friday block and the health gates among them, is not a step. *)
(***************************************************************************)
EXTENDS Integers, FiniteSets, FiniteSetsExt

CONSTANTS
  Drivers,      \* processes that run the session driver
  Clients,      \* requests of the API that may be in flight at once
  Trades,       \* identifiers of trade rows; their number bounds the entries
  Instruments,  \* registered option contracts
  Outlays,      \* premium outlay of one entry
  Grosses,      \* gross result of one exit
  Cost,         \* cost of the round trip
  Capitals, Ceilings,  \* what an operator may configure
  StopPct,      \* stop distance, slippage included, in percent of the premium
  RiskPct,      \* riskPctPerTrade
  MaxLossPct,   \* the smaller of maxDailyLossPct and maxDrawdownPct
  MaxCrashes,   \* bound on the crashes of one behaviour
  None

Callers == Drivers \cup Clients

ASSUME FnfAssumption ==
  /\ IsFiniteSet(Callers) /\ IsFiniteSet(Trades)
  /\ None \notin Callers \cup Trades \cup Instruments
  /\ Drivers \cap Clients = {}
  /\ Outlays \subseteq Nat /\ Grosses \subseteq Int /\ Cost \in Nat
  /\ Capitals \subseteq Nat \ {0} /\ Capitals # {} /\ Ceilings \subseteq Nat
  /\ StopPct \in Nat /\ RiskPct \in Nat /\ MaxLossPct \in Nat /\ MaxCrashes \in Nat

VARIABLES
  account,    \* the portfolio row
  trade,      \* the trade rows
  lock,       \* the transaction that holds the portfolio row, or None
  task,       \* per caller, what it is doing
  booked,     \* history: per trade, how often its close was booked
  contested,  \* history: trades two closes of which overlapped
  disturbed,  \* history: two requests overlapped, or a close was cut in half
  crashes

history == <<booked, contested, disturbed, crashes>>
vars == <<account, trade, lock, task, history>>

Positive(n) == IF n > 0 THEN n ELSE 0

Rows == [capital: Nat, ceiling: Nat, deployed: Nat, netPnl: Int, totalCost: Nat]

NewRow(k) == [capital |-> k, ceiling |-> k, deployed |-> 0, netPnl |-> 0,
              totalCost |-> 0]

TradeRows == [status: {"NONE", "OPEN", "CLOSED"},
              instrument: Instruments \cup {None}, outlay: Nat, netPnl: Int]

NoTrade == [status |-> "NONE", instrument |-> None, outlay |-> 0, netPnl |-> 0]

CycleSteps   == {"list", "evaluate", "cycle"}
RequestSteps == {"lock", "clash", "commit", "save", "book", "edit"}

Tasks == [at: CycleSteps \cup RequestSteps \cup {"idle"}, row: Rows,
          trade: Trades \cup {None}, instrument: Instruments \cup {None},
          outlay: Nat, gross: Int, funded: BOOLEAN,
          listed: SUBSET (Instruments \cup {None}), exits: SUBSET Trades]

Idle == [at |-> "idle", row |-> NewRow(0), trade |-> None, instrument |-> None,
         outlay |-> 0, gross |-> 0, funded |-> FALSE, listed |-> {}, exits |-> {}]

OpenTrades   == {t \in Trades : trade[t].status = "OPEN"}
ClosedTrades == {t \in Trades : trade[t].status = "CLOSED"}

At(c, step) == task[c].at = step
InRequest(c) == task[c].at \in RequestSteps

Init ==
  /\ \E k \in Capitals : account = NewRow(k)
  /\ trade = [t \in Trades |-> NoTrade]
  /\ lock = None
  /\ task = [c \in Callers |-> Idle]
  /\ booked = [t \in Trades |-> 0]
  /\ contested = {}
  /\ disturbed = FALSE
  /\ crashes = 0
-----------------------------------------------------------------------------
(* The risk gate of openTrade, on the row it read.  The count of positions it  *)
(* passes is the constant 0, so maxOpenPositions never refuses.                *)

Equity(row) == row.capital + row.netPnl

Envelope(row) == IF row.ceiling = 0 THEN row.capital ELSE row.ceiling

GateAllows(row, o) ==
  /\ o * StopPct <= Equity(row) * RiskPct
  /\ o <= Equity(row) - row.deployed
  /\ (row.capital - Equity(row)) * 100 <= row.capital * MaxLossPct
  /\ o <= Envelope(row) - row.deployed

\* A driver goes on with its cycle, a client is done.
Back(c) ==
  IF c \in Drivers
  THEN [Idle EXCEPT !.at = "cycle", !.funded = task[c].funded,
                    !.listed = task[c].listed, !.exits = task[c].exits]
  ELSE Idle

\* A request begins: c was idle, or is a driver between two requests.
Ready(c) == IF c \in Drivers THEN At(c, "cycle") ELSE At(c, "idle")

\* The first read of a request, which goes on with step s on what it read.
Begin(c, k) ==
  /\ Ready(c)
  /\ task' = [task EXCEPT ![c] = k]
  /\ disturbed' = (disturbed \/ \E d \in Callers \ {c} : InRequest(d))
  /\ UNCHANGED <<account, trade, lock, booked, crashes>>

Goto(c, step) == task' = [task EXCEPT ![c].at = step]
Return(c)     == task' = [task EXCEPT ![c] = Back(c)]
-----------------------------------------------------------------------------
(* openTrade *)

\* Bound: every entry under way will find an unused trade identifier.
RowsLeft ==
  Cardinality({c \in Callers : task[c].at \in {"lock", "clash", "commit"}})
    < Cardinality({t \in Trades : trade[t].status = "NONE"})

BeginOpen(c, i, o) ==
  /\ RowsLeft
  /\ GateAllows(account, o)
  /\ Begin(c, [Back(c) EXCEPT !.at = "lock", !.row = account,
                              !.instrument = i, !.outlay = o])
  /\ UNCHANGED contested

\* Slip: the row is selected without FOR UPDATE.
LockRowPlain(c) ==
  /\ At(c, "lock")
  /\ Goto(c, "clash")
  /\ UNCHANGED <<account, trade, lock, history>>

\* SELECT ... FOR UPDATE waits for the other transactions on the row.
LockRow(c) ==
  /\ At(c, "lock") /\ lock = None
  /\ lock' = c
  /\ Goto(c, "clash")
  /\ UNCHANGED <<account, trade, history>>

Clash(c) == \E t \in OpenTrades : trade[t].instrument = task[c].instrument

\* The look-up of an open trade of the contract; a clash ends the transaction.
LookForClash(c) ==
  /\ At(c, "clash")
  /\ IF Clash(c) THEN Return(c) /\ lock' = None ELSE Goto(c, "commit") /\ UNCHANGED lock
  /\ UNCHANGED <<account, trade, history>>

\* The insertion, the update of deployed and the commit, which shows both.
CommitOpen(c, t) ==
  /\ At(c, "commit")
  /\ trade[t].status = "NONE"
  /\ trade' = [trade EXCEPT ![t] = [status |-> "OPEN", netPnl |-> 0,
                 instrument |-> task[c].instrument, outlay |-> task[c].outlay]]
  /\ account' = [account EXCEPT !.deployed = task[c].row.deployed + task[c].outlay]
  /\ lock' = None
  /\ Return(c)
  /\ UNCHANGED history
-----------------------------------------------------------------------------
(* closeTrade *)

Closing(t) == {c \in Callers : task[c].trade = t /\ task[c].at \in {"save", "book"}}

CloseRead(c, t, g) ==
  /\ Begin(c, [Back(c) EXCEPT !.at = "save", !.row = account, !.trade = t,
                              !.outlay = trade[t].outlay, !.gross = g,
                              !.exits = task[c].exits \ {t}])
  /\ contested' = IF Closing(t) \ {c} # {} THEN contested \cup {t} ELSE contested

\* Slip: a trade that is already closed is closed again.
BeginCloseAny(c, t, g) == trade[t].status # "NONE" /\ CloseRead(c, t, g)

\* One read returns the trade and, joined to it, the portfolio row.
BeginClose(c, t, g) == trade[t].status = "OPEN" /\ CloseRead(c, t, g)

SaveClosed(c) ==
  /\ At(c, "save")
  /\ trade' = [trade EXCEPT ![task[c].trade].status = "CLOSED",
                            ![task[c].trade].netPnl = task[c].gross - Cost]
  /\ Goto(c, "book")
  /\ UNCHANGED <<account, lock, history>>

Booking(c, released) ==
  LET row == task[c].row
      net == row.netPnl + task[c].gross - Cost
  IN  /\ At(c, "book") /\ lock = None
      /\ account' = [account EXCEPT
                       !.deployed = Positive(row.deployed - released),
                       !.netPnl = net,
                       !.ceiling = Positive(row.capital + net),
                       !.totalCost = row.totalCost + Cost]
      /\ booked' = [booked EXCEPT ![task[c].trade] = @ + 1]
      /\ Return(c)
      /\ UNCHANGED <<trade, lock, contested, disturbed, crashes>>

\* Slip: the value at the exit is released instead of the outlay at the entry.
BookCloseAtExit(c) == Booking(c, task[c].outlay + task[c].gross)

\* await portfolios.update: computed from the joined row, after any transaction.
BookClose(c) == Booking(c, task[c].outlay)
-----------------------------------------------------------------------------
(* updatePortfolio, setAutoTrade, setFridayTrading: what is not given is kept *)

BeginEdit(c, k, l) ==
  /\ c \in Clients
  /\ Begin(c, [Idle EXCEPT !.at = "edit",
                 !.row = [account EXCEPT !.capital = k, !.ceiling = l]])
  /\ UNCHANGED contested

SaveRow(c) ==
  /\ At(c, "edit") /\ lock = None
  /\ account' = task[c].row
  /\ Return(c)
  /\ UNCHANGED <<trade, lock, history>>
-----------------------------------------------------------------------------
(* The session driver: one cycle at a time per process *)

DriverWaits == UNCHANGED <<account, trade, lock, history>>

\* The portfolios are read once; a depleted one is noted and gets no entry.
StartCycle(d) ==
  /\ d \in Drivers /\ At(d, "idle")
  /\ task' = [task EXCEPT ![d] = [Idle EXCEPT !.at = "list",
                                             !.funded = Equity(account) > 0]]
  /\ DriverWaits

\* The open trades, read before the exits; a later entry is checked against them.
ListTrades(d) ==
  /\ At(d, "list")
  /\ task' = [task EXCEPT ![d].at = IF OpenTrades = {} THEN "cycle" ELSE "evaluate",
                          ![d].listed = {trade[t].instrument : t \in OpenTrades}]
  /\ DriverWaits

\* evaluateOpenPositions reads them again and recommends any exits.
Evaluate(d, T) ==
  /\ At(d, "evaluate")
  /\ T \subseteq OpenTrades
  /\ task' = [task EXCEPT ![d].at = "cycle", ![d].exits = T]
  /\ DriverWaits

\* closeTrade throws for a trade another caller closed; the cycle goes on.
ExitRefused(d, t) ==
  /\ d \in Drivers /\ At(d, "cycle") /\ t \in task[d].exits
  /\ trade[t].status # "OPEN"
  /\ task' = [task EXCEPT ![d].exits = @ \ {t}]
  /\ DriverWaits

DriverExit(d, t, g) ==
  /\ d \in Drivers /\ t \in task[d].exits
  /\ BeginClose(d, t, g)

\* maybeOpen, once every exit has been tried.
DriverEntry(d, i, o) ==
  /\ d \in Drivers /\ task[d].exits = {}
  /\ task[d].funded /\ i \notin task[d].listed
  /\ BeginOpen(d, i, o)

EndCycle(d) ==
  /\ d \in Drivers /\ At(d, "cycle") /\ task[d].exits = {}
  /\ task' = [task EXCEPT ![d] = Idle]
  /\ DriverWaits
-----------------------------------------------------------------------------
\* Only a close has two separate writes to be cut between.
Crash(c) ==
  /\ ~At(c, "idle")
  /\ crashes < MaxCrashes
  /\ task' = [task EXCEPT ![c] = Idle]
  /\ lock' = IF lock = c THEN None ELSE lock
  /\ disturbed' = (disturbed \/ At(c, "book"))
  /\ crashes' = crashes + 1
  /\ UNCHANGED <<account, trade, booked, contested>>

DriverStep(d) ==
  \/ StartCycle(d) \/ ListTrades(d) \/ EndCycle(d)
  \/ \E T \in SUBSET Trades : Evaluate(d, T)
  \/ \E t \in Trades : ExitRefused(d, t)
  \/ \E t \in Trades, g \in Grosses : DriverExit(d, t, g)
  \/ \E i \in Instruments, o \in Outlays : DriverEntry(d, i, o)

ClientStep(c) ==
  \/ \E i \in Instruments, o \in Outlays : BeginOpen(c, i, o)
  \/ \E t \in Trades, g \in Grosses : BeginClose(c, t, g)
  \/ \E k \in Capitals \cup {account.capital}, l \in Ceilings \cup {account.ceiling} :
       BeginEdit(c, k, l)

Progress(c) ==
  \/ LockRow(c) \/ LookForClash(c)
  \/ \E t \in Trades : CommitOpen(c, t)
  \/ SaveClosed(c) \/ BookClose(c) \/ SaveRow(c)

Next ==
  \/ \E d \in Drivers : DriverStep(d)
  \/ \E c \in Clients : ClientStep(c)
  \/ \E c \in Callers : Progress(c) \/ Crash(c)

Spec == Init /\ [][Next]_vars
-----------------------------------------------------------------------------
(* Properties *)

\* Every variable keeps its kind, and the lock is held by the caller that is
\* between its look-up and its commit.
TypeOK ==
  /\ account \in Rows
  /\ trade \in [Trades -> TradeRows]
  /\ lock \in Callers \cup {None}
  /\ task \in [Callers -> Tasks]
  /\ \A c \in Callers : lock = c <=> task[c].at \in {"clash", "commit"}
  /\ booked \in [Trades -> Nat]
  /\ contested \subseteq Trades
  /\ disturbed \in BOOLEAN
  /\ crashes \in 0..MaxCrashes

\* openTrade, "exactly one process can open a given instrument": whatever the
\* drivers and the requests interleave and wherever a process dies, no contract
\* is held twice.
OneOpenPerInstrument ==
  \A s, t \in OpenTrades : trade[s].instrument = trade[t].instrument => s = t

\* closeTrade: a close is booked at most once, whatever else is under way, unless
\* two closes of that very trade overlapped; and a close nobody has in hand was
\* booked, unless a crash cut it.
BookedOnce ==
  \A t \in Trades :
    /\ booked[t] <= 1 \/ t \in contested
    /\ t \in ClosedTrades /\ Closing(t) = {} /\ crashes = 0 => booked[t] > 0

\* The columns of the trade rows that the portfolio row adds up.
OutlayOf == [t \in Trades |-> trade[t].outlay]
NetPnlOf == [t \in Trades |-> trade[t].netPnl]

\* openTrade and closeTrade: as long as requests do not overlap and no close is
\* cut in half, the portfolio row is what the trade rows add up to, crashes
\* inside an entry included.
BooksBalance ==
  ~disturbed /\ ~(\E c \in Callers : At(c, "book")) =>
    /\ account.deployed = SumFunctionOnSet(OutlayOf, OpenTrades)
    /\ account.netPnl = SumFunctionOnSet(NetPnlOf, ClosedTrades)
    /\ account.totalCost = Cost * Cardinality(ClosedTrades)
=============================================================================
