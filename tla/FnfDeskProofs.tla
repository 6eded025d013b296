---------------------------- MODULE FnfDeskProofs ----------------------------
(* Theorems about FnfDesk, for any number of drivers, clients, trades and    *)
(* contracts and any number of crashes.                                      *)
EXTENDS FnfDesk, SumTheorems, TLAPS

\* What Init and the constants give the rows.
LEMMA RowFacts ==
  /\ \A k \in Nat : NewRow(k) \in Rows
  /\ Idle \in Tasks
  /\ NoTrade \in TradeRows
  /\ None \notin Callers
<1>1. \A k \in Nat : NewRow(k) \in Rows
  BY DEF NewRow, Rows
<1>2. Idle \in Tasks
  BY <1>1 DEF Idle, Tasks, CycleSteps, RequestSteps
<1>3. NoTrade \in TradeRows
  BY DEF NoTrade, TradeRows
<1> QED
  BY <1>1, <1>2, <1>3, FnfAssumption DEF FnfAssumption

\* What a caller goes back to between two requests.
LEMMA BackFacts ==
  ASSUME TypeOK, NEW c \in Callers
  PROVE  /\ Back(c) \in Tasks
         /\ Back(c).at \in {"cycle", "idle"}
<1>1. task[c] \in Tasks
  BY DEF TypeOK
<1> QED
  BY <1>1, RowFacts DEF Back, Idle, Tasks, CycleSteps, RequestSteps

\* Every step of openTrade keeps the types.
LEMMA OpenTyped ==
  ASSUME TypeOK, NEW c \in Callers,
         \/ \E i \in Instruments, o \in Outlays : BeginOpen(c, i, o)
         \/ LockRow(c) \/ LookForClash(c)
         \/ \E t \in Trades : CommitOpen(c, t)
  PROVE  TypeOK'
<1>0. /\ task[c] \in Tasks /\ account \in Rows
      /\ Outlays \subseteq Nat
      /\ None \notin Callers
  BY RowFacts, FnfAssumption DEF FnfAssumption, TypeOK
<1>1. ASSUME NEW i \in Instruments, NEW o \in Outlays, BeginOpen(c, i, o)
      PROVE  TypeOK'
  <2>1. task'[c] \in Tasks /\ task'[c].at = "lock"
    BY <1>0, <1>1, BackFacts DEF BeginOpen, Begin, TypeOK, Tasks, RequestSteps
  <2>2. task[c].at \in {"cycle", "idle"}
    BY <1>1 DEF BeginOpen, Begin, Ready, At
  <2> QED
    BY <1>1, <2>1, <2>2 DEF BeginOpen, Begin, TypeOK
<1>2. CASE LockRow(c)
  BY <1>0, <1>2 DEF LockRow, Goto, At, TypeOK, Tasks, RequestSteps, history
<1>3. CASE LookForClash(c)
  <2>1. CASE Clash(c)
    BY <1>0, <1>3, <2>1, BackFacts DEF LookForClash, Return, At, TypeOK, history
  <2>2. CASE ~Clash(c)
    <3>1. /\ task' = [task EXCEPT ![c].at = "commit"]
          /\ UNCHANGED <<account, trade, lock, history>>
          /\ task[c].at = "clash"
      BY <1>3, <2>2 DEF LookForClash, Goto, At
    <3>2. task' \in [Callers -> Tasks]
      BY <1>0, <3>1 DEF TypeOK, Tasks, RequestSteps
    <3> QED
      BY <1>0, <3>1, <3>2 DEF TypeOK, history
  <2> QED
    BY <2>1, <2>2
<1>4. ASSUME NEW t \in Trades, CommitOpen(c, t)
      PROVE  TypeOK'
  <2>1. account' \in Rows
    BY <1>0, <1>4 DEF CommitOpen, Rows, Tasks
  <2>2. trade' \in [Trades -> TradeRows]
    <3>1. [status |-> "OPEN", netPnl |-> 0, instrument |-> task[c].instrument,
           outlay |-> task[c].outlay] \in TradeRows
      BY <1>0 DEF TradeRows, Tasks
    <3> QED
      BY <1>4, <3>1 DEF CommitOpen, TypeOK
  <2> QED
    BY <1>0, <1>4, <2>1, <2>2, BackFacts DEF CommitOpen, Return, At, TypeOK, history
<1> QED
  BY <1>1, <1>2, <1>3, <1>4

\* Every step of closeTrade keeps the types.
LEMMA CloseTyped ==
  ASSUME TypeOK, NEW c \in Callers,
         \/ \E t \in Trades, g \in Grosses : BeginClose(c, t, g)
         \/ SaveClosed(c) \/ BookClose(c)
  PROVE  TypeOK'
<1>0. /\ task[c] \in Tasks /\ account \in Rows
      /\ Grosses \subseteq Int /\ Cost \in Nat
      /\ None \notin Callers
  BY RowFacts, FnfAssumption DEF FnfAssumption, TypeOK
<1>1. ASSUME NEW t \in Trades, NEW g \in Grosses, BeginClose(c, t, g)
      PROVE  TypeOK'
  <2>0. trade[t] \in TradeRows
    BY DEF TypeOK
  <2>1. task'[c] \in Tasks /\ task'[c].at = "save"
    BY <1>0, <1>1, <2>0, BackFacts
    DEF BeginClose, CloseRead, Begin, TypeOK, Tasks, RequestSteps, TradeRows
  <2>2. task[c].at \in {"cycle", "idle"}
    BY <1>1 DEF BeginClose, CloseRead, Begin, Ready, At
  <2> QED
    BY <1>1, <2>1, <2>2 DEF BeginClose, CloseRead, Begin, TypeOK
<1>2. CASE SaveClosed(c)
  <2>1. trade' \in [Trades -> TradeRows]
    <3>1. task[c].gross - Cost \in Int
      BY <1>0 DEF Tasks
    <3>2. \A r \in TradeRows : \A n \in Int :
            [r EXCEPT !.status = "CLOSED", !.netPnl = n] \in TradeRows
      BY DEF TradeRows
    <3>3. trade' = [t \in Trades |->
                      IF t = task[c].trade
                      THEN [trade[t] EXCEPT !.status = "CLOSED",
                                            !.netPnl = task[c].gross - Cost]
                      ELSE trade[t]]
      BY <1>2 DEF SaveClosed, TypeOK
    <3> QED
      BY <3>1, <3>2, <3>3 DEF TypeOK
  <2> QED
    BY <1>0, <1>2, <2>1 DEF SaveClosed, Goto, At, TypeOK, Tasks, RequestSteps, history
<1>3. CASE BookClose(c)
  <2>1. account' \in Rows
    <3> DEFINE row == task[c].row
               net == row.netPnl + task[c].gross - Cost
    <3>1. /\ row.capital \in Nat /\ row.deployed \in Nat /\ row.netPnl \in Int
          /\ row.totalCost \in Nat /\ task[c].gross \in Int /\ task[c].outlay \in Nat
      BY <1>0 DEF Tasks, Rows
    <3>2. /\ net \in Int
          /\ Positive(row.deployed - task[c].outlay) \in Nat
          /\ Positive(row.capital + net) \in Nat
          /\ row.totalCost + Cost \in Nat
      BY <1>0, <3>1 DEF Positive
    <3>3. account' = [account EXCEPT
                        !.deployed = Positive(row.deployed - task[c].outlay),
                        !.netPnl = net,
                        !.ceiling = Positive(row.capital + net),
                        !.totalCost = row.totalCost + Cost]
      BY <1>3 DEF BookClose, Booking
    <3> QED
      BY <1>0, <3>2, <3>3 DEF Rows
  <2>2. booked' \in [Trades -> Nat]
    <3>1. booked' = [t \in Trades |-> IF t = task[c].trade THEN booked[t] + 1
                                                         ELSE booked[t]]
      BY <1>3 DEF BookClose, Booking, TypeOK
    <3> QED
      BY <3>1 DEF TypeOK
  <2> QED
    BY <1>0, <1>3, <2>1, <2>2, BackFacts DEF BookClose, Booking, Return, At, TypeOK
<1> QED
  BY <1>1, <1>2, <1>3

\* Every edit of the row and every step of a driver keeps the types.
LEMMA EditTyped ==
  ASSUME TypeOK, NEW c \in Callers,
         \/ \E k \in Capitals \cup {account.capital},
               l \in Ceilings \cup {account.ceiling} : BeginEdit(c, k, l)
         \/ SaveRow(c)
  PROVE  TypeOK'
<1>0. /\ task[c] \in Tasks /\ account \in Rows
      /\ Capitals \subseteq Nat /\ Ceilings \subseteq Nat
      /\ None \notin Callers
  BY RowFacts, FnfAssumption DEF FnfAssumption, TypeOK
<1>1. ASSUME NEW k \in Capitals \cup {account.capital},
             NEW l \in Ceilings \cup {account.ceiling}, BeginEdit(c, k, l)
      PROVE  TypeOK'
  <2>1. k \in Nat /\ l \in Nat
    BY <1>0 DEF Rows
  <2>2. task'[c] \in Tasks /\ task'[c].at = "edit"
    BY <1>0, <1>1, <2>1, RowFacts
    DEF BeginEdit, Begin, TypeOK, Tasks, RequestSteps, Rows
  <2>3. task[c].at \in {"cycle", "idle"}
    BY <1>1 DEF BeginEdit, Begin, Ready, At
  <2> QED
    BY <1>1, <2>2, <2>3 DEF BeginEdit, Begin, TypeOK
<1>2. CASE SaveRow(c)
  <2>1. account' \in Rows
    BY <1>0, <1>2 DEF SaveRow, Tasks
  <2> QED
    BY <1>0, <1>2, <2>1, BackFacts DEF SaveRow, Return, At, TypeOK, history
<1> QED
  BY <1>1, <1>2

LEMMA CycleTyped ==
  ASSUME TypeOK, NEW d \in Callers,
         \/ StartCycle(d) \/ ListTrades(d) \/ EndCycle(d) \/ Crash(d)
         \/ \E T \in SUBSET Trades : Evaluate(d, T)
         \/ \E t \in Trades : ExitRefused(d, t)
  PROVE  TypeOK'
<1>0. /\ task[d] \in Tasks
      /\ None \notin Callers
      /\ (Equity(account) > 0) \in BOOLEAN
  BY RowFacts DEF TypeOK
<1>1. CASE StartCycle(d)
  BY <1>0, <1>1, RowFacts
  DEF StartCycle, DriverWaits, At, TypeOK, Tasks, CycleSteps, Idle, history
<1>2. CASE ListTrades(d)
  <2>0. {trade[t].instrument : t \in OpenTrades} \subseteq Instruments \cup {None}
    BY DEF OpenTrades, TypeOK, TradeRows
  <2> QED
    BY <1>0, <1>2, <2>0 DEF ListTrades, DriverWaits, At, TypeOK, Tasks, CycleSteps, history
<1>3. CASE EndCycle(d)
  BY <1>0, <1>3, RowFacts DEF EndCycle, DriverWaits, At, TypeOK, Idle, history
<1>4. CASE Crash(d)
  BY <1>0, <1>4, RowFacts, FnfAssumption DEF FnfAssumption, Crash, At, TypeOK, Idle, history
<1>5. ASSUME NEW T \in SUBSET Trades, Evaluate(d, T)
      PROVE  TypeOK'
  BY <1>0, <1>5 DEF Evaluate, DriverWaits, At, TypeOK, Tasks, CycleSteps, history
<1>6. ASSUME NEW t \in Trades, ExitRefused(d, t)
      PROVE  TypeOK'
  BY <1>0, <1>6 DEF ExitRefused, DriverWaits, At, TypeOK, Tasks, history
<1> QED
  BY <1>1, <1>2, <1>3, <1>4, <1>5, <1>6

LEMMA InitTyped == Init => TypeOK
<1> SUFFICES ASSUME Init PROVE TypeOK
  OBVIOUS
<1>1. account \in Rows
  BY RowFacts, FnfAssumption DEF FnfAssumption, Init
<1>2. task \in [Callers -> Tasks] /\ \A c \in Callers : task[c].at = "idle"
  BY RowFacts DEF Init, Idle
<1>3. trade \in [Trades -> TradeRows] /\ booked \in [Trades -> Nat]
  BY RowFacts DEF Init
<1>4. lock = None /\ \A c \in Callers : lock # c
  BY FnfAssumption DEF FnfAssumption, Init
<1>5. contested \subseteq Trades /\ disturbed \in BOOLEAN
  BY DEF Init
<1>6. crashes \in 0..MaxCrashes
  BY FnfAssumption DEF FnfAssumption, Init
<1> QED
  BY <1>1, <1>2, <1>3, <1>4, <1>5, <1>6 DEF TypeOK

LEMMA StepTyped == TypeOK /\ [Next]_vars => TypeOK'
<1> SUFFICES ASSUME TypeOK, [Next]_vars PROVE TypeOK'
  OBVIOUS
<1>1. ASSUME NEW d \in Drivers, DriverStep(d) PROVE TypeOK'
  <2>0. d \in Callers
    BY DEF Callers
  <2>1. ASSUME NEW t \in Trades, NEW g \in Grosses, DriverExit(d, t, g) PROVE TypeOK'
    BY <2>0, <2>1, CloseTyped DEF DriverExit
  <2>2. ASSUME NEW i \in Instruments, NEW o \in Outlays, DriverEntry(d, i, o)
        PROVE  TypeOK'
    BY <2>0, <2>2, OpenTyped DEF DriverEntry
  <2> QED
    BY <1>1, <2>0, <2>1, <2>2, CycleTyped DEF DriverStep
<1>2. ASSUME NEW c \in Clients, ClientStep(c) PROVE TypeOK'
  BY <1>2, OpenTyped, CloseTyped, EditTyped DEF ClientStep, Callers
<1>3. ASSUME NEW c \in Callers, Progress(c) \/ Crash(c) PROVE TypeOK'
  BY <1>3, OpenTyped, CloseTyped, EditTyped, CycleTyped DEF Progress
<1>4. CASE UNCHANGED vars
  BY <1>4 DEF vars, history, TypeOK
<1> QED
  BY <1>1, <1>2, <1>3, <1>4 DEF Next

\* The desk keeps its types, and the lock stays with the caller that is between
\* its look-up and its commit, through every interleaving and every crash.
THEOREM FnfWellTyped == Spec => []TypeOK
BY InitTyped, StepTyped, PTL DEF Spec
-----------------------------------------------------------------------------
(* One open trade per contract *)

\* A caller about to commit has seen no open trade of its contract, and the lock
\* keeps that true.
Clear == \A c \in Callers : At(c, "commit") => ~Clash(c)

OpenInv == TypeOK /\ OneOpenPerInstrument /\ Clear

\* A step that opens nothing and takes nobody to the commit.
Harmless ==
  /\ \A t \in Trades : trade'[t].status = "OPEN" =>
       trade[t].status = "OPEN" /\ trade'[t].instrument = trade[t].instrument
  /\ \A c \in Callers : task'[c].at = "commit" =>
       task[c].at = "commit" /\ task'[c].instrument = task[c].instrument

LEMMA HarmlessKeeps == OpenInv /\ TypeOK' /\ Harmless => OpenInv'
BY DEF OpenInv, Harmless, OneOpenPerInstrument, OpenTrades, Clear, At, Clash

\* A step that leaves the trades alone and takes one caller elsewhere.
LEMMA MoveHarmless ==
  ASSUME TypeOK, NEW c \in Callers, NEW k, k.at # "commit",
         task' = [task EXCEPT ![c] = k], trade' = trade
  PROVE  Harmless
BY DEF Harmless, TypeOK

LEMMA RequestHarmless ==
  ASSUME TypeOK, NEW c \in Callers,
         \/ \E i \in Instruments, o \in Outlays : BeginOpen(c, i, o)
         \/ \E t \in Trades, g \in Grosses : BeginClose(c, t, g)
         \/ \E k \in Capitals \cup {account.capital},
               l \in Ceilings \cup {account.ceiling} : BeginEdit(c, k, l)
         \/ LockRow(c) \/ BookClose(c) \/ SaveRow(c) \/ SaveClosed(c)
  PROVE  Harmless
<1>0. task[c] \in Tasks /\ Back(c) \in Tasks /\ Idle \in Tasks /\ Back(c).at # "commit"
  BY BackFacts, RowFacts DEF TypeOK
<1>1. ASSUME NEW i \in Instruments, NEW o \in Outlays, BeginOpen(c, i, o) PROVE Harmless
  BY <1>0, <1>1, MoveHarmless DEF BeginOpen, Begin, Tasks
<1>2. ASSUME NEW t \in Trades, NEW g \in Grosses, BeginClose(c, t, g) PROVE Harmless
  BY <1>0, <1>2, MoveHarmless DEF BeginClose, CloseRead, Begin, Tasks
<1>3. ASSUME NEW k, NEW l, BeginEdit(c, k, l) PROVE Harmless
  BY <1>0, <1>3, MoveHarmless DEF BeginEdit, Begin, Tasks
<1>4. CASE LockRow(c)
  BY <1>0, <1>4 DEF LockRow, Goto, Harmless, TypeOK, Tasks
<1>5. CASE BookClose(c)
  BY <1>0, <1>5, MoveHarmless DEF BookClose, Booking, Return
<1>6. CASE SaveRow(c)
  BY <1>0, <1>6, MoveHarmless DEF SaveRow, Return
<1>7. CASE SaveClosed(c)
  <2>1. \A t \in Trades : trade'[t].status = "OPEN" => trade'[t] = trade[t]
    BY <1>7 DEF SaveClosed, TypeOK, TradeRows
  <2> QED
    BY <1>0, <1>7, <2>1 DEF SaveClosed, Goto, Harmless, TypeOK, Tasks
<1> QED
  BY <1>1, <1>2, <1>3, <1>4, <1>5, <1>6, <1>7

LEMMA CycleHarmless ==
  ASSUME TypeOK, NEW d \in Callers,
         \/ StartCycle(d) \/ ListTrades(d) \/ EndCycle(d) \/ Crash(d)
         \/ \E T \in SUBSET Trades : Evaluate(d, T)
         \/ \E t \in Trades : ExitRefused(d, t)
  PROVE  Harmless
<1>0. task[d] \in Tasks /\ Idle.at = "idle"
  BY DEF TypeOK, Idle
<1>1. CASE StartCycle(d)
  BY <1>1 DEF StartCycle, DriverWaits, Harmless, TypeOK, Idle
<1>2. CASE ListTrades(d)
  BY <1>0, <1>2 DEF ListTrades, DriverWaits, Harmless, TypeOK, Tasks
<1>3. CASE EndCycle(d) \/ Crash(d)
  BY <1>0, <1>3, MoveHarmless DEF EndCycle, Crash, DriverWaits
<1>4. ASSUME NEW T, Evaluate(d, T) PROVE Harmless
  BY <1>0, <1>4 DEF Evaluate, DriverWaits, Harmless, TypeOK, Tasks
<1>5. ASSUME NEW t, ExitRefused(d, t) PROVE Harmless
  BY <1>0, <1>5 DEF ExitRefused, DriverWaits, At, Harmless, TypeOK, Tasks
<1> QED
  BY <1>1, <1>2, <1>3, <1>4, <1>5

\* The look-up that finds nothing is what the commit rests on.
LEMMA LookClear ==
  ASSUME OpenInv, NEW c \in Callers, LookForClash(c), TypeOK'
  PROVE  OpenInv'
<1>1. CASE Clash(c)
  <2>1. Harmless
    BY <1>1, BackFacts, MoveHarmless DEF OpenInv, LookForClash, Return
  <2> QED
    BY <2>1, HarmlessKeeps
<1>2. CASE ~Clash(c)
  <2>1. /\ trade' = trade
        /\ task' = [task EXCEPT ![c].at = "commit"]
    BY <1>2 DEF LookForClash, Goto
  <2>2. \A d \in Callers : task'[d].instrument = task[d].instrument
    BY <2>1 DEF OpenInv, TypeOK, Tasks
  <2>3. \A d \in Callers \ {c} : task'[d] = task[d]
    BY <2>1 DEF OpenInv, TypeOK
  <2> QED
    BY <1>2, <2>1, <2>2, <2>3
    DEF OpenInv, OneOpenPerInstrument, OpenTrades, Clear, At, Clash
<1> QED
  BY <1>1, <1>2

\* The commit adds a trade of a contract that nobody holds, and nobody else is
\* about to commit: the lock has one holder.
LEMMA CommitClear ==
  ASSUME OpenInv, NEW c \in Callers, NEW t \in Trades, CommitOpen(c, t), TypeOK'
  PROVE  OpenInv'
<1>1. /\ At(c, "commit") /\ ~Clash(c)
      /\ \A d \in Callers \ {c} : ~At(d, "commit")
  BY DEF OpenInv, TypeOK, Clear, CommitOpen, At
<1>2. \A d \in Callers : task'[d].at # "commit"
  BY <1>1, BackFacts DEF OpenInv, CommitOpen, Return, At, TypeOK
<1>3. /\ trade'[t].instrument = task[c].instrument
      /\ \A s \in Trades \ {t} : trade'[s] = trade[s]
  BY DEF OpenInv, CommitOpen, TypeOK
<1>4. OneOpenPerInstrument'
  BY <1>1, <1>3 DEF OpenInv, OneOpenPerInstrument, OpenTrades, Clash
<1> QED
  BY <1>2, <1>4 DEF OpenInv, Clear, At

LEMMA StepOpen == OpenInv /\ [Next]_vars => OpenInv'
<1> SUFFICES ASSUME OpenInv, [Next]_vars PROVE OpenInv'
  OBVIOUS
<1>0. TypeOK /\ TypeOK'
  BY StepTyped DEF OpenInv
<1>1. ASSUME NEW d \in Drivers, DriverStep(d) PROVE OpenInv'
  <2>0. d \in Callers
    BY DEF Callers
  <2>1. ASSUME NEW t \in Trades, NEW g \in Grosses, DriverExit(d, t, g) PROVE Harmless
    BY <1>0, <2>0, <2>1, RequestHarmless DEF DriverExit
  <2>2. ASSUME NEW i \in Instruments, NEW o \in Outlays, DriverEntry(d, i, o)
        PROVE  Harmless
    BY <1>0, <2>0, <2>2, RequestHarmless DEF DriverEntry
  <2>3. Harmless
    BY <1>0, <1>1, <2>0, <2>1, <2>2, CycleHarmless DEF DriverStep
  <2> QED
    BY <1>0, <2>3, HarmlessKeeps
<1>2. ASSUME NEW c \in Clients, ClientStep(c) PROVE OpenInv'
  BY <1>0, <1>2, RequestHarmless, HarmlessKeeps DEF ClientStep, Callers
<1>3. ASSUME NEW c \in Callers, Progress(c) \/ Crash(c) PROVE OpenInv'
  BY <1>0, <1>3, RequestHarmless, CycleHarmless, HarmlessKeeps, LookClear, CommitClear
  DEF Progress
<1>4. CASE UNCHANGED vars
  BY <1>0, <1>4 DEF vars, OpenInv, OneOpenPerInstrument, OpenTrades, Clear, At, Clash
<1> QED
  BY <1>1, <1>2, <1>3, <1>4 DEF Next

\* openTrade: for any number of processes and requests, in every interleaving and
\* wherever a process dies, at most one open trade per contract.
THEOREM OneTradePerContract == Spec => []OneOpenPerInstrument
<1>1. Init => OpenInv
  <2> SUFFICES ASSUME Init PROVE OpenInv
    OBVIOUS
  <2>1. \A t \in Trades : trade[t].status = "NONE"
    BY DEF Init, NoTrade
  <2>2. \A c \in Callers : task[c].at = "idle"
    BY DEF Init, Idle
  <2> QED
    BY <2>1, <2>2, InitTyped DEF OpenInv, OneOpenPerInstrument, OpenTrades, Clear, At
<1>2. OpenInv => OneOpenPerInstrument
  BY DEF OpenInv
<1> QED
  BY <1>1, <1>2, StepOpen, PTL DEF Spec
-----------------------------------------------------------------------------
(* Every close is booked, and once *)

InHand(c) == task[c].at \in {"save", "book"}

\* A close in hand is of a trade on record, which its first write has closed.
ClosesKnown ==
  \A c \in Callers : InHand(c) =>
    /\ task[c].trade \in Trades
    /\ trade[task[c].trade].status # "NONE"
    /\ At(c, "book") => trade[task[c].trade].status = "CLOSED"

\* A trade that no two closes fought over has one close at most, in hand and not
\* booked yet, or booked.
OneClose ==
  \A t \in Trades : t \notin contested =>
    /\ booked[t] <= 1
    /\ trade[t].status # "CLOSED" => booked[t] = 0
    /\ \A c \in Closing(t) : /\ booked[t] = 0
                             /\ At(c, "save") => trade[t].status = "OPEN"
                             /\ \A d \in Closing(t) : d = c

\* Without a crash a closed trade is booked, or about to be.
NoneUnbooked ==
  crashes = 0 =>
    \A t \in ClosedTrades :
      booked[t] > 0 \/ \E c \in Callers : At(c, "book") /\ task[c].trade = t

BookInv == ClosesKnown /\ OneClose /\ NoneUnbooked

\* A step of c that has nothing to do with a close.
Passive(c) ==
  /\ UNCHANGED <<trade, booked, contested, crashes>>
  /\ \A d \in Callers \ {c} : task'[d] = task[d]
  /\ ~At(c, "book") /\ task'[c].at \notin {"save", "book"}

LEMMA PassiveSteps ==
  ASSUME TypeOK, NEW c \in Callers,
         \/ \E i \in Instruments, o \in Outlays : BeginOpen(c, i, o)
         \/ \E k \in Capitals \cup {account.capital},
               l \in Ceilings \cup {account.ceiling} : BeginEdit(c, k, l)
         \/ LockRow(c) \/ LookForClash(c) \/ SaveRow(c)
         \/ StartCycle(c) \/ ListTrades(c) \/ EndCycle(c)
         \/ \E T \in SUBSET Trades : Evaluate(c, T)
         \/ \E t \in Trades : ExitRefused(c, t)
  PROVE  Passive(c)
<1>0. task[c] \in Tasks /\ Back(c) \in Tasks /\ Back(c).at \in {"cycle", "idle"}
  BY BackFacts DEF TypeOK
<1> USE DEF Passive, At, history
<1>1. ASSUME NEW i \in Instruments, NEW o \in Outlays, BeginOpen(c, i, o)
      PROVE  Passive(c)
  BY <1>0, <1>1 DEF BeginOpen, Begin, Ready, TypeOK, Tasks
<1>2. ASSUME NEW k, NEW l, BeginEdit(c, k, l) PROVE Passive(c)
  BY <1>0, <1>2 DEF BeginEdit, Begin, Ready, TypeOK, Idle
<1>3. CASE LockRow(c)
  BY <1>0, <1>3 DEF LockRow, Goto, TypeOK, Tasks
<1>4. CASE LookForClash(c)
  <2>1. /\ UNCHANGED <<trade, booked, contested, crashes>>
        /\ task[c].at = "clash"
        /\ \/ task' = [task EXCEPT ![c] = Back(c)]
           \/ task' = [task EXCEPT ![c].at = "commit"]
    BY <1>4 DEF LookForClash, Return, Goto
  <2> QED
    BY <1>0, <2>1 DEF TypeOK, Tasks
<1>5. CASE SaveRow(c)
  BY <1>0, <1>5 DEF SaveRow, Return, TypeOK
<1>6. CASE StartCycle(c) \/ EndCycle(c)
  <2>1. CASE StartCycle(c)
    BY <2>1 DEF StartCycle, DriverWaits, TypeOK, Idle
  <2>2. CASE EndCycle(c)
    BY <2>2 DEF EndCycle, DriverWaits, TypeOK, Idle
  <2> QED
    BY <1>6, <2>1, <2>2
<1>7. CASE ListTrades(c)
  BY <1>0, <1>7 DEF ListTrades, DriverWaits, TypeOK, Tasks
<1>8. ASSUME NEW T, Evaluate(c, T) PROVE Passive(c)
  BY <1>0, <1>8 DEF Evaluate, DriverWaits, TypeOK, Tasks
<1>9. ASSUME NEW t, ExitRefused(c, t) PROVE Passive(c)
  BY <1>0, <1>9 DEF ExitRefused, DriverWaits, TypeOK, Tasks
<1> QED
  BY <1>1, <1>2, <1>3, <1>4, <1>5, <1>6, <1>7, <1>8, <1>9

LEMMA PassiveBooks ==
  ASSUME TypeOK, BookInv, NEW c \in Callers, Passive(c)
  PROVE  BookInv'
<1> USE DEF Passive, BookInv, InHand, Closing, At
<1>1. ClosesKnown'
  BY DEF ClosesKnown
<1>2. OneClose'
  BY DEF OneClose
<1>3. NoneUnbooked'
  BY DEF NoneUnbooked, ClosedTrades
<1> QED
  BY <1>1, <1>2, <1>3

LEMMA CommitBooks ==
  ASSUME TypeOK, BookInv, NEW c \in Callers, NEW t \in Trades, CommitOpen(c, t)
  PROVE  BookInv'
<1>1. /\ \A s \in Trades \ {t} : trade'[s] = trade[s]
      /\ trade[t].status = "NONE" /\ trade'[t].status = "OPEN"
      /\ UNCHANGED <<booked, contested, crashes>>
      /\ \A d \in Callers \ {c} : task'[d] = task[d]
      /\ task[c].at = "commit" /\ task'[c].at \in {"cycle", "idle"}
  BY BackFacts DEF CommitOpen, Return, At, TypeOK, history
<1>2. \A d \in Callers : InHand(d) => task[d].trade # t
  BY <1>1 DEF BookInv, ClosesKnown
<1> USE DEF BookInv, InHand, Closing, At
<1>3. ClosesKnown'
  BY <1>1, <1>2 DEF ClosesKnown
<1>4. OneClose'
  BY <1>1, <1>2 DEF OneClose
<1>5. NoneUnbooked'
  BY <1>1, <1>2 DEF NoneUnbooked, ClosedTrades
<1> QED
  BY <1>3, <1>4, <1>5

LEMMA BeginCloseBooks ==
  ASSUME TypeOK, BookInv, NEW c \in Callers, NEW t \in Trades, NEW g \in Grosses,
         BeginClose(c, t, g)
  PROVE  BookInv'
<1>0. Back(c) \in Tasks
  BY BackFacts
<1>1. /\ trade[t].status = "OPEN"
      /\ UNCHANGED <<trade, booked, crashes>>
      /\ contested' = IF Closing(t) \ {c} # {} THEN contested \cup {t} ELSE contested
      /\ \A d \in Callers \ {c} : task'[d] = task[d]
      /\ task[c].at \in {"cycle", "idle"} /\ task'[c].at = "save" /\ task'[c].trade = t
  BY <1>0 DEF BeginClose, CloseRead, Begin, Ready, At, TypeOK, Tasks
<1>2. t \notin contested' => Closing(t) = {} /\ booked[t] = 0
  BY <1>1 DEF BookInv, OneClose, Closing
<1> USE DEF BookInv, InHand, Closing, At
<1>3. ClosesKnown'
  BY <1>1 DEF ClosesKnown
<1>4. OneClose'
  BY <1>1, <1>2 DEF OneClose
<1>5. NoneUnbooked'
  BY <1>1 DEF NoneUnbooked, ClosedTrades
<1> QED
  BY <1>3, <1>4, <1>5

LEMMA SaveClosedBooks ==
  ASSUME TypeOK, BookInv, NEW c \in Callers, SaveClosed(c)
  PROVE  BookInv'
<1> DEFINE t == task[c].trade
<1>1. /\ t \in Trades /\ trade[t].status # "NONE"
      /\ task[c].at = "save" /\ task'[c].at = "book" /\ task'[c].trade = t
      /\ \A d \in Callers \ {c} : task'[d] = task[d]
      /\ UNCHANGED <<booked, contested, crashes>>
  BY DEF SaveClosed, Goto, At, TypeOK, Tasks, BookInv, ClosesKnown, InHand, history
<1>2. \A s \in Trades : trade'[s].status = IF s = t THEN "CLOSED" ELSE trade[s].status
  BY DEF SaveClosed, TypeOK, TradeRows
<1> HIDE DEF t
<1> USE DEF BookInv, InHand, Closing, At
<1>3. ClosesKnown'
  BY <1>1, <1>2 DEF ClosesKnown
<1>4. OneClose'
  BY <1>1, <1>2 DEF OneClose, t
<1>5. NoneUnbooked'
  BY <1>1, <1>2 DEF NoneUnbooked, ClosedTrades
<1> QED
  BY <1>3, <1>4, <1>5

LEMMA BookCloseBooks ==
  ASSUME TypeOK, BookInv, NEW c \in Callers, BookClose(c)
  PROVE  BookInv'
<1> DEFINE t == task[c].trade
<1>1. /\ t \in Trades /\ trade[t].status = "CLOSED"
      /\ task[c].at = "book" /\ task'[c].at \in {"cycle", "idle"}
      /\ \A d \in Callers \ {c} : task'[d] = task[d]
      /\ UNCHANGED <<trade, contested, crashes>>
      /\ c \in Closing(t)
  BY BackFacts
  DEF BookClose, Booking, Return, At, TypeOK, BookInv, ClosesKnown, InHand, Closing
<1>2. \A s \in Trades : booked'[s] = IF s = t THEN booked[s] + 1 ELSE booked[s]
  BY DEF BookClose, Booking, TypeOK
<1>3. \A s \in Trades : booked[s] \in Nat
  BY DEF TypeOK
<1> HIDE DEF t
<1> USE DEF BookInv, InHand, At
<1>4. ClosesKnown'
  BY <1>1 DEF ClosesKnown
<1>5. OneClose'
  <2>1. \A s \in Trades : Closing(s)' = Closing(s) \ {c}
    BY <1>1 DEF Closing
  <2> QED
    BY <1>1, <1>2, <1>3, <2>1 DEF OneClose, Closing
<1>6. NoneUnbooked'
  BY <1>1, <1>2, <1>3 DEF NoneUnbooked, ClosedTrades, t
<1> QED
  BY <1>4, <1>5, <1>6

LEMMA CrashBooks ==
  ASSUME TypeOK, BookInv, NEW c \in Callers, Crash(c)
  PROVE  BookInv'
<1>1. /\ UNCHANGED <<trade, booked, contested>>
      /\ crashes' # 0
      /\ \A d \in Callers \ {c} : task'[d] = task[d]
      /\ task'[c].at = "idle"
  BY DEF Crash, TypeOK, Idle
<1> USE DEF BookInv, InHand, Closing, At
<1> QED
  BY <1>1 DEF ClosesKnown, OneClose, NoneUnbooked

LEMMA StepBooks == TypeOK /\ BookInv /\ [Next]_vars => BookInv'
<1> SUFFICES ASSUME TypeOK, BookInv, [Next]_vars PROVE BookInv'
  OBVIOUS
<1>1. ASSUME NEW d \in Drivers, DriverStep(d) PROVE BookInv'
  BY <1>1, PassiveSteps, PassiveBooks, BeginCloseBooks
  DEF DriverStep, DriverExit, DriverEntry, Callers
<1>2. ASSUME NEW c \in Clients, ClientStep(c) PROVE BookInv'
  BY <1>2, PassiveSteps, PassiveBooks, BeginCloseBooks DEF ClientStep, Callers
<1>3. ASSUME NEW c \in Callers, Progress(c) \/ Crash(c) PROVE BookInv'
  BY <1>3, PassiveSteps, PassiveBooks, CommitBooks, SaveClosedBooks,
     BookCloseBooks, CrashBooks
  DEF Progress
<1>4. CASE UNCHANGED vars
  BY <1>4 DEF vars, history, BookInv, ClosesKnown, OneClose, NoneUnbooked, InHand,
              Closing, ClosedTrades, At
<1> QED
  BY <1>1, <1>2, <1>3, <1>4 DEF Next

\* closeTrade: however many drivers and clients close at once, a trade no two of
\* them fought over is booked at most once, and one that nobody has in hand was
\* booked unless a process died.
THEOREM ClosesBookedOnce == Spec => []BookedOnce
<1>1. Init => BookInv
  <2> SUFFICES ASSUME Init PROVE BookInv
    OBVIOUS
  <2>1. \A c \in Callers : task[c].at = "idle"
    BY DEF Init, Idle
  <2>2. \A t \in Trades : trade[t].status = "NONE" /\ booked[t] = 0
    BY DEF Init, NoTrade
  <2> QED
    BY <2>1, <2>2 DEF BookInv, ClosesKnown, OneClose, NoneUnbooked, InHand, Closing,
                      ClosedTrades, At
<1>2. TypeOK /\ BookInv => BookedOnce
  BY DEF TypeOK, BookInv, OneClose, NoneUnbooked, BookedOnce, ClosedTrades, Closing, At
<1> QED
  BY <1>1, <1>2, FnfWellTyped, StepBooks, PTL DEF Spec
-----------------------------------------------------------------------------
(* The portfolio row is the sum of the trade rows *)

\* Trades whose close is written and not booked yet: the row still counts them
\* as deployed.
Unbooked == {t \in Trades : \E c \in Callers : At(c, "book") /\ task[c].trade = t}

Owing   == OpenTrades \cup Unbooked
Settled == ClosedTrades \ Unbooked

OneRequest == \A c, d \in Callers : InRequest(c) /\ InRequest(d) => c = d

\* What a request copied is still so.
Fresh(c) ==
  LET row == task[c].row  t == task[c].trade
  IN  /\ row.deployed = account.deployed
      /\ row.netPnl = account.netPnl
      /\ row.totalCost = account.totalCost
      /\ InHand(c) => t \in Trades /\ trade[t].outlay = task[c].outlay
      /\ At(c, "save") => trade[t].status = "OPEN"
      /\ At(c, "book") => /\ trade[t].status = "CLOSED"
                          /\ trade[t].netPnl = task[c].gross - Cost

Totals ==
  /\ account.deployed = SumFunctionOnSet(OutlayOf, Owing)
  /\ account.netPnl = SumFunctionOnSet(NetPnlOf, Settled)
  /\ account.totalCost = Cost * Cardinality(Settled)

Balanced ==
  ~disturbed => /\ OneRequest
                /\ \A c \in Callers : InRequest(c) => Fresh(c)
                /\ Totals

LEMMA ColumnFacts ==
  ASSUME TypeOK
  PROVE  /\ \A t \in Trades : /\ OutlayOf[t] = trade[t].outlay /\ OutlayOf[t] \in Nat
                              /\ NetPnlOf[t] = trade[t].netPnl /\ NetPnlOf[t] \in Int
         /\ \A S \in SUBSET Trades : IsFiniteSet(S)
         /\ Owing \subseteq Trades /\ Settled \subseteq Trades
<1>1. \A t \in Trades : trade[t].outlay \in Nat /\ trade[t].netPnl \in Int
  BY DEF TypeOK, TradeRows
<1>2. \A S \in SUBSET Trades : IsFiniteSet(S)
  BY FnfAssumption, FS_Subset DEF FnfAssumption
<1> QED
  BY <1>1, <1>2 DEF OutlayOf, NetPnlOf, Owing, Settled, OpenTrades, ClosedTrades,
                    Unbooked

\* A step of c that books nothing and leaves the row's totals alone; a request
\* that begins undisturbed is the only one.
Quiet(c) ==
  /\ trade' = trade
  /\ account'.deployed = account.deployed /\ account'.netPnl = account.netPnl
  /\ account'.totalCost = account.totalCost
  /\ \A d \in Callers \ {c} : task'[d] = task[d]
  /\ ~At(c, "book") /\ task'[c].at # "book"
  /\ ~disturbed' /\ task'[c].at \in RequestSteps =>
       /\ InRequest(c) \/ \A d \in Callers \ {c} : ~InRequest(d)
       /\ Fresh(c)'

LEMMA QuietBalance ==
  ASSUME TypeOK, Balanced, NEW c \in Callers, Quiet(c), disturbed => disturbed'
  PROVE  Balanced'
<1> SUFFICES ASSUME ~disturbed' PROVE Balanced'
  BY DEF Balanced
<1>0. OneRequest /\ Totals /\ \A d \in Callers : InRequest(d) => Fresh(d)
  BY DEF Balanced
<1>1. OneRequest'
  BY <1>0 DEF Quiet, OneRequest, InRequest
<1>2. \A d \in Callers : InRequest(d)' => Fresh(d)'
  <2> SUFFICES ASSUME NEW d \in Callers, InRequest(d)' PROVE Fresh(d)'
    OBVIOUS
  <2>1. CASE d = c
    BY <2>1 DEF Quiet, InRequest
  <2>2. CASE d # c
    <3>1. task'[d] = task[d] /\ InRequest(d)
      BY <2>2 DEF Quiet, InRequest
    <3> QED
      BY <1>0, <3>1 DEF Fresh, Quiet, At, InHand
  <2> QED
    BY <2>1, <2>2
<1>3. Totals'
  <2>1. Unbooked' = Unbooked
    BY DEF Quiet, Unbooked, At
  <2>2. /\ Owing' = Owing /\ Settled' = Settled
        /\ OutlayOf' = OutlayOf /\ NetPnlOf' = NetPnlOf
    BY <2>1 DEF Quiet, Owing, Settled, OpenTrades, ClosedTrades, OutlayOf, NetPnlOf
  <2> QED
    BY <1>0, <2>2 DEF Totals, Quiet
<1> QED
  BY <1>1, <1>2, <1>3 DEF Balanced

\* The first read of a request copies the totals it will write back.
LEMMA BeginQuiet ==
  ASSUME TypeOK, NEW c \in Callers,
         \/ \E i \in Instruments, o \in Outlays : BeginOpen(c, i, o)
         \/ \E t \in Trades, g \in Grosses : BeginClose(c, t, g)
         \/ \E k \in Capitals \cup {account.capital},
               l \in Ceilings \cup {account.ceiling} : BeginEdit(c, k, l)
  PROVE  Quiet(c) /\ (disturbed => disturbed')
<1>0. task[c] \in Tasks /\ Back(c) \in Tasks /\ account \in Rows
  BY BackFacts DEF TypeOK
<1> USE DEF Quiet, At, InRequest, Ready
<1>1. ASSUME NEW i \in Instruments, NEW o \in Outlays, BeginOpen(c, i, o)
      PROVE  Quiet(c) /\ (disturbed => disturbed')
  <2>1. task'[c].at = "lock" /\ task'[c].row = account
    BY <1>0, <1>1 DEF BeginOpen, Begin, TypeOK, Tasks
  <2> QED
    BY <1>1, <2>1 DEF BeginOpen, Begin, TypeOK, Fresh, InHand
<1>2. ASSUME NEW t \in Trades, NEW g \in Grosses, BeginClose(c, t, g)
      PROVE  Quiet(c) /\ (disturbed => disturbed')
  <2>1. /\ task'[c].at = "save" /\ task'[c].row = account /\ task'[c].trade = t
        /\ task'[c].outlay = trade[t].outlay
    BY <1>0, <1>2 DEF BeginClose, CloseRead, Begin, TypeOK, Tasks
  <2> QED
    BY <1>2, <2>1 DEF BeginClose, CloseRead, Begin, TypeOK, Fresh, InHand
<1>3. ASSUME NEW k, NEW l, BeginEdit(c, k, l)
      PROVE  Quiet(c) /\ (disturbed => disturbed')
  <2>1. /\ task'[c].at = "edit" /\ task'[c].row.deployed = account.deployed
        /\ task'[c].row.netPnl = account.netPnl
        /\ task'[c].row.totalCost = account.totalCost
    BY <1>0, <1>3 DEF BeginEdit, Begin, TypeOK, Idle, Rows
  <2> QED
    BY <1>3, <2>1 DEF BeginEdit, Begin, TypeOK, Fresh, InHand
<1> QED
  BY <1>1, <1>2, <1>3

\* The steps between the first read and the first write, a driver's own, and a
\* crash that cuts no close.
LEMMA StepQuiet ==
  ASSUME TypeOK, Balanced, ~disturbed, NEW c \in Callers,
         \/ LockRow(c) \/ LookForClash(c) \/ SaveRow(c)
         \/ StartCycle(c) \/ ListTrades(c) \/ EndCycle(c)
         \/ \E T \in SUBSET Trades : Evaluate(c, T)
         \/ \E t \in Trades : ExitRefused(c, t)
         \/ Crash(c) /\ ~At(c, "book")
  PROVE  Quiet(c)
<1>0. /\ task[c] \in Tasks /\ Back(c) \in Tasks /\ Back(c).at \in {"cycle", "idle"}
      /\ InRequest(c) => Fresh(c)
  BY BackFacts DEF TypeOK, Balanced
<1> USE DEF Quiet, At, history
<1>1. CASE LockRow(c)
  <2>1. /\ task[c].at = "lock" /\ task' = [task EXCEPT ![c].at = "clash"]
        /\ UNCHANGED <<account, trade, disturbed>>
    BY <1>1 DEF LockRow, Goto
  <2>2. Fresh(c)'
    BY <1>0, <2>1 DEF Fresh, InHand, InRequest, RequestSteps, TypeOK, Tasks
  <2> QED
    BY <1>0, <2>1, <2>2 DEF InRequest, RequestSteps, TypeOK, Tasks
<1>2. CASE LookForClash(c)
  <2>1. /\ UNCHANGED <<account, trade, disturbed>>
        /\ task[c].at = "clash"
        /\ \/ task' = [task EXCEPT ![c] = Back(c)]
           \/ task' = [task EXCEPT ![c].at = "commit"]
    BY <1>2 DEF LookForClash, Return, Goto
  <2>2. CASE task' = [task EXCEPT ![c] = Back(c)]
    BY <1>0, <2>1, <2>2 DEF RequestSteps, TypeOK
  <2>3. CASE task' = [task EXCEPT ![c].at = "commit"]
    <3>1. Fresh(c)'
      BY <1>0, <2>1, <2>3 DEF Fresh, InHand, InRequest, RequestSteps, TypeOK, Tasks
    <3> QED
      BY <1>0, <2>1, <2>3, <3>1 DEF InRequest, RequestSteps, TypeOK, Tasks
  <2> QED
    BY <2>1, <2>2, <2>3
<1>3. CASE SaveRow(c)
  BY <1>0, <1>3 DEF SaveRow, Return, RequestSteps, InRequest, Fresh, TypeOK
<1>4. CASE StartCycle(c)
  BY <1>4 DEF StartCycle, DriverWaits, RequestSteps, TypeOK, Idle
<1>5. CASE ListTrades(c)
  BY <1>0, <1>5 DEF ListTrades, DriverWaits, RequestSteps, TypeOK, Tasks
<1>6. CASE EndCycle(c)
  BY <1>6 DEF EndCycle, DriverWaits, RequestSteps, TypeOK, Idle
<1>7. ASSUME NEW T, Evaluate(c, T) PROVE Quiet(c)
  BY <1>0, <1>7 DEF Evaluate, DriverWaits, RequestSteps, TypeOK, Tasks
<1>8. ASSUME NEW t, ExitRefused(c, t) PROVE Quiet(c)
  BY <1>0, <1>8 DEF ExitRefused, DriverWaits, RequestSteps, TypeOK, Tasks
<1>9. CASE Crash(c) /\ ~At(c, "book")
  BY <1>9 DEF Crash, RequestSteps, TypeOK, Idle
<1> QED
  BY <1>1, <1>2, <1>3, <1>4, <1>5, <1>6, <1>7, <1>8, <1>9

\* Where c is the only request, only its trade may be unbooked.
LEMMA Alone ==
  ASSUME OneRequest, NEW c \in Callers, InRequest(c)
  PROVE  /\ \A d \in Callers \ {c} : ~InRequest(d)
         /\ Unbooked = {t \in Trades : At(c, "book") /\ t = task[c].trade}
BY DEF OneRequest, InRequest, RequestSteps, Unbooked, At

\* The entry adds its outlay to both sides.
LEMMA CommitBalance ==
  ASSUME TypeOK, TypeOK', Balanced, NEW c \in Callers, NEW t \in Trades,
         CommitOpen(c, t)
  PROVE  Balanced'
<1> SUFFICES ASSUME ~disturbed' PROVE Balanced'
  BY DEF Balanced
<1>0. /\ ~disturbed /\ OneRequest /\ Totals /\ InRequest(c) /\ Fresh(c)
      /\ \A d \in Callers \ {c} : ~InRequest(d)
      /\ Unbooked = {}
  BY Alone DEF Balanced, CommitOpen, history, InRequest, RequestSteps, At
<1>1. /\ \A s \in Trades \ {t} : trade'[s] = trade[s]
      /\ trade[t].status = "NONE" /\ trade'[t].status = "OPEN"
      /\ trade'[t].outlay = task[c].outlay
      /\ \A d \in Callers \ {c} : task'[d] = task[d]
      /\ task'[c].at \in {"cycle", "idle"}
      /\ account'.deployed = account.deployed + task[c].outlay
      /\ account'.netPnl = account.netPnl /\ account'.totalCost = account.totalCost
  BY <1>0, BackFacts DEF CommitOpen, Return, TypeOK, Fresh, Rows
<1>2. \A d \in Callers : ~InRequest(d)'
  BY <1>0, <1>1 DEF InRequest, RequestSteps
<1>3. Unbooked' = {}
  BY <1>2 DEF Unbooked, InRequest, RequestSteps, At
<1>4. /\ Owing' = Owing \cup {t} /\ t \notin Owing
      /\ Settled' = Settled /\ t \notin Settled
  BY <1>0, <1>1, <1>3 DEF Owing, Settled, OpenTrades, ClosedTrades
<1>5. /\ \A s \in Owing : OutlayOf'[s] = OutlayOf[s] /\ OutlayOf[s] \in Int
      /\ OutlayOf'[t] = task[c].outlay /\ OutlayOf'[t] \in Int
      /\ \A s \in Settled : NetPnlOf'[s] = NetPnlOf[s]
      /\ IsFiniteSet(Owing) /\ IsFiniteSet(Settled)
  <2>1. OutlayOf'[t] \in Int
    BY DEF TypeOK, TradeRows, OutlayOf
  <2> QED
    BY <1>1, <1>4, <2>1, ColumnFacts DEF OutlayOf, NetPnlOf
<1>6. SumFunctionOnSet(OutlayOf, Owing)' = SumFunctionOnSet(OutlayOf, Owing) + task[c].outlay
  <2>1. SumFunctionOnSet(OutlayOf', Owing \cup {t})
          = SumFunctionOnSet(OutlayOf', Owing) + OutlayOf'[t]
    BY <1>4, <1>5, SumAdd
  <2>2. SumFunctionOnSet(OutlayOf', Owing) = SumFunctionOnSet(OutlayOf, Owing)
    BY <1>5, SumAgrees
  <2> QED
    BY <1>4, <1>5, <2>1, <2>2
<1>7. SumFunctionOnSet(NetPnlOf, Settled)' = SumFunctionOnSet(NetPnlOf, Settled)
  <2>1. SumFunctionOnSet(NetPnlOf', Settled) = SumFunctionOnSet(NetPnlOf, Settled)
    BY <1>5, SumAgrees
  <2> QED
    BY <1>4, <2>1
<1>8. Totals'
  BY <1>0, <1>1, <1>4, <1>6, <1>7 DEF Totals
<1> QED
  BY <1>2, <1>8 DEF Balanced, OneRequest

\* The first write of a close moves the trade from the open ones to the unbooked
\* ones: the row counts it as before.
LEMMA SaveClosedBalance ==
  ASSUME TypeOK, Balanced, NEW c \in Callers, SaveClosed(c)
  PROVE  Balanced'
<1> SUFFICES ASSUME ~disturbed' PROVE Balanced'
  BY DEF Balanced
<1> DEFINE t == task[c].trade
<1>0. /\ ~disturbed /\ OneRequest /\ Totals /\ InRequest(c) /\ Fresh(c)
      /\ \A d \in Callers \ {c} : ~InRequest(d)
      /\ Unbooked = {}
      /\ t \in Trades /\ trade[t].status = "OPEN"
  BY Alone DEF Balanced, SaveClosed, history, InRequest, RequestSteps, At, Fresh, InHand
<1>1. /\ task'[c] = [task[c] EXCEPT !.at = "book"]
      /\ \A d \in Callers \ {c} : task'[d] = task[d]
      /\ account' = account
      /\ \A s \in Trades \ {t} : trade'[s] = trade[s]
      /\ trade'[t].status = "CLOSED" /\ trade'[t].outlay = trade[t].outlay
      /\ trade'[t].netPnl = task[c].gross - Cost
  BY <1>0 DEF SaveClosed, Goto, TypeOK, Tasks, TradeRows
<1>2. /\ task'[c].at = "book" /\ task'[c].trade = t /\ task'[c].row = task[c].row
      /\ task'[c].outlay = task[c].outlay /\ task'[c].gross = task[c].gross
  BY <1>1 DEF TypeOK, Tasks
<1> HIDE DEF t
<1>3. OneRequest' /\ \A d \in Callers : InRequest(d)' => d = c
  BY <1>0, <1>1 DEF OneRequest, InRequest
<1>4. Unbooked' = {t}
  BY <1>0, <1>1, <1>2, <1>3 DEF Unbooked, At, InRequest, RequestSteps
<1>5. Fresh(c)'
  BY <1>0, <1>1, <1>2 DEF Fresh, InHand, At, SaveClosed, t
<1>6. /\ Owing' = Owing /\ Settled' = Settled /\ t \notin Settled
  BY <1>0, <1>1, <1>4 DEF Owing, Settled, OpenTrades, ClosedTrades
<1>7. /\ \A s \in Owing : OutlayOf'[s] = OutlayOf[s]
      /\ \A s \in Settled : NetPnlOf'[s] = NetPnlOf[s]
      /\ IsFiniteSet(Owing) /\ IsFiniteSet(Settled)
  BY <1>1, <1>6, ColumnFacts DEF OutlayOf, NetPnlOf
<1>8. /\ SumFunctionOnSet(OutlayOf', Owing) = SumFunctionOnSet(OutlayOf, Owing)
      /\ SumFunctionOnSet(NetPnlOf', Settled) = SumFunctionOnSet(NetPnlOf, Settled)
  BY <1>7, SumAgrees
<1>9. Totals'
  BY <1>0, <1>1, <1>6, <1>8 DEF Totals
<1> QED
  BY <1>3, <1>5, <1>9 DEF Balanced

\* The booking releases the outlay of the trade and adds its result and its cost:
\* what is released never exceeds what is deployed, so nothing is cut off at zero.
LEMMA BookBalance ==
  ASSUME TypeOK, Balanced, NEW c \in Callers, BookClose(c)
  PROVE  Balanced'
<1> SUFFICES ASSUME ~disturbed' PROVE Balanced'
  BY DEF Balanced
<1> DEFINE t == task[c].trade
<1>0. /\ ~disturbed /\ OneRequest /\ Totals /\ InRequest(c) /\ Fresh(c)
      /\ \A d \in Callers \ {c} : ~InRequest(d)
      /\ t \in Trades /\ trade[t].status = "CLOSED"
      /\ Unbooked = {t}
      /\ trade[t].outlay = task[c].outlay /\ trade[t].netPnl = task[c].gross - Cost
  <2>1. /\ ~disturbed /\ At(c, "book") /\ InRequest(c)
    BY DEF BookClose, Booking, InRequest, RequestSteps, At
  <2>2. OneRequest /\ Totals /\ Fresh(c)
    BY <2>1 DEF Balanced
  <2> QED
    BY <2>1, <2>2, Alone DEF Fresh, InHand, At
<1>1. /\ account'.deployed = Positive(account.deployed - trade[t].outlay)
      /\ account'.netPnl = account.netPnl + task[c].gross - Cost
      /\ account'.totalCost = account.totalCost + Cost
      /\ trade' = trade
      /\ \A d \in Callers \ {c} : task'[d] = task[d]
      /\ task'[c].at \in {"cycle", "idle"}
  BY <1>0, BackFacts DEF BookClose, Booking, Return, TypeOK, Fresh, Rows
<1> HIDE DEF t
<1>2. \A d \in Callers : ~InRequest(d)'
  BY <1>0, <1>1 DEF InRequest, RequestSteps
<1>3. Unbooked' = {}
  BY <1>2 DEF Unbooked, InRequest, RequestSteps, At
<1>4. /\ Owing = OpenTrades \cup {t} /\ t \notin OpenTrades /\ Owing' = OpenTrades
      /\ Settled' = Settled \cup {t} /\ t \notin Settled
      /\ OutlayOf' = OutlayOf /\ NetPnlOf' = NetPnlOf
  BY <1>0, <1>1, <1>3
  DEF Owing, Settled, OpenTrades, ClosedTrades, OutlayOf, NetPnlOf
<1>5. /\ IsFiniteSet(OpenTrades) /\ IsFiniteSet(Settled)
      /\ \A s \in OpenTrades \cup {t} : OutlayOf[s] \in Nat
      /\ \A s \in Settled \cup {t} : NetPnlOf[s] \in Int
      /\ OutlayOf[t] = trade[t].outlay /\ NetPnlOf[t] = trade[t].netPnl
  BY <1>0, ColumnFacts DEF OpenTrades, Settled, ClosedTrades
<1>6. /\ SumFunctionOnSet(OutlayOf, Owing)
           = SumFunctionOnSet(OutlayOf, OpenTrades) + trade[t].outlay
      /\ SumFunctionOnSet(OutlayOf, OpenTrades) \in Nat
  <2>1. \A s \in OpenTrades \cup {t} : OutlayOf[s] \in Int
    BY <1>5
  <2>2. SumFunctionOnSet(OutlayOf, OpenTrades \cup {t})
          = SumFunctionOnSet(OutlayOf, OpenTrades) + OutlayOf[t]
    BY <1>4, <1>5, <2>1, SumAdd
  <2>3. SumFunctionOnSet(OutlayOf, OpenTrades) \in Nat
    BY <1>5, SumIsNat
  <2> QED
    BY <1>4, <1>5, <2>2, <2>3
<1>7. account'.deployed = SumFunctionOnSet(OutlayOf, Owing)'
  <2>1. trade[t].outlay \in Nat
    BY <1>5
  <2> QED
    BY <1>0, <1>1, <1>4, <1>6, <2>1 DEF Totals, Positive
<1>8. account'.netPnl = SumFunctionOnSet(NetPnlOf, Settled)'
  <2>1. SumFunctionOnSet(NetPnlOf, Settled \cup {t})
          = SumFunctionOnSet(NetPnlOf, Settled) + NetPnlOf[t]
    BY <1>4, <1>5, SumAdd
  <2>2. account.netPnl \in Int /\ task[c].gross \in Int /\ Cost \in Int
    BY FnfAssumption DEF FnfAssumption, TypeOK, Rows, Tasks
  <2> QED
    BY <1>0, <1>1, <1>4, <1>5, <2>1, <2>2 DEF Totals
<1>9. account'.totalCost = (Cost * Cardinality(Settled))'
  <2>1. /\ Cardinality(Settled \cup {t}) = Cardinality(Settled) + 1
        /\ Cardinality(Settled) \in Nat
    BY <1>4, <1>5, FS_AddElement, FS_CardinalityType
  <2>2. Cost \in Nat
    BY FnfAssumption DEF FnfAssumption
  <2>3. Cost * (Cardinality(Settled) + 1) = Cost * Cardinality(Settled) + Cost
    BY <2>1, <2>2
  <2> QED
    BY <1>0, <1>1, <1>4, <2>1, <2>3 DEF Totals
<1> QED
  BY <1>2, <1>7, <1>8, <1>9 DEF Balanced, OneRequest, Totals

LEMMA StepBalanced == TypeOK /\ Balanced /\ [Next]_vars => Balanced'
<1> SUFFICES ASSUME TypeOK, Balanced, [Next]_vars PROVE Balanced'
  OBVIOUS
<1>0. TypeOK'
  BY StepTyped
<1>1. CASE disturbed'
  BY <1>1 DEF Balanced
<1>2. CASE ~disturbed'
  <2>1. ASSUME NEW c \in Callers,
               \/ LockRow(c) \/ LookForClash(c) \/ SaveRow(c)
               \/ StartCycle(c) \/ ListTrades(c) \/ EndCycle(c)
               \/ \E T \in SUBSET Trades : Evaluate(c, T)
               \/ \E t \in Trades : ExitRefused(c, t)
               \/ Crash(c)
        PROVE  Balanced'
    <3>1. ~disturbed /\ (Crash(c) => ~At(c, "book"))
      BY <1>2, <2>1
      DEF LockRow, LookForClash, SaveRow, StartCycle, ListTrades, EndCycle, Evaluate,
          ExitRefused, Crash, DriverWaits, history, TypeOK
    <3> QED
      BY <2>1, <3>1, StepQuiet, QuietBalance
  <2>2. ASSUME NEW d \in Drivers, DriverStep(d) PROVE Balanced'
    BY <2>1, <2>2, BeginQuiet, QuietBalance
    DEF DriverStep, DriverExit, DriverEntry, Callers
  <2>3. ASSUME NEW c \in Clients, ClientStep(c) PROVE Balanced'
    BY <2>3, BeginQuiet, QuietBalance DEF ClientStep, Callers
  <2>4. ASSUME NEW c \in Callers, Progress(c) \/ Crash(c) PROVE Balanced'
    BY <1>0, <2>1, <2>4, CommitBalance, SaveClosedBalance, BookBalance DEF Progress
  <2>5. CASE UNCHANGED vars
    BY <2>5
    DEF vars, history, Balanced, OneRequest, InRequest, Fresh, InHand, At, Totals,
        Owing, Settled, Unbooked, OpenTrades, ClosedTrades, OutlayOf, NetPnlOf
  <2> QED
    BY <2>2, <2>3, <2>4, <2>5 DEF Next
<1> QED
  BY <1>1, <1>2

\* openTrade and closeTrade: as long as no two requests overlap and no process
\* dies between the two writes of a close, the deployed capital, the net result
\* and the cost of the portfolio row are the sums over the trade rows, for any
\* number of trades and crashes inside an entry included.
THEOREM BooksAreBalanced == Spec => []BooksBalance
<1>1. Init => Balanced
  <2> SUFFICES ASSUME Init PROVE Balanced
    OBVIOUS
  <2>1. \A c \in Callers : task[c].at = "idle"
    BY DEF Init, Idle
  <2>2. Owing = {} /\ Settled = {}
    BY <2>1 DEF Init, NoTrade, Owing, Settled, Unbooked, OpenTrades, ClosedTrades, At
  <2>3. account.deployed = 0 /\ account.netPnl = 0 /\ account.totalCost = 0
    BY DEF Init, NewRow
  <2>4. Cost * Cardinality({}) = 0
    BY FnfAssumption, FS_EmptySet DEF FnfAssumption
  <2> QED
    BY <2>1, <2>2, <2>3, <2>4, SumEmpty
    DEF Balanced, OneRequest, InRequest, RequestSteps, Totals
<1>2. Balanced => BooksBalance
  <2> SUFFICES ASSUME Balanced, ~disturbed, ~ \E c \in Callers : At(c, "book")
               PROVE  BooksBalance
    BY DEF BooksBalance
  <2>1. Owing = OpenTrades /\ Settled = ClosedTrades
    BY DEF Owing, Settled, Unbooked
  <2> QED
    BY <2>1 DEF Balanced, Totals, BooksBalance
<1> QED
  BY <1>1, <1>2, FnfWellTyped, StepBalanced, PTL DEF Spec
=============================================================================
