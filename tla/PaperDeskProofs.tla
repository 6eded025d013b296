--------------------------- MODULE PaperDeskProofs ---------------------------
(***************************************************************************)
(* What holds of the paper desk for every number of callers, trades and    *)
(* crashes: in every interleaving the types, the order of the writes, that *)
(* nothing closed comes back, and how far concurrent entries can exceed the*)
(* position limit; and as long as requests run one at a time and to the    *)
(* end, that the books balance, that positions mirror trades, that the     *)
(* rules of entry hold, and that the desk implements Account.              *)
(***************************************************************************)
EXTENDS PaperDesk, SumTheorems, TLAPS

EnteredSteps == {"entryOrder", "deploy", "charge", "openEvent", "openPosition"}
OrderedSteps == EnteredSteps \ {"entryOrder"}
ExitingSteps == CloseSteps \ {"exitOrder"}

\* A caller that has inserted or read a trade knows one that is on record, the
\* orders its later steps rely on were saved, and a refresh only has positions
\* that exist.
TasksKnowTheirTrade ==
  \A c \in Callers :
    /\ task[c].at \in EnteredSteps \cup CloseSteps =>
         /\ task[c].trade \in Trades
         /\ trade[task[c].trade].status # "NONE"
    /\ task[c].at \in OrderedSteps => "ENTRY" \in legs[task[c].trade]
    /\ task[c].at \in ExitingSteps => "EXIT" \in legs[task[c].trade]
    /\ \A t \in task[c].marks : position[t] # "NONE"

\* Until the opening caller writes it, a trade has no position row, and no other
\* caller is opening the same trade.
OneOpener ==
  \A c \in Callers : task[c].at \in EnteredSteps =>
    /\ position[task[c].trade] = "NONE"
    /\ \A d \in Callers : task[d].at \in EnteredSteps /\ task[d].trade = task[c].trade
                            => c = d

WriteInv == TasksKnowTheirTrade /\ OneOpener /\ OrdersPrecedeRows

\* Callers whose count allows an entry that is still to be inserted.
Admitted == {c \in Callers : /\ task[c].at \in {"lookup", "insert"}
                             /\ task[c].openCount < MaxOpen}

AdmissionInv ==
  OpenCount + Cardinality(Admitted) < MaxOpen + Cardinality(Callers)

-----------------------------------------------------------------------------
(* Types *)

LEMMA IdleIsTask == Idle \in Tasks /\ \A k \in Capitals : NewRow(k) \in Rows
  BY DeskAssumption DEF Idle, Tasks, NewRow, Rows, Steps, OpenSteps, CloseSteps

LEMMA OpenCountIsNat == IsFiniteSet(OpenTrades) /\ OpenCount \in Nat
<1>1. OpenTrades \subseteq Trades
  BY DEF OpenTrades, WithStatus
<1>2. IsFiniteSet(OpenTrades)
  BY <1>1, DeskAssumption, FS_Subset
<1> QED
  BY <1>2, FS_CardinalityType DEF OpenCount

LEMMA InitType == Init => TypeOK
<1> SUFFICES ASSUME Init PROVE TypeOK
  OBVIOUS
<1>1. account \in Rows /\ running \in Int
  BY IdleIsTask DEF Init
<1>2. task \in [Callers -> Tasks]
  BY IdleIsTask DEF Init
<1>3. trade \in [Trades -> TradeRows]
  BY DEF Init, TradeRows, NoTrade
<1>4. crashes \in 0..MaxCrashes
  BY DeskAssumption DEF Init
<1> QED
  BY <1>1, <1>2, <1>3, <1>4 DEF Init, TypeOK

LEMMA GotoType ==
  ASSUME task \in [Callers -> Tasks], NEW c \in Callers, NEW step \in Steps,
         Goto(c, step)
  PROVE  task' \in [Callers -> Tasks]
<1>1. [task[c] EXCEPT !.at = step] \in Tasks
  BY DEF Tasks
<1>2. task' = [task EXCEPT ![c] = [task[c] EXCEPT !.at = step]]
  BY DEF Goto
<1> QED
  BY <1>1, <1>2

LEMMA FinishType ==
  ASSUME task \in [Callers -> Tasks], NEW c \in Callers, Finish(c)
  PROVE  task' \in [Callers -> Tasks]
BY IdleIsTask DEF Finish

LEMMA TaskFields ==
  ASSUME TypeOK, NEW c \in Callers
  PROVE  /\ task[c].row \in Rows /\ task[c].outlay \in Nat
         /\ task[c].gross \in Int /\ task[c].openCount \in Nat
         /\ task[c].instrument \in Instruments \cup {None}
BY DEF TypeOK, Tasks

LEMMA OpenStepType ==
  ASSUME TypeOK, NEW c \in Callers, OpenStep(c)
  PROVE  TypeOK'
<1> USE DEF TypeOK
<1>s. {"entryOrder", "deploy", "charge", "openEvent", "openPosition", "insert", "lookup"} \subseteq Steps
  BY DEF Steps, OpenSteps
<1>1. CASE CountOpen(c)
  <2> DEFINE k == [task[c] EXCEPT !.openCount = OpenCount,
                      !.at = IF OpenCount > 0 THEN "lookup" ELSE "insert"]
  <2>1. k \in Tasks
    BY <1>s, OpenCountIsNat DEF Tasks
  <2>2. task' = [task EXCEPT ![c] = k]
    BY <1>1 DEF CountOpen
  <2> QED
    BY <1>1, <2>1, <2>2 DEF CountOpen
<1>2. CASE LookupSame(c)
  <2> DEFINE b == \E t \in OpenTrades : trade[t].instrument = task[c].instrument
             k == [task[c] EXCEPT !.at = "insert", !.same = b]
  <2>1. b \in BOOLEAN
    OBVIOUS
  <2>2. k \in Tasks
    <3> HIDE DEF b
    <3> QED
      BY <1>s, <2>1 DEF Tasks
  <2>3. task' = [task EXCEPT ![c] = k]
    <3>1. task' = [task EXCEPT ![c].at = "insert", ![c].same = b]
      BY <1>2 DEF LookupSame
    <3> HIDE DEF b
    <3> QED
      BY <3>1
  <2> HIDE DEF k
  <2> QED
    BY <1>2, <2>2, <2>3 DEF LookupSame
<1>3. CASE RefuseEntry(c)
  BY <1>3, FinishType DEF RefuseEntry, Finish
<1>4. ASSUME NEW t \in Trades, InsertTrade(c, t) PROVE TypeOK'
  <2> DEFINE k == [task[c] EXCEPT !.at = "entryOrder", !.trade = t]
  <2>1. k \in Tasks
    BY <1>s DEF Tasks
  <2>2. task' = [task EXCEPT ![c] = k]
    BY <1>4 DEF InsertTrade
  <2>3. trade' \in [Trades -> TradeRows]
    BY <1>4, TaskFields, DeskAssumption DEF InsertTrade, TradeRows
  <2> QED
    BY <1>4, <2>1, <2>2, <2>3 DEF InsertTrade
<1>5. CASE SaveEntryOrder(c)
  BY <1>5, <1>s, GotoType DEF SaveEntryOrder, Goto
<1>6. CASE BookOutlay(c)
  <2>1. account' \in Rows
    <3> DEFINE r == task[c].row
    <3>1. r.deployed + task[c].outlay \in Nat /\ r.openPositionCount + 1 \in Nat
      BY TaskFields DEF Rows
    <3> QED
      BY <1>6, <3>1 DEF BookOutlay, Rows
  <2> QED
    BY <1>6, <1>s, <2>1, GotoType DEF BookOutlay, Goto
<1>7. CASE ChargeEntry(c)
  <2>1. account' \in Rows
    BY <1>7, TaskFields, DeskAssumption DEF ChargeEntry, Rows
  <2> QED
    BY <1>7, <1>s, <2>1, GotoType DEF ChargeEntry, Goto
<1>8. CASE RecordOpen(c)
  <2>1. running' \in Int
    BY <1>8 DEF RecordOpen, Rows
  <2> QED
    BY <1>8, <1>s, <2>1, GotoType DEF RecordOpen, Goto
<1>9. CASE SyncOpened(c)
  BY <1>9, FinishType DEF SyncOpened, Finish
<1> QED
  BY <1>1, <1>2, <1>3, <1>4, <1>5, <1>6, <1>7, <1>8, <1>9 DEF OpenStep

LEMMA CloseStepType ==
  ASSUME TypeOK, NEW c \in Callers, CloseStep(c)
  PROVE  TypeOK'
<1> USE DEF TypeOK
<1>s. CloseSteps \subseteq Steps
  BY DEF Steps
<1>1. CASE SaveExitOrder(c)
  BY <1>1, <1>s, GotoType DEF SaveExitOrder, Goto, CloseSteps
<1>2. CASE SaveClosedTrade(c)
  <2>1. trade' \in [Trades -> TradeRows]
    <3> DEFINE t == task[c].trade
               n == task[c].gross - EntryCost - ExitCost
    <3>1. n \in Int /\ EntryCost + ExitCost \in Nat
      BY TaskFields, DeskAssumption
    <3>2. trade' = [trade EXCEPT ![t] = [trade[t] EXCEPT !.status = "CLOSED",
                      !.cost = EntryCost + ExitCost, !.netPnl = n]]
      BY <1>2 DEF SaveClosedTrade
    <3>3. ASSUME NEW r \in TradeRows
          PROVE  [r EXCEPT !.status = "CLOSED", !.cost = EntryCost + ExitCost,
                           !.netPnl = n] \in TradeRows
      <4> HIDE DEF n
      <4> QED
        BY <3>1 DEF TradeRows
    <3> QED
      BY <3>2, <3>3
  <2> QED
    BY <1>2, <1>s, <2>1, GotoType DEF SaveClosedTrade, Goto, CloseSteps
<1>3. CASE ReleaseOutlay(c)
  <2>1. account' \in Rows
    <3> DEFINE r == task[c].row
    <3>1. \A n \in Int : Positive(n) \in Nat
      BY DEF Positive
    <3>2. /\ Positive(r.deployed - task[c].outlay) \in Nat
          /\ Positive(r.openPositionCount - 1) \in Nat
          /\ r.netPnl + task[c].gross - ExitCost \in Int
          /\ r.totalCost + EntryCost + ExitCost \in Int
      BY <3>1, TaskFields, DeskAssumption DEF Rows
    <3> HIDE DEF r
    <3> QED
      BY <1>3, <3>2 DEF ReleaseOutlay, Rows, r
  <2> QED
    BY <1>3, <1>s, <2>1, GotoType DEF ReleaseOutlay, Goto, CloseSteps
<1>4. CASE RecordClose(c)
  <2>1. running' \in Int
    BY <1>4 DEF RecordClose, Rows
  <2> QED
    BY <1>4, <1>s, <2>1, GotoType DEF RecordClose, Goto, CloseSteps
<1>5. CASE SyncClosed(c)
  BY <1>5, FinishType DEF SyncClosed, Finish
<1> QED
  BY <1>1, <1>2, <1>3, <1>4, <1>5 DEF CloseStep

LEMMA RequestType ==
  ASSUME TypeOK, NEW c \in Callers, Request(c)
  PROVE  TypeOK'
<1> USE DeskAssumption DEF TypeOK, Start
<1>1. ASSUME NEW i \in Instruments, NEW o \in Outlays, BeginOpen(c, i, o)
      PROVE  TypeOK'
  <2>1. [Idle EXCEPT !.at = "counting", !.row = account, !.instrument = i,
                     !.outlay = o] \in Tasks
    BY IdleIsTask DEF Tasks, Steps, OpenSteps
  <2> QED
    BY <1>1, <2>1 DEF BeginOpen
<1>2. ASSUME NEW t \in Trades, NEW g \in Grosses, BeginClose(c, t, g)
      PROVE  TypeOK'
  <2>1. [Idle EXCEPT !.at = "exitOrder", !.row = account, !.trade = t,
                     !.outlay = trade[t].outlay, !.gross = g] \in Tasks
    <3>1. trade[t].outlay \in Nat /\ g \in Int
      BY DEF TradeRows
    <3> QED
      BY <3>1, IdleIsTask DEF Tasks, Steps, CloseSteps
  <2> QED
    BY <1>2, <2>1 DEF BeginClose
<1>3. ASSUME NEW k \in Capitals, BeginEdit(c, k)
      PROVE  TypeOK'
  <2>1. [Idle EXCEPT !.at = "saving",
           !.row = [account EXCEPT !.capital = k, !.ceiling = k]] \in Tasks
    <3>1. [account EXCEPT !.capital = k, !.ceiling = k] \in Rows
      BY DEF Rows
    <3> QED
      BY <3>1, IdleIsTask DEF Tasks, Steps, EditSteps
  <2> QED
    BY <1>3, <2>1 DEF BeginEdit
<1>4. CASE BeginToggle(c)
  <2>1. [Idle EXCEPT !.at = "saving", !.row = account] \in Tasks
    BY IdleIsTask DEF Tasks, Steps, EditSteps
  <2> QED
    BY <1>4, <2>1 DEF BeginToggle
<1>5. ASSUME NEW k \in Capitals, BeginCapital(c, k)
      PROVE  TypeOK'
  <2>1. [Idle EXCEPT !.at = "capital",
           !.row = [account EXCEPT !.capital = k, !.ceiling = k]] \in Tasks
    <3>1. [account EXCEPT !.capital = k, !.ceiling = k] \in Rows
      BY DEF Rows
    <3> QED
      BY <3>1, IdleIsTask DEF Tasks, Steps, EditSteps
  <2> QED
    BY <1>5, <2>1 DEF BeginCapital
<1>6. CASE BeginRefresh(c)
  <2>1. [Idle EXCEPT !.at = "marking", !.marks = Held] \in Tasks
    BY IdleIsTask DEF Tasks, Steps, EditSteps, Held
  <2> QED
    BY <1>6, <2>1 DEF BeginRefresh
<1> QED
  BY <1>1, <1>2, <1>3, <1>4, <1>5, <1>6 DEF Request

LEMMA EditStepType ==
  ASSUME TypeOK, NEW c \in Callers, EditStep(c)
  PROVE  TypeOK'
<1> USE DEF TypeOK
<1>1. CASE SaveRow(c)
  BY <1>1, FinishType DEF SaveRow, Finish, Tasks
<1>2. CASE SetCapital(c)
  <2>1. account' \in Rows
    BY <1>2, TaskFields DEF SetCapital, Rows
  <2>2. "capitalEvent" \in Steps
    BY DEF Steps, EditSteps
  <2> QED
    BY <1>2, <2>1, <2>2, GotoType DEF SetCapital, Goto
<1>3. CASE RecordCapital(c)
  <2>1. running' \in Int
    BY <1>3, TaskFields DEF RecordCapital, Rows
  <2> QED
    BY <1>3, <2>1, FinishType DEF RecordCapital, Finish
<1>4. ASSUME NEW t \in Trades, MarkPosition(c, t) PROVE TypeOK'
  <2> DEFINE rest == task[c].marks \ {t}
             k == IF rest = {} THEN Idle ELSE [task[c] EXCEPT !.marks = rest]
  <2>1. k \in Tasks
    BY IdleIsTask DEF Tasks
  <2>2. task' = [task EXCEPT ![c] = k]
    BY <1>4 DEF MarkPosition
  <2>3. position' \in [Trades -> {"NONE", "OPEN", "CLOSED"}]
    BY <1>4 DEF MarkPosition
  <2> HIDE DEF k
  <2> QED
    BY <1>4, <2>1, <2>2, <2>3 DEF MarkPosition
<1> QED
  BY <1>1, <1>2, <1>3, <1>4 DEF EditStep

LEMMA StepType == TypeOK /\ [Next]_vars => TypeOK'
<1> SUFFICES ASSUME TypeOK, [Next]_vars PROVE TypeOK'
  OBVIOUS
<1>1. CASE Crash
  BY <1>1, DeskAssumption, IdleIsTask DEF Crash, TypeOK
<1>2. CASE UNCHANGED vars
  BY <1>2 DEF vars, TypeOK
<1> QED
  BY <1>1, <1>2, RequestType, OpenStepType, CloseStepType, EditStepType DEF Next

\* Every variable keeps its type, whatever the requests and crashes.
THEOREM TypeCorrect == Spec => []TypeOK
<1> QED
  BY InitType, StepType, PTL DEF Spec

-----------------------------------------------------------------------------
(* The order of the writes *)

LEMMA InitWrites == Init => WriteInv
  BY DEF Init, WriteInv, TasksKnowTheirTrade, OneOpener, OrdersPrecedeRows,
         Idle, NoTrade, EnteredSteps, OrderedSteps, ExitingSteps, CloseSteps

\* A request only gives its caller a first step; a refused or finished one
\* takes it back to idle.
LEMMA RequestWrites ==
  ASSUME TypeOK, WriteInv, NEW c \in Callers, Request(c)
  PROVE  WriteInv'
<1> USE DEF WriteInv, TasksKnowTheirTrade, OneOpener, OrdersPrecedeRows,
            EnteredSteps, OrderedSteps, ExitingSteps, CloseSteps, Start, Idle
<1>1. ASSUME NEW i \in Instruments, NEW o \in Outlays, BeginOpen(c, i, o)
      PROVE  WriteInv'
  BY <1>1 DEF BeginOpen, TypeOK
<1>2. ASSUME NEW t \in Trades, NEW g \in Grosses, BeginClose(c, t, g)
      PROVE  WriteInv'
  BY <1>2 DEF BeginClose, TypeOK
<1>3. ASSUME NEW k \in Capitals, BeginEdit(c, k)
      PROVE  WriteInv'
  BY <1>3 DEF BeginEdit, TypeOK
<1>4. CASE BeginToggle(c)
  BY <1>4 DEF BeginToggle, TypeOK
<1>5. ASSUME NEW k \in Capitals, BeginCapital(c, k)
      PROVE  WriteInv'
  BY <1>5 DEF BeginCapital, TypeOK
<1>6. CASE BeginRefresh(c)
  BY <1>6 DEF BeginRefresh, Held, TypeOK
<1> QED
  BY <1>1, <1>2, <1>3, <1>4, <1>5, <1>6 DEF Request

LEMMA OpenStepWrites ==
  ASSUME TypeOK, WriteInv, NEW c \in Callers, OpenStep(c)
  PROVE  WriteInv'
<1> USE DEF TypeOK, WriteInv, TasksKnowTheirTrade, OneOpener,
            OrdersPrecedeRows, EnteredSteps, OrderedSteps, ExitingSteps,
            CloseSteps, At
<1>1. CASE CountOpen(c)
  BY <1>1 DEF CountOpen
<1>2. CASE LookupSame(c)
  BY <1>2 DEF LookupSame
<1>3. CASE RefuseEntry(c)
  BY <1>3 DEF RefuseEntry, Finish, Idle
<1>4. ASSUME NEW t \in Trades, InsertTrade(c, t) PROVE WriteInv'
  BY <1>4 DEF InsertTrade, TradeRows
<1>5. CASE SaveEntryOrder(c)
  BY <1>5 DEF SaveEntryOrder, Goto
<1>6. CASE BookOutlay(c)
  BY <1>6 DEF BookOutlay, Goto
<1>7. CASE ChargeEntry(c)
  BY <1>7 DEF ChargeEntry, Goto
<1>8. CASE RecordOpen(c)
  BY <1>8 DEF RecordOpen, Goto
<1>9. CASE SyncOpened(c)
  BY <1>9 DEF SyncOpened, Finish, Idle
<1> QED
  BY <1>1, <1>2, <1>3, <1>4, <1>5, <1>6, <1>7, <1>8, <1>9 DEF OpenStep

LEMMA CloseStepWrites ==
  ASSUME TypeOK, WriteInv, NEW c \in Callers, CloseStep(c)
  PROVE  WriteInv'
<1> USE DEF TypeOK, WriteInv, TasksKnowTheirTrade, OneOpener,
            OrdersPrecedeRows, EnteredSteps, OrderedSteps, ExitingSteps,
            CloseSteps, At
<1>1. CASE SaveExitOrder(c)
  BY <1>1 DEF SaveExitOrder, Goto
<1>2. CASE SaveClosedTrade(c)
  BY <1>2 DEF SaveClosedTrade, Goto, TradeRows
<1>3. CASE ReleaseOutlay(c)
  BY <1>3 DEF ReleaseOutlay, Goto
<1>4. CASE RecordClose(c)
  BY <1>4 DEF RecordClose, Goto
<1>5. CASE SyncClosed(c)
  BY <1>5 DEF SyncClosed, Finish, Idle
<1> QED
  BY <1>1, <1>2, <1>3, <1>4, <1>5 DEF CloseStep

LEMMA EditStepWrites ==
  ASSUME TypeOK, WriteInv, NEW c \in Callers, EditStep(c)
  PROVE  WriteInv'
<1> USE DEF TypeOK, WriteInv, TasksKnowTheirTrade, OneOpener,
            OrdersPrecedeRows, EnteredSteps, OrderedSteps, ExitingSteps,
            CloseSteps, At
<1>1. CASE SaveRow(c)
  BY <1>1 DEF SaveRow, Finish, Idle
<1>2. CASE SetCapital(c)
  BY <1>2 DEF SetCapital, Goto
<1>3. CASE RecordCapital(c)
  BY <1>3 DEF RecordCapital, Finish, Idle
<1>4. ASSUME NEW t \in Trades, MarkPosition(c, t) PROVE WriteInv'
  <2>1. /\ \A d \in Callers \ {c} : task'[d] = task[d]
        /\ task'[c].at \in {"idle", "marking"} /\ task'[c].marks \subseteq task[c].marks
    BY <1>4 DEF MarkPosition, Idle
  <2>2. position[t] # "NONE"
    BY <1>4 DEF MarkPosition
  <2>3. \A u \in Trades : position'[u] = "NONE" <=> position[u] = "NONE"
    BY <1>4, <2>2 DEF MarkPosition
  <2>4. UNCHANGED <<trade, legs>>
    BY <1>4 DEF MarkPosition
  <2>5. TasksKnowTheirTrade'
    <3>1. ASSUME NEW d \in Callers PROVE task'[d].marks \subseteq task[d].marks
      BY <2>1
    <3>2. ASSUME NEW d \in Callers PROVE task[d].marks \subseteq Trades
      BY DEF Tasks
    <3> QED
      BY <2>1, <2>3, <2>4, <3>1, <3>2
  <2>6. OneOpener'
    BY <2>1, <2>3
  <2>7. OrdersPrecedeRows'
    BY <2>3, <2>4
  <2> QED
    BY <2>5, <2>6, <2>7
<1> QED
  BY <1>1, <1>2, <1>3, <1>4 DEF EditStep

LEMMA StepWrites == TypeOK /\ WriteInv /\ [Next]_vars => WriteInv'
<1> SUFFICES ASSUME TypeOK, WriteInv, [Next]_vars PROVE WriteInv'
  OBVIOUS
<1> USE DEF WriteInv, TasksKnowTheirTrade, OneOpener, OrdersPrecedeRows,
            EnteredSteps, OrderedSteps, ExitingSteps, CloseSteps
<1>1. CASE Crash
  BY <1>1 DEF Crash, Idle
<1>2. CASE UNCHANGED vars
  BY <1>2 DEF vars
<1> QED
  BY <1>1, <1>2, RequestWrites, OpenStepWrites, CloseStepWrites, EditStepWrites
     DEF Next

\* Orders are saved before the rows that depend on them, so no interleaving and
\* no crash leaves a closed trade without its exit order, or a position row
\* without an entry order.
THEOREM WritesInOrder == Spec => []OrdersPrecedeRows
<1>1. Spec => [](TypeOK /\ WriteInv)
  BY TypeCorrect, InitWrites, StepWrites, PTL DEF Spec
<1> QED
  BY <1>1, PTL DEF WriteInv

-----------------------------------------------------------------------------
(* Nothing closed comes back *)

KeepsClosed ==
  \A t \in Trades :
    /\ trade[t].status = "CLOSED" => trade'[t].status = "CLOSED"
    /\ position[t] = "CLOSED" => position'[t] = "CLOSED" \/ RefreshPending(t)

LEMMA StepKeepsClosed == TypeOK /\ WriteInv /\ [Next]_vars => [KeepsClosed]_vars
<1> SUFFICES ASSUME TypeOK, WriteInv, Next PROVE KeepsClosed
  OBVIOUS
<1>1. ASSUME NEW c \in Callers, Request(c) \/ EditStep(c) PROVE KeepsClosed
  <2>1. ASSUME NEW t \in Trades, MarkPosition(c, t) PROVE KeepsClosed
    BY <2>1 DEF MarkPosition, RefreshPending, KeepsClosed, TypeOK
  <2> QED
    BY <1>1, <2>1 DEF Request, BeginOpen, BeginClose, BeginEdit, BeginToggle,
       BeginCapital, BeginRefresh, EditStep, SaveRow, SetCapital, RecordCapital,
       KeepsClosed
<1>2. ASSUME NEW c \in Callers, OpenStep(c) PROVE KeepsClosed
  <2>1. ASSUME NEW t \in Trades, InsertTrade(c, t) PROVE KeepsClosed
    BY <2>1 DEF InsertTrade, KeepsClosed, TypeOK
  <2>2. CASE SyncOpened(c)
    \* OneOpener: the row this step writes does not exist yet.
    BY <2>2 DEF SyncOpened, KeepsClosed, WriteInv, TasksKnowTheirTrade,
                OneOpener, EnteredSteps, At, TypeOK
  <2> QED
    BY <1>2, <2>1, <2>2 DEF OpenStep, CountOpen, LookupSame, RefuseEntry,
       SaveEntryOrder, BookOutlay, ChargeEntry, RecordOpen, KeepsClosed
<1>3. ASSUME NEW c \in Callers, CloseStep(c) PROVE KeepsClosed
  <2>1. CASE SaveClosedTrade(c)
    BY <2>1 DEF SaveClosedTrade, KeepsClosed, TypeOK, TradeRows
  <2>2. CASE SyncClosed(c)
    BY <2>2 DEF SyncClosed, KeepsClosed, TypeOK
  <2> QED
    BY <1>3, <2>1, <2>2 DEF CloseStep, SaveExitOrder, ReleaseOutlay,
       RecordClose, KeepsClosed
<1>4. CASE Crash
  BY <1>4 DEF Crash, KeepsClosed
<1> QED
  BY <1>1, <1>2, <1>3, <1>4 DEF Next

\* A closed trade stays closed under every interleaving of the requests, and a
\* closed position row does unless a refresh that overlapped the close saves it.
THEOREM ClosedForGood == Spec => ClosedStaysClosed
<1>1. TypeOK /\ WriteInv /\ [Next]_vars
        => [\A t \in Trades :
              /\ trade[t].status = "CLOSED" => trade'[t].status = "CLOSED"
              /\ position[t] = "CLOSED" =>
                   position'[t] = "CLOSED" \/ RefreshPending(t)]_vars
  BY StepKeepsClosed DEF KeepsClosed
<1> QED
  BY <1>1, TypeCorrect, InitWrites, StepWrites, PTL
     DEF Spec, ClosedStaysClosed

-----------------------------------------------------------------------------
(* How far concurrent entries exceed the position limit *)

LEMMA AdmittedIsFinite ==
  /\ IsFiniteSet(Admitted) /\ Cardinality(Admitted) \in Nat
  /\ Cardinality(Admitted) <= Cardinality(Callers)
  /\ Cardinality(Callers) \in Nat /\ Cardinality(Callers) > 0
<1>1. Admitted \subseteq Callers
  BY DEF Admitted
<1>2. IsFiniteSet(Callers) /\ Callers # {}
  BY DeskAssumption
<1>3. /\ IsFiniteSet(Admitted) /\ Cardinality(Admitted) <= Cardinality(Callers)
  BY <1>1, <1>2, FS_Subset
<1>4. Cardinality(Callers) \in Nat /\ Cardinality(Callers) # 0
  BY <1>2, FS_CardinalityType, FS_EmptySet
<1> QED
  BY <1>3, <1>4, FS_CardinalityType

\* A step that opens no trade and admits no caller keeps the bound.
LEMMA ShrinkingKeeps ==
  ASSUME AdmissionInv, OpenTrades' \subseteq OpenTrades, Admitted' \subseteq Admitted
  PROVE  AdmissionInv'
<1>1. Cardinality(OpenTrades') <= Cardinality(OpenTrades)
        /\ Cardinality(OpenTrades') \in Nat
  BY OpenCountIsNat, FS_Subset, FS_CardinalityType
<1>2. Cardinality(Admitted') <= Cardinality(Admitted)
        /\ Cardinality(Admitted') \in Nat
  BY AdmittedIsFinite, FS_Subset, FS_CardinalityType
<1>3. MaxOpen \in Nat
  BY DeskAssumption
<1> QED
  BY <1>1, <1>2, <1>3, OpenCountIsNat, AdmittedIsFinite
     DEF AdmissionInv, OpenCount

\* A caller whose next step is past the guards, or that is done, is not admitted.
LEMMA LeavingShrinks ==
  ASSUME TypeOK, NEW c \in Callers
  PROVE  /\ \A step \in Steps \ {"lookup", "insert"} :
              Goto(c, step) => Admitted' \subseteq Admitted
         /\ \A k \in Tasks : k.at \notin {"lookup", "insert"} /\ Start(c, k)
              => Admitted' \subseteq Admitted
         /\ Finish(c) => Admitted' \subseteq Admitted
<1>1. ASSUME NEW step \in Steps \ {"lookup", "insert"}, Goto(c, step)
      PROVE  Admitted' \subseteq Admitted
  BY <1>1 DEF Goto, Admitted, TypeOK, Tasks
<1>2. ASSUME NEW k \in Tasks, k.at \notin {"lookup", "insert"}, Start(c, k)
      PROVE  Admitted' \subseteq Admitted
  BY <1>2 DEF Start, Admitted, TypeOK
<1>3. ASSUME Finish(c)
      PROVE  Admitted' \subseteq Admitted
  BY <1>3 DEF Finish, Admitted, TypeOK, Idle
<1> QED
  BY <1>1, <1>2, <1>3

LEMMA RequestShrinks ==
  ASSUME TypeOK, NEW c \in Callers, Request(c)
  PROVE  OpenTrades' = OpenTrades /\ Admitted' \subseteq Admitted
<1>1. OpenTrades' = OpenTrades
  BY DEF Request, BeginOpen, BeginClose, BeginEdit, BeginToggle, BeginCapital,
     BeginRefresh, OpenTrades, WithStatus
<1>2. \A d \in Callers \ {c} : task'[d] = task[d]
  BY DEF Request, BeginOpen, BeginClose, BeginEdit, BeginToggle, BeginCapital,
     BeginRefresh, Start, TypeOK
<1>3. task'[c].at \notin {"lookup", "insert"}
  <2>1. ASSUME NEW i \in Instruments, NEW o \in Outlays, BeginOpen(c, i, o)
        PROVE  task'[c].at = "counting"
    BY <2>1 DEF BeginOpen, Start, TypeOK, Idle
  <2>2. ASSUME NEW t \in Trades, NEW g \in Grosses, BeginClose(c, t, g)
        PROVE  task'[c].at = "exitOrder"
    BY <2>2 DEF BeginClose, Start, TypeOK, Idle
  <2>3. ASSUME NEW k \in Capitals, BeginEdit(c, k)
        PROVE  task'[c].at = "saving"
    BY <2>3 DEF BeginEdit, Start, TypeOK, Idle
  <2>4. BeginToggle(c) => task'[c].at = "saving"
    BY DEF BeginToggle, Start, TypeOK, Idle
  <2>5. ASSUME NEW k \in Capitals, BeginCapital(c, k)
        PROVE  task'[c].at = "capital"
    BY <2>5 DEF BeginCapital, Start, TypeOK, Idle
  <2>6. BeginRefresh(c) => task'[c].at = "marking"
    BY DEF BeginRefresh, Start, TypeOK, Idle
  <2> QED
    BY <2>1, <2>2, <2>3, <2>4, <2>5, <2>6 DEF Request
<1> QED
  BY <1>1, <1>2, <1>3 DEF Admitted

LEMMA CountKeeps ==
  ASSUME TypeOK, AdmissionInv, NEW c \in Callers, CountOpen(c)
  PROVE  AdmissionInv'
<1>1. OpenTrades' = OpenTrades
  BY DEF CountOpen, OpenTrades, WithStatus
<1>2. CASE OpenCount < MaxOpen
  <2>1. Admitted' \subseteq Callers
    BY DEF Admitted
  <2>2. IsFiniteSet(Callers)
    BY DeskAssumption
  <2>3. Cardinality(Admitted') <= Cardinality(Callers) /\ Cardinality(Admitted') \in Nat
    BY <2>1, <2>2, FS_Subset, FS_CardinalityType
  <2>4. MaxOpen \in Nat
    BY DeskAssumption
  <2> QED
    BY <1>1, <1>2, <2>3, <2>4, OpenCountIsNat, AdmittedIsFinite
       DEF AdmissionInv, OpenCount
<1>3. CASE ~(OpenCount < MaxOpen)
  <2>1. Admitted' \subseteq Admitted
    BY <1>3 DEF CountOpen, Admitted, TypeOK
  <2> QED
    BY <1>1, <2>1, ShrinkingKeeps
<1> QED
  BY <1>2, <1>3

LEMMA InsertKeeps ==
  ASSUME TypeOK, AdmissionInv, NEW c \in Callers, NEW t \in Trades,
         InsertTrade(c, t)
  PROVE  AdmissionInv'
<1>1. c \in Admitted /\ Admitted' = Admitted \ {c}
  BY DEF InsertTrade, EntryAllowed, Admitted, At, TypeOK
<1>2. t \notin OpenTrades /\ OpenTrades' = OpenTrades \cup {t}
  BY DEF InsertTrade, OpenTrades, WithStatus, TypeOK
<1>3. Cardinality(Admitted') = Cardinality(Admitted) - 1
  BY <1>1, AdmittedIsFinite, FS_RemoveElement
<1>4. Cardinality(OpenTrades') = Cardinality(OpenTrades) + 1
  BY <1>2, OpenCountIsNat, FS_AddElement
<1>5. MaxOpen \in Nat
  BY DeskAssumption
<1> QED
  BY <1>3, <1>4, <1>5, OpenCountIsNat, AdmittedIsFinite
     DEF AdmissionInv, OpenCount

LEMMA InitAdmission == Init => AdmissionInv
<1> SUFFICES ASSUME Init PROVE AdmissionInv
  OBVIOUS
<1>1. OpenTrades = {} /\ Admitted = {}
  BY DEF Init, OpenTrades, WithStatus, NoTrade, Admitted, Idle
<1>2. Cardinality({}) = 0
  BY FS_EmptySet
<1>3. MaxOpen \in Nat \ {0}
  BY DeskAssumption
<1> QED
  BY <1>1, <1>2, <1>3, AdmittedIsFinite DEF AdmissionInv, OpenCount

LEMMA StepAdmission == TypeOK /\ AdmissionInv /\ [Next]_vars => AdmissionInv'
<1> SUFFICES ASSUME TypeOK, AdmissionInv, [Next]_vars PROVE AdmissionInv'
  OBVIOUS
<1>1. ASSUME NEW c \in Callers, Request(c) \/ EditStep(c) PROVE AdmissionInv'
  <2>1. EditStep(c) => OpenTrades' = OpenTrades
    BY DEF EditStep, SaveRow, SetCapital, RecordCapital, MarkPosition,
       OpenTrades, WithStatus
  <2>2. SaveRow(c) \/ RecordCapital(c) => Admitted' \subseteq Admitted
    BY LeavingShrinks DEF SaveRow, RecordCapital
  <2>3. SetCapital(c) => Admitted' \subseteq Admitted
    BY LeavingShrinks DEF SetCapital, Steps, EditSteps
  <2>4. ASSUME NEW t \in Trades, MarkPosition(c, t)
        PROVE  Admitted' \subseteq Admitted
    BY <2>4 DEF MarkPosition, Admitted, At, Idle, TypeOK
  <2> QED
    BY <1>1, <2>1, <2>2, <2>3, <2>4, RequestShrinks, ShrinkingKeeps DEF EditStep
<1>2. ASSUME NEW c \in Callers, OpenStep(c) PROVE AdmissionInv'
  <2>1. LookupSame(c) => OpenTrades' = OpenTrades /\ Admitted' \subseteq Admitted
    BY DEF LookupSame, At, OpenTrades, WithStatus, Admitted, TypeOK
  <2>2. RefuseEntry(c) \/ SyncOpened(c)
          => OpenTrades' = OpenTrades /\ Admitted' \subseteq Admitted
    BY LeavingShrinks DEF RefuseEntry, SyncOpened, OpenTrades, WithStatus
  <2>3. SaveEntryOrder(c) \/ BookOutlay(c) \/ ChargeEntry(c) \/ RecordOpen(c)
          => OpenTrades' = OpenTrades /\ Admitted' \subseteq Admitted
    <3>1. {"deploy", "charge", "openEvent", "openPosition"}
            \subseteq Steps \ {"lookup", "insert"}
      BY DEF Steps, OpenSteps
    <3> QED
      BY <3>1, LeavingShrinks DEF SaveEntryOrder, BookOutlay, ChargeEntry,
         RecordOpen, OpenTrades, WithStatus
  <2> QED
    BY <1>2, <2>1, <2>2, <2>3, ShrinkingKeeps, CountKeeps, InsertKeeps
       DEF OpenStep
<1>3. ASSUME NEW c \in Callers, CloseStep(c) PROVE AdmissionInv'
  <2>1. SaveClosedTrade(c) => OpenTrades' \subseteq OpenTrades
    BY DEF SaveClosedTrade, OpenTrades, WithStatus, TypeOK, TradeRows
  <2>2. OpenTrades' \subseteq OpenTrades
    BY <1>3, <2>1 DEF CloseStep, SaveExitOrder, ReleaseOutlay, RecordClose,
       SyncClosed, OpenTrades, WithStatus
  <2>3. CloseSteps \subseteq Steps \ {"lookup", "insert"}
    BY DEF Steps, CloseSteps
  <2>4. Admitted' \subseteq Admitted
    BY <1>3, <2>3, LeavingShrinks DEF CloseStep, SaveExitOrder, CloseSteps,
       SaveClosedTrade, ReleaseOutlay, RecordClose, SyncClosed
  <2> QED
    BY <2>2, <2>4, ShrinkingKeeps
<1>4. CASE Crash
  BY <1>4, ShrinkingKeeps DEF Crash, Idle, OpenTrades, WithStatus, Admitted
<1>5. CASE UNCHANGED vars
  BY <1>5, ShrinkingKeeps DEF vars, OpenTrades, WithStatus, Admitted
<1> QED
  BY <1>1, <1>2, <1>3, <1>4, <1>5 DEF Next

\* However many callers and trades there are and wherever crashes fall, the open
\* trades exceed the limit by less than one trade per caller.
THEOREM ExposureBounded == Spec => []ExposureBound
<1>1. AdmissionInv => ExposureBound
  BY OpenCountIsNat, AdmittedIsFinite, DeskAssumption
     DEF AdmissionInv, ExposureBound
<1> QED
  BY <1>1, TypeCorrect, InitAdmission, StepAdmission, PTL DEF Spec

-----------------------------------------------------------------------------
(***************************************************************************)
(* One request at a time.  While nothing was disturbed only one caller is  *)
(* busy, and what holds of the desk is a fact about the step it is at.     *)
(***************************************************************************)

Lone(c) == \A d \in Callers \ {c} : ~Busy(d)

Reading  == {"counting", "lookup", "insert"}
Charging == {"entryOrder", "deploy", "charge"}
Unclosed == {"exitOrder", "closing"}
Closed   == {"release", "closeEvents", "closePosition"}

\* What caller k copied from the portfolio row, and what is still true of it.
CopyHolds(k) ==
  /\ account.capital \in Capitals /\ account.ceiling = account.capital
  /\ k.at \in Reading \cup {"entryOrder", "deploy", "exitOrder", "closing", "release"}
       => k.row = account
  /\ k.at = "charge" =>
       account = [k.row EXCEPT !.deployed = k.row.deployed + k.outlay,
                               !.openPositionCount = k.row.openPositionCount + 1]
  /\ k.at \in {"saving", "capital"} =>
       /\ k.row = [account EXCEPT !.capital = k.row.capital, !.ceiling = k.row.capital]
       /\ k.row.capital \in Capitals
  /\ k.at = "capitalEvent" => k.row.netPnl = account.netPnl
  /\ k.at \notin {"openEvent", "closeEvents"} => running = account.netPnl

\* An entry fits the row it read and respects the limits, from its count on.
EntryHolds(k) ==
  /\ k.at \in Reading \cup Charging =>
       /\ k.instrument \in Instruments /\ k.outlay \in Outlays
       /\ k.outlay <= k.row.ceiling - k.row.deployed
  /\ k.at = "counting" => ~k.same
  /\ k.at \in {"lookup", "insert"} => k.openCount = OpenCount
  /\ k.at = "insert" =>
       (k.same <=> \E t \in OpenTrades : trade[t].instrument = k.instrument)
  /\ k.at \in Charging => ~LossHit(k.row) /\ ~DrawdownHit(k.row)
  /\ k.at \in EnteredSteps =>
       /\ k.trade \in Trades /\ trade[k.trade].status = "OPEN"
       /\ trade[k.trade].instrument = k.instrument
       /\ trade[k.trade].outlay = k.outlay

ExitHolds(k) ==
  k.at \in CloseSteps =>
    /\ k.trade \in Trades /\ k.gross \in Grosses
    /\ trade[k.trade].outlay = k.outlay
    /\ k.at \in Unclosed => trade[k.trade].status = "OPEN"
    /\ k.at \in Closed =>
         /\ trade[k.trade].status = "CLOSED"
         /\ trade[k.trade].netPnl = k.gross - EntryCost - ExitCost
         /\ trade[k.trade].cost = EntryCost + ExitCost

EntryRules ==
  /\ OpenCount <= MaxOpen
  /\ \A s, t \in OpenTrades : trade[s].instrument = trade[t].instrument => s = t

\* Every position row tells the status of its trade, except that of the trade
\* whose request has not come to its last step.
MirrorHolds(k) ==
  /\ \A t \in Trades :
       position[t] = CASE k.at \in EnteredSteps /\ t = k.trade -> "NONE"
                       [] k.at \in Closed /\ t = k.trade -> "OPEN"
                       [] OTHER -> trade[t].status
  /\ k.at = "marking" => \A t \in k.marks : position[t] = "OPEN"

\* The trades the row counts as held and as settled while k is under way.
HeldBy(k)    == (OpenTrades \ (IF k.at \in Charging THEN {k.trade} ELSE {}))
                  \cup (IF k.at = "release" THEN {k.trade} ELSE {})
SettledBy(k) == WithStatus("CLOSED") \ (IF k.at = "release" THEN {k.trade} ELSE {})

TotalsHold(k) ==
  /\ account.deployed = SumFunctionOnSet(OutlayOf, HeldBy(k))
                          + (IF k.at = "charge" THEN k.outlay ELSE 0)
  /\ account.openPositionCount = Cardinality(HeldBy(k))
                                   + (IF k.at = "charge" THEN 1 ELSE 0)
  /\ account.netPnl = SumFunctionOnSet(NetPnlOf, SettledBy(k))
                        - EntryCost * Cardinality(HeldBy(k))
  /\ account.totalCost = SumFunctionOnSet(CostOf, SettledBy(k))

RequestHolds(k) == CopyHolds(k) /\ EntryHolds(k) /\ ExitHolds(k)

Holds(c) == /\ Lone(c) /\ RequestHolds(task[c]) /\ EntryRules
            /\ MirrorHolds(task[c]) /\ TotalsHold(task[c])

Serial == ~disturbed => \E c \in Callers : Holds(c)

\* What the three ways to move on do to the record of the caller.
LEMMA After ==
  ASSUME TypeOK, NEW c \in Callers
  PROVE  /\ \A step : Goto(c, step) =>
              /\ task'[c].at = step
              /\ task'[c].row = task[c].row /\ task'[c].trade = task[c].trade
              /\ task'[c].instrument = task[c].instrument
              /\ task'[c].outlay = task[c].outlay /\ task'[c].gross = task[c].gross
              /\ task'[c].marks = task[c].marks
              /\ \A d \in Callers \ {c} : task'[d] = task[d]
         /\ Finish(c) => /\ task'[c].at = "idle"
                         /\ \A d \in Callers \ {c} : task'[d] = task[d]
         /\ \A k : Start(c, k) => /\ task[c].at = "idle" /\ task'[c] = k
                                  /\ \A d \in Callers \ {c} : task'[d] = task[d]
                                  /\ ~disturbed' => Lone(c)
<1>1. ASSUME NEW step, Goto(c, step)
      PROVE  /\ task'[c].at = step
             /\ task'[c].row = task[c].row /\ task'[c].trade = task[c].trade
             /\ task'[c].instrument = task[c].instrument
             /\ task'[c].outlay = task[c].outlay /\ task'[c].gross = task[c].gross
             /\ task'[c].marks = task[c].marks
             /\ \A d \in Callers \ {c} : task'[d] = task[d]
  BY <1>1 DEF Goto, TypeOK, Tasks
<1>2. Finish(c) => /\ task'[c].at = "idle"
                   /\ \A d \in Callers \ {c} : task'[d] = task[d]
  BY DEF Finish, TypeOK, Idle
<1>3. ASSUME NEW k, Start(c, k)
      PROVE  /\ task[c].at = "idle" /\ task'[c] = k
             /\ \A d \in Callers \ {c} : task'[d] = task[d]
             /\ ~disturbed' => Lone(c)
  BY <1>3 DEF Start, TypeOK, Busy, Quiescent, Lone
<1> QED
  BY <1>1, <1>2, <1>3

LEMMA LoneKept ==
  ASSUME NEW c, Lone(c), \A d \in Callers \ {c} : task'[d] = task[d]
  PROVE  Lone(c)'
BY DEF Lone, Busy

LEMMA RulesKept == EntryRules /\ trade' = trade => EntryRules'
BY DEF EntryRules, OpenCount, OpenTrades, WithStatus

\* A step between two others that the row and the trades do not tell apart.
LEMMA TotalsKept ==
  ASSUME NEW c, TotalsHold(task[c]), trade' = trade,
         account'.deployed = account.deployed, account'.netPnl = account.netPnl,
         account'.openPositionCount = account.openPositionCount,
         account'.totalCost = account.totalCost,
         \/ /\ task[c].at \notin Charging \cup {"release"}
            /\ task'[c].at \notin Charging \cup {"release"}
         \/ /\ task[c].at \in {"entryOrder", "deploy"}
            /\ task'[c].at \in {"entryOrder", "deploy"}
            /\ task'[c].trade = task[c].trade
  PROVE  TotalsHold(task[c])'
<1>1. /\ OpenTrades' = OpenTrades
      /\ WithStatus("CLOSED")' = WithStatus("CLOSED")
      /\ OutlayOf' = OutlayOf /\ NetPnlOf' = NetPnlOf /\ CostOf' = CostOf
  BY DEF OpenTrades, WithStatus, OutlayOf, NetPnlOf, CostOf
<1>2. /\ HeldBy(task[c])' = HeldBy(task[c]) /\ SettledBy(task[c])' = SettledBy(task[c])
      /\ task[c].at # "charge" /\ task'[c].at # "charge"
  BY <1>1 DEF HeldBy, SettledBy, Charging
<1> QED
  BY <1>1, <1>2 DEF TotalsHold

LEMMA MirrorKept ==
  ASSUME NEW c, MirrorHolds(task[c]), trade' = trade, position' = position,
         \/ /\ task[c].at \notin EnteredSteps \cup Closed
            /\ task'[c].at \notin EnteredSteps \cup Closed
         \/ /\ task[c].at \in EnteredSteps /\ task'[c].at \in EnteredSteps
            /\ task'[c].trade = task[c].trade
         \/ /\ task[c].at \in Closed /\ task'[c].at \in Closed
            /\ task'[c].trade = task[c].trade,
         task'[c].at = "marking" =>
           task[c].at \notin EnteredSteps \cup Closed /\ task'[c].marks \subseteq Held
  PROVE  MirrorHolds(task[c])'
BY DEF MirrorHolds, Held, EnteredSteps, Closed

LEMMA RequestSerial ==
  ASSUME TypeOK, NEW c \in Callers, Request(c), ~disturbed', Holds(c)
  PROVE  Holds(c)'
<1> DEFINE k == task[c]
           Begun ==
             /\ UNCHANGED <<account, trade, position, running>>
             /\ Lone(c) /\ Lone(c)' /\ k.at = "idle"
             /\ task'[c].at \in {"counting", "exitOrder", "saving", "capital",
                                 "marking"}
             /\ task'[c].at = "marking" => task'[c].marks \subseteq Held
             /\ RequestHolds(task[c])'
<1>0. /\ account \in Rows
      /\ RequestHolds(k) /\ EntryRules /\ MirrorHolds(k) /\ TotalsHold(k)
  BY DEF TypeOK, Holds
<1>1. Begun
  <2>0. account.capital \in Capitals /\ account.ceiling = account.capital
          /\ running = account.netPnl
    <3>1. k.at = "idle"
      BY After DEF Request, BeginOpen, BeginClose, BeginEdit, BeginToggle, BeginCapital,
                   BeginRefresh
    <3> QED
      BY <1>0, <3>1 DEF RequestHolds, CopyHolds
  <2> USE DEF RequestHolds, CopyHolds, EntryHolds, ExitHolds, Reading, Charging,
              EnteredSteps, CloseSteps, Unclosed, Closed
  <2>1. ASSUME NEW i \in Instruments, NEW o \in Outlays, BeginOpen(c, i, o) PROVE Begun
    <3>1. /\ task'[c].at = "counting" /\ task'[c].row = account
          /\ task'[c].instrument = i /\ task'[c].outlay = o /\ ~task'[c].same
      <4> DEFINE r == [Idle EXCEPT !.at = "counting", !.row = account,
                               !.instrument = i, !.outlay = o]
      <4>1. Start(c, r)
        BY <2>1 DEF BeginOpen
      <4>2. task'[c] = r
        <5> HIDE DEF r
        <5> QED
          BY <4>1, After
      <4> QED
        BY <4>2 DEF Idle
    <3> QED
      BY <2>0, <2>1, <3>1, After, LoneKept DEF BeginOpen
  <2>2. ASSUME NEW t \in Trades, NEW g \in Grosses, BeginClose(c, t, g) PROVE Begun
    <3>1. /\ task'[c].at = "exitOrder" /\ task'[c].row = account
          /\ task'[c].trade = t /\ task'[c].outlay = trade[t].outlay
          /\ task'[c].gross = g
      <4> DEFINE r == [Idle EXCEPT !.at = "exitOrder", !.row = account, !.trade = t,
                               !.outlay = trade[t].outlay, !.gross = g]
      <4>1. Start(c, r)
        BY <2>2 DEF BeginClose
      <4>2. task'[c] = r
        <5> HIDE DEF r
        <5> QED
          BY <4>1, After
      <4> QED
        BY <4>2 DEF Idle
    <3> QED
      BY <2>0, <2>2, <3>1, After, LoneKept DEF BeginClose
  <2>3. ASSUME NEW n \in Capitals, BeginEdit(c, n) PROVE Begun
    <3>1. /\ task'[c].at = "saving"
          /\ task'[c].row = [account EXCEPT !.capital = n, !.ceiling = n]
      <4> DEFINE r == [Idle EXCEPT !.at = "saving",
                     !.row = [account EXCEPT !.capital = n, !.ceiling = n]]
      <4>1. Start(c, r)
        BY <2>3 DEF BeginEdit
      <4>2. task'[c] = r
        <5> HIDE DEF r
        <5> QED
          BY <4>1, After
      <4> QED
        BY <4>2 DEF Idle
    <3>2. task'[c].row.capital = n
      BY <1>0, <3>1 DEF Rows
    <3> QED
      BY <2>0, <2>3, <3>1, <3>2, After, LoneKept DEF BeginEdit
  <2>4. ASSUME BeginToggle(c) PROVE Begun
    <3>1. task'[c].at = "saving" /\ task'[c].row = account
      <4> DEFINE r == [Idle EXCEPT !.at = "saving", !.row = account]
      <4>1. Start(c, r)
        BY <2>4 DEF BeginToggle
      <4>2. task'[c] = r
        <5> HIDE DEF r
        <5> QED
          BY <4>1, After
      <4> QED
        BY <4>2 DEF Idle
    <3>2. account = [account EXCEPT !.capital = account.capital,
                                    !.ceiling = account.capital]
      BY <1>0, <2>0 DEF Rows
    <3> QED
      BY <2>0, <2>4, <3>1, <3>2, After, LoneKept DEF BeginToggle
  <2>5. ASSUME NEW n \in Capitals, BeginCapital(c, n) PROVE Begun
    <3>1. /\ task'[c].at = "capital"
          /\ task'[c].row = [account EXCEPT !.capital = n, !.ceiling = n]
      <4> DEFINE r == [Idle EXCEPT !.at = "capital",
                     !.row = [account EXCEPT !.capital = n, !.ceiling = n]]
      <4>1. Start(c, r)
        BY <2>5 DEF BeginCapital
      <4>2. task'[c] = r
        <5> HIDE DEF r
        <5> QED
          BY <4>1, After
      <4> QED
        BY <4>2 DEF Idle
    <3>2. task'[c].row.capital = n
      BY <1>0, <3>1 DEF Rows
    <3> QED
      BY <2>0, <2>5, <3>1, <3>2, After, LoneKept DEF BeginCapital
  <2>6. ASSUME BeginRefresh(c) PROVE Begun
    <3>1. task'[c].at = "marking" /\ task'[c].marks = Held
      <4> DEFINE r == [Idle EXCEPT !.at = "marking", !.marks = Held]
      <4>1. Start(c, r)
        BY <2>6 DEF BeginRefresh
      <4>2. task'[c] = r
        <5> HIDE DEF r
        <5> QED
          BY <4>1, After
      <4> QED
        BY <4>2 DEF Idle
    <3> QED
      BY <2>0, <2>6, <3>1, After, LoneKept DEF BeginRefresh
  <2> QED
    BY <2>1, <2>2, <2>3, <2>4, <2>5, <2>6 DEF Request
<1>2. EntryRules'
  BY <1>0, <1>1, RulesKept
<1>3. MirrorHolds(task[c])'
  BY <1>0, <1>1, MirrorKept DEF EnteredSteps, Closed
<1>4. TotalsHold(task[c])'
  BY <1>0, <1>1, TotalsKept DEF Charging
<1> QED
  BY <1>1, <1>2, <1>3, <1>4 DEF Holds

\* The steps of openTrade that write neither the trades nor the row.
LEMMA QuietOpenSerial ==
  ASSUME TypeOK, NEW c \in Callers, Holds(c),
         \/ CountOpen(c) \/ LookupSame(c) \/ RefuseEntry(c) \/ SaveEntryOrder(c)
         \/ RecordOpen(c)
  PROVE  Holds(c)'
<1> DEFINE Quiet ==
             /\ UNCHANGED <<account, trade, position>>
             /\ \A d \in Callers \ {c} : task'[d] = task[d]
             /\ task'[c].at # "marking"
             /\ \/ /\ task[c].at \in Reading
                   /\ task'[c].at \in Reading \cup {"idle"}
                \/ /\ task[c].at = "entryOrder" /\ task'[c].at = "deploy"
                   /\ task'[c].trade = task[c].trade
                \/ /\ task[c].at = "openEvent" /\ task'[c].at = "openPosition"
                   /\ task'[c].trade = task[c].trade
             /\ RequestHolds(task[c])'
<1>0. /\ Lone(c) /\ RequestHolds(task[c]) /\ EntryRules /\ MirrorHolds(task[c])
      /\ TotalsHold(task[c])
  BY DEF Holds
<1>1. Quiet
  <2> USE DEF At, CopyHolds, EntryHolds, ExitHolds, Reading, Charging,
              EnteredSteps, CloseSteps, Unclosed, Closed, RequestHolds
  <2>1. CASE CountOpen(c)
    <3>1. /\ task[c].at = "counting"
          /\ task'[c].at = IF OpenCount > 0 THEN "lookup" ELSE "insert"
          /\ task'[c].openCount = OpenCount
          /\ task'[c].row = task[c].row /\ task'[c].outlay = task[c].outlay
          /\ task'[c].instrument = task[c].instrument
          /\ task'[c].same = task[c].same
          /\ \A d \in Callers \ {c} : task'[d] = task[d]
      BY <2>1 DEF CountOpen, TypeOK, Tasks
    <3>2. OpenCount' = OpenCount /\ OpenTrades' = OpenTrades
      BY <2>1 DEF CountOpen, OpenCount, OpenTrades, WithStatus
    <3>3. OpenTrades = {} \/ OpenCount > 0
      BY OpenCountIsNat, FS_EmptySet DEF OpenCount
    <3>4. ~task'[c].same /\ (task'[c].at = "insert" => OpenTrades' = {})
      BY <1>0, <3>1, <3>2, <3>3
    <3>5. UNCHANGED <<account, trade, position, running>>
      BY <2>1 DEF CountOpen
    <3>6. task'[c].at \in {"lookup", "insert"}
      BY <3>1
    <3>7. CopyHolds(task[c])'
      BY <1>0, <3>1, <3>5, <3>6
    <3>8. EntryHolds(task[c])'
      BY <1>0, <3>1, <3>2, <3>4, <3>5, <3>6
    <3> QED
      BY <3>1, <3>5, <3>6, <3>7, <3>8
  <2>2. CASE LookupSame(c)
    <3> DEFINE b == \E t \in OpenTrades : trade[t].instrument = task[c].instrument
    <3>1. task' = [task EXCEPT ![c].at = "insert", ![c].same = b]
      BY <2>2 DEF LookupSame
    <3>2. /\ task[c].at = "lookup" /\ UNCHANGED <<account, trade, position, running>>
          /\ b \in BOOLEAN
      BY <2>2 DEF LookupSame
    <3>3. b' = (\E t \in OpenTrades : trade[t].instrument = task'[c].instrument)
      BY <3>2 DEF OpenTrades, WithStatus
    <3>4. OpenCount' = OpenCount /\ OpenTrades' = OpenTrades
      BY <3>2 DEF OpenCount, OpenTrades, WithStatus
    <3>5. task'[c].same = b
      <4> HIDE DEF b
      <4> QED
        BY <3>1 DEF TypeOK, Tasks
    <3>6. /\ task'[c].at = "insert"
          /\ task'[c].openCount = task[c].openCount
          /\ task'[c].row = task[c].row /\ task'[c].outlay = task[c].outlay
          /\ task'[c].instrument = task[c].instrument
          /\ \A d \in Callers \ {c} : task'[d] = task[d]
      <4> HIDE DEF b
      <4> QED
        BY <3>1 DEF TypeOK, Tasks
    <3>7. task'[c].same <=> \E t \in OpenTrades' :
                              trade'[t].instrument = task'[c].instrument
      BY <3>2, <3>4, <3>5, <3>6
    <3> QED
      BY <1>0, <3>2, <3>4, <3>6, <3>7
  <2>3. CASE RefuseEntry(c)
    BY <1>0, <2>3, After DEF RefuseEntry
  <2>4. CASE SaveEntryOrder(c)
    <3>1. UNCHANGED <<account, trade, position, running>> /\ task[c].at = "entryOrder"
      BY <2>4 DEF SaveEntryOrder
    <3>2. LossHit(task'[c].row) = LossHit(task[c].row)
            /\ DrawdownHit(task'[c].row) = DrawdownHit(task[c].row)
      BY <2>4, After DEF SaveEntryOrder
    <3> QED
      BY <1>0, <2>4, <3>1, <3>2, After DEF SaveEntryOrder
  <2>5. CASE RecordOpen(c)
    BY <1>0, <2>5, After DEF RecordOpen
  <2> QED
    BY <2>1, <2>2, <2>3, <2>4, <2>5
<1>2. MirrorHolds(task[c])'
  BY <1>0, <1>1, MirrorKept DEF EnteredSteps, Closed, Reading
<1>3. TotalsHold(task[c])'
  BY <1>0, <1>1, TotalsKept DEF Charging, Reading
<1> QED
  BY <1>0, <1>1, <1>2, <1>3, LoneKept, RulesKept DEF Holds

\* The insertion: the guards it passed are those of the trades on record now.
LEMMA InsertSerial ==
  ASSUME TypeOK, NEW c \in Callers, NEW t \in Trades, Holds(c), InsertTrade(c, t)
  PROVE  Holds(c)'
<1>0. /\ Lone(c) /\ RequestHolds(task[c]) /\ EntryRules /\ MirrorHolds(task[c])
      /\ TotalsHold(task[c]) /\ task[c].at = "insert" /\ EntryAllowed(task[c])
      /\ trade[t].status = "NONE"
  BY DEF Holds, InsertTrade, At
<1>1. /\ UNCHANGED <<account, position, running>>
      /\ \A d \in Callers \ {c} : task'[d] = task[d]
      /\ task'[c] = [task[c] EXCEPT !.at = "entryOrder", !.trade = t]
      /\ task'[c].at = "entryOrder" /\ task'[c].trade = t
      /\ task'[c].row = task[c].row /\ task'[c].outlay = task[c].outlay
      /\ task'[c].instrument = task[c].instrument
  BY DEF InsertTrade, TypeOK, Tasks
<1>2. /\ \A s \in Trades \ {t} : trade'[s] = trade[s]
      /\ trade'[t].status = "OPEN" /\ trade'[t].outlay = task[c].outlay
      /\ trade'[t].instrument = task[c].instrument
  BY DEF InsertTrade, TypeOK
<1>3. /\ OpenTrades' = OpenTrades \cup {t} /\ t \notin OpenTrades
      /\ WithStatus("CLOSED")' = WithStatus("CLOSED") /\ t \notin WithStatus("CLOSED")
  BY <1>0, <1>2 DEF OpenTrades, WithStatus
<1>4. RequestHolds(task[c])'
  <2>1. LossHit(task[c].row)' = LossHit(task[c].row)
          /\ DrawdownHit(task[c].row)' = DrawdownHit(task[c].row)
    BY <1>1 DEF LossHit, DrawdownHit, Equity, PassedPeak
  <2> QED
    BY <1>0, <1>1, <1>2, <2>1
    DEF RequestHolds, CopyHolds, EntryHolds, ExitHolds, Reading, Charging,
        EnteredSteps, CloseSteps, EntryAllowed
<1>5. EntryRules'
  <2>1. OpenCount' = OpenCount + 1
    BY <1>3, OpenCountIsNat, FS_AddElement DEF OpenCount
  <2>2. OpenCount < MaxOpen /\ \A s \in OpenTrades : trade[s].instrument # task[c].instrument
    BY <1>0 DEF RequestHolds, EntryHolds, EntryAllowed
  <2>3. OpenCount' <= MaxOpen
    BY <2>1, <2>2, OpenCountIsNat, DeskAssumption
  <2>4. \A s \in OpenTrades : s \in Trades \ {t}
    BY <1>3 DEF OpenTrades, WithStatus
  <2> QED
    BY <1>0, <1>2, <1>3, <2>2, <2>3, <2>4 DEF EntryRules
<1>6. MirrorHolds(task[c])'
  BY <1>0, <1>1, <1>2 DEF MirrorHolds, EnteredSteps, Closed
<1>7. TotalsHold(task[c])'
  <2>1. HeldBy(task[c])' = HeldBy(task[c]) /\ SettledBy(task[c])' = SettledBy(task[c])
    BY <1>0, <1>1, <1>3 DEF HeldBy, SettledBy, Charging
  <2>2. /\ HeldBy(task[c]) \subseteq Trades \ {t} /\ SettledBy(task[c]) \subseteq Trades \ {t}
        /\ IsFiniteSet(HeldBy(task[c])) /\ IsFiniteSet(SettledBy(task[c]))
    <3>1. HeldBy(task[c]) \subseteq Trades \ {t} /\ SettledBy(task[c]) \subseteq Trades \ {t}
      BY <1>0, <1>3 DEF HeldBy, SettledBy, Charging, OpenTrades, WithStatus
    <3> QED
      BY <3>1, DeskAssumption, FS_Subset
  <2>3. \A s \in Trades \ {t} : /\ OutlayOf'[s] = OutlayOf[s]
                                /\ NetPnlOf'[s] = NetPnlOf[s] /\ CostOf'[s] = CostOf[s]
    BY <1>2 DEF OutlayOf, NetPnlOf, CostOf
  <2>4. /\ SumFunctionOnSet(OutlayOf', HeldBy(task[c])) = SumFunctionOnSet(OutlayOf, HeldBy(task[c]))
        /\ SumFunctionOnSet(NetPnlOf', SettledBy(task[c])) = SumFunctionOnSet(NetPnlOf, SettledBy(task[c]))
        /\ SumFunctionOnSet(CostOf', SettledBy(task[c])) = SumFunctionOnSet(CostOf, SettledBy(task[c]))
    BY <2>2, <2>3, SumAgrees
  <2> QED
    BY <1>0, <1>1, <2>1, <2>4 DEF TotalsHold
<1> QED
  BY <1>0, <1>1, <1>4, <1>5, <1>6, <1>7, LoneKept DEF Holds

LEMMA TotalsFacts ==
  ASSUME TypeOK, NEW c \in Callers, RequestHolds(task[c])
  PROVE  /\ HeldBy(task[c]) \subseteq Trades /\ SettledBy(task[c]) \subseteq Trades
         /\ IsFiniteSet(HeldBy(task[c])) /\ IsFiniteSet(SettledBy(task[c]))
         /\ Cardinality(HeldBy(task[c])) \in Nat
         /\ \A t \in Trades : /\ OutlayOf[t] = trade[t].outlay /\ OutlayOf[t] \in Nat
                              /\ NetPnlOf[t] = trade[t].netPnl /\ NetPnlOf[t] \in Int
                              /\ CostOf[t] = trade[t].cost /\ CostOf[t] \in Nat
         /\ SumFunctionOnSet(OutlayOf, HeldBy(task[c])) \in Nat
         /\ SumFunctionOnSet(NetPnlOf, SettledBy(task[c])) \in Int
         /\ SumFunctionOnSet(CostOf, SettledBy(task[c])) \in Nat
         /\ EntryCost \in Nat /\ ExitCost \in Nat
<1>1. /\ HeldBy(task[c]) \subseteq Trades /\ SettledBy(task[c]) \subseteq Trades
  BY DEF HeldBy, SettledBy, OpenTrades, WithStatus, RequestHolds, EntryHolds,
         ExitHolds, Charging, EnteredSteps, CloseSteps
<1>2. IsFiniteSet(HeldBy(task[c])) /\ IsFiniteSet(SettledBy(task[c]))
  BY <1>1, DeskAssumption, FS_Subset
<1>3. \A t \in Trades : /\ OutlayOf[t] = trade[t].outlay /\ OutlayOf[t] \in Nat
                        /\ NetPnlOf[t] = trade[t].netPnl /\ NetPnlOf[t] \in Int
                        /\ CostOf[t] = trade[t].cost /\ CostOf[t] \in Nat
  BY DEF TypeOK, TradeRows, OutlayOf, NetPnlOf, CostOf
<1>4. /\ SumFunctionOnSet(OutlayOf, HeldBy(task[c])) \in Nat
      /\ SumFunctionOnSet(CostOf, SettledBy(task[c])) \in Nat
  BY <1>1, <1>2, <1>3, SumIsNat
<1>5. SumFunctionOnSet(NetPnlOf, SettledBy(task[c])) \in Int
  BY <1>1, <1>2, <1>3, SumRemove
<1> QED
  BY <1>1, <1>2, <1>3, <1>4, <1>5, FS_CardinalityType, DeskAssumption

LEMMA BookOutlaySerial ==
  ASSUME TypeOK, NEW c \in Callers, Holds(c), BookOutlay(c)
  PROVE  Holds(c)'
<1>0. /\ Lone(c) /\ RequestHolds(task[c]) /\ EntryRules /\ MirrorHolds(task[c])
      /\ TotalsHold(task[c]) /\ task[c].at = "deploy" /\ task[c].row = account
      /\ account \in Rows /\ task[c].outlay \in Nat
  BY TaskFields DEF Holds, BookOutlay, At, RequestHolds, CopyHolds, TypeOK
<1>1. /\ UNCHANGED <<trade, position, running>> /\ task'[c].at = "charge"
      /\ task'[c].row = task[c].row /\ task'[c].trade = task[c].trade
      /\ task'[c].instrument = task[c].instrument /\ task'[c].outlay = task[c].outlay
      /\ \A d \in Callers \ {c} : task'[d] = task[d]
      /\ account' = [task[c].row EXCEPT
                       !.deployed = task[c].row.deployed + task[c].outlay,
                       !.openPositionCount = task[c].row.openPositionCount + 1]
  BY <1>0, After DEF BookOutlay
<1>2. /\ account'.capital = account.capital /\ account'.ceiling = account.ceiling
      /\ account'.netPnl = account.netPnl /\ account'.totalCost = account.totalCost
      /\ account'.deployed = account.deployed + task[c].outlay
      /\ account'.openPositionCount = account.openPositionCount + 1
  BY <1>0, <1>1 DEF Rows
<1>3. RequestHolds(task[c])'
  <2>1. LossHit(task[c].row)' = LossHit(task[c].row)
          /\ DrawdownHit(task[c].row)' = DrawdownHit(task[c].row)
    BY <1>1 DEF LossHit, DrawdownHit, Equity, PassedPeak
  <2>2. CopyHolds(task[c])'
    BY <1>0, <1>1, <1>2 DEF RequestHolds, CopyHolds, Reading
  <2>3. EntryHolds(task[c])' /\ ExitHolds(task[c])'
    BY <1>0, <1>1, <2>1 DEF RequestHolds, EntryHolds, ExitHolds, Reading, Charging,
                            EnteredSteps, CloseSteps
  <2> QED
    BY <2>2, <2>3 DEF RequestHolds
<1>4. MirrorHolds(task[c])'
  BY <1>0, <1>1, MirrorKept DEF EnteredSteps, Closed
<1>5. TotalsHold(task[c])'
  <2>1. /\ HeldBy(task[c])' = HeldBy(task[c]) /\ SettledBy(task[c])' = SettledBy(task[c])
        /\ OutlayOf' = OutlayOf /\ NetPnlOf' = NetPnlOf /\ CostOf' = CostOf
    BY <1>0, <1>1 DEF HeldBy, SettledBy, Charging, OpenTrades, WithStatus, OutlayOf,
                      NetPnlOf, CostOf
  <2> QED
    BY <1>0, <1>1, <1>2, <2>1, TotalsFacts DEF TotalsHold
<1> QED
  BY <1>0, <1>1, <1>3, <1>4, <1>5, LoneKept, RulesKept DEF Holds

LEMMA ChargeSerial ==
  ASSUME TypeOK, NEW c \in Callers, Holds(c), ChargeEntry(c)
  PROVE  Holds(c)'
<1> DEFINE t == task[c].trade
<1>0. /\ Lone(c) /\ RequestHolds(task[c]) /\ EntryRules /\ MirrorHolds(task[c])
      /\ TotalsHold(task[c]) /\ task[c].at = "charge"
      /\ account \in Rows /\ task[c].row \in Rows /\ EntryCost \in Nat
      /\ account = [task[c].row EXCEPT
                      !.deployed = task[c].row.deployed + task[c].outlay,
                      !.openPositionCount = task[c].row.openPositionCount + 1]
      /\ t \in Trades /\ trade[t].status = "OPEN" /\ trade[t].outlay = task[c].outlay
  BY TaskFields, DeskAssumption
  DEF Holds, ChargeEntry, At, RequestHolds, CopyHolds, EntryHolds, EnteredSteps, TypeOK
<1>1. /\ UNCHANGED <<trade, position, running>> /\ task'[c].at = "openEvent"
      /\ task'[c].trade = t
      /\ task'[c].instrument = task[c].instrument /\ task'[c].outlay = task[c].outlay
      /\ \A d \in Callers \ {c} : task'[d] = task[d]
      /\ account' = [account EXCEPT !.netPnl = task[c].row.netPnl - EntryCost]
  BY <1>0, After DEF ChargeEntry
<1>2. /\ account'.capital = account.capital /\ account'.ceiling = account.ceiling
      /\ account'.netPnl = account.netPnl - EntryCost
      /\ account'.totalCost = account.totalCost /\ account'.deployed = account.deployed
      /\ account'.openPositionCount = account.openPositionCount
  BY <1>0, <1>1 DEF Rows
<1>3. RequestHolds(task[c])'
  BY <1>0, <1>1, <1>2
  DEF RequestHolds, CopyHolds, EntryHolds, ExitHolds, Reading, Charging,
      EnteredSteps, CloseSteps
<1>4. MirrorHolds(task[c])'
  BY <1>0, <1>1, MirrorKept DEF EnteredSteps, Closed
<1>5. TotalsHold(task[c])'
  <2> HIDE DEF t
  <2>1. /\ HeldBy(task[c])' = HeldBy(task[c]) \cup {t} /\ t \notin HeldBy(task[c])
        /\ SettledBy(task[c])' = SettledBy(task[c])
        /\ OutlayOf' = OutlayOf /\ NetPnlOf' = NetPnlOf /\ CostOf' = CostOf
    BY <1>0, <1>1 DEF HeldBy, SettledBy, Charging, OpenTrades, WithStatus, OutlayOf,
                      NetPnlOf, CostOf, t
  <2>2. /\ IsFiniteSet(HeldBy(task[c])) /\ Cardinality(HeldBy(task[c])) \in Nat
        /\ \A s \in HeldBy(task[c]) \cup {t} : OutlayOf[s] \in Int
        /\ OutlayOf[t] = task[c].outlay
    BY <1>0, TotalsFacts
  <2>3. SumFunctionOnSet(OutlayOf, HeldBy(task[c]) \cup {t})
          = SumFunctionOnSet(OutlayOf, HeldBy(task[c])) + task[c].outlay
    BY <2>1, <2>2, SumAdd
  <2>4. Cardinality(HeldBy(task[c]) \cup {t}) = Cardinality(HeldBy(task[c])) + 1
    BY <2>1, <2>2, FS_AddElement
  <2>5. EntryCost * (Cardinality(HeldBy(task[c])) + 1)
          = EntryCost * Cardinality(HeldBy(task[c])) + EntryCost
    BY <1>0, <2>2
  <2>6. EntryCost * Cardinality(HeldBy(task[c])) \in Int
    BY <1>0, <2>2
  <2> QED
    BY <1>0, <1>1, <1>2, <2>1, <2>3, <2>4, <2>5, <2>6, TotalsFacts DEF TotalsHold
<1> QED
  BY <1>0, <1>1, <1>3, <1>4, <1>5, LoneKept, RulesKept DEF Holds

LEMMA SyncOpenedSerial ==
  ASSUME TypeOK, NEW c \in Callers, Holds(c), SyncOpened(c)
  PROVE  Holds(c)'
<1>0. /\ Lone(c) /\ RequestHolds(task[c]) /\ EntryRules /\ MirrorHolds(task[c])
      /\ TotalsHold(task[c]) /\ task[c].at = "openPosition"
      /\ task[c].trade \in Trades /\ trade[task[c].trade].status = "OPEN"
  BY DEF Holds, SyncOpened, At, RequestHolds, EntryHolds, EnteredSteps
<1>1. /\ UNCHANGED <<account, trade, running>> /\ task'[c].at = "idle"
      /\ \A d \in Callers \ {c} : task'[d] = task[d]
      /\ \A s \in Trades :
           position'[s] = IF s = task[c].trade THEN "OPEN" ELSE position[s]
  BY <1>0, After DEF SyncOpened, TypeOK
<1>2. RequestHolds(task[c])'
  BY <1>0, <1>1
  DEF RequestHolds, CopyHolds, EntryHolds, ExitHolds, Reading, Charging,
      EnteredSteps, CloseSteps
<1>3. MirrorHolds(task[c])'
  BY <1>0, <1>1 DEF MirrorHolds, EnteredSteps, Closed
<1>4. TotalsHold(task[c])'
  BY <1>0, <1>1, TotalsKept DEF Charging
<1> QED
  BY <1>0, <1>1, <1>2, <1>3, <1>4, LoneKept, RulesKept DEF Holds

\* The steps of closeTrade that write neither the trades nor the row.
LEMMA QuietCloseSerial ==
  ASSUME TypeOK, NEW c \in Callers, Holds(c),
         SaveExitOrder(c) \/ RecordClose(c) \/ SyncClosed(c)
  PROVE  Holds(c)'
<1>0. /\ Lone(c) /\ RequestHolds(task[c]) /\ EntryRules /\ MirrorHolds(task[c])
      /\ TotalsHold(task[c])
  BY DEF Holds
<1>1. UNCHANGED <<account, trade>> /\ \A d \in Callers \ {c} : task'[d] = task[d]
  BY After DEF SaveExitOrder, RecordClose, SyncClosed
<1>2. /\ task[c].at \in CloseSteps \ {"release"} /\ task[c].at \notin Charging
      /\ task'[c].at \in {"closing", "closePosition", "idle"}
  BY After DEF SaveExitOrder, RecordClose, SyncClosed, At, CloseSteps, Charging
<1>3. RequestHolds(task[c])' /\ MirrorHolds(task[c])'
  <2> USE DEF RequestHolds, CopyHolds, EntryHolds, ExitHolds, Reading, Charging,
              EnteredSteps, CloseSteps, Unclosed, Closed, At
  <2>1. CASE SaveExitOrder(c)
    BY <1>0, <2>1, After, MirrorKept DEF SaveExitOrder
  <2>2. CASE RecordClose(c)
    BY <1>0, <2>2, After, MirrorKept DEF RecordClose
  <2>3. CASE SyncClosed(c)
    <3>1. /\ task[c].at = "closePosition" /\ task[c].trade \in Trades
          /\ trade[task[c].trade].status = "CLOSED"
          /\ position[task[c].trade] = "OPEN"
      BY <1>0, <2>3 DEF SyncClosed, MirrorHolds
    <3>2. /\ \A s \in Trades :
               position'[s] = IF s = task[c].trade THEN "CLOSED" ELSE position[s]
          /\ UNCHANGED running /\ task'[c].at = "idle"
      BY <2>3, <3>1, After DEF SyncClosed, TypeOK
    <3> QED
      BY <1>0, <1>1, <3>1, <3>2 DEF MirrorHolds
  <2> QED
    BY <2>1, <2>2, <2>3
<1>4. TotalsHold(task[c])'
  BY <1>0, <1>1, <1>2, TotalsKept DEF Charging
<1> QED
  BY <1>0, <1>1, <1>3, <1>4, LoneKept, RulesKept DEF Holds

LEMMA SaveClosedSerial ==
  ASSUME TypeOK, NEW c \in Callers, Holds(c), SaveClosedTrade(c)
  PROVE  Holds(c)'
<1> DEFINE t == task[c].trade
<1>0. /\ Lone(c) /\ RequestHolds(task[c]) /\ EntryRules /\ MirrorHolds(task[c])
      /\ TotalsHold(task[c]) /\ task[c].at = "closing"
      /\ t \in Trades /\ trade[t].status = "OPEN"
  BY DEF Holds, SaveClosedTrade, At, RequestHolds, ExitHolds, CloseSteps, Unclosed
<1>1. /\ UNCHANGED <<account, position, running>> /\ task'[c].at = "release"
      /\ task'[c].row = task[c].row /\ task'[c].trade = t
      /\ task'[c].outlay = task[c].outlay /\ task'[c].gross = task[c].gross
      /\ \A d \in Callers \ {c} : task'[d] = task[d]
  BY <1>0, After DEF SaveClosedTrade
<1>2. /\ \A s \in Trades \ {t} : trade'[s] = trade[s]
      /\ trade'[t].status = "CLOSED" /\ trade'[t].outlay = trade[t].outlay
      /\ trade'[t].netPnl = task[c].gross - EntryCost - ExitCost
      /\ trade'[t].cost = EntryCost + ExitCost
  BY <1>0 DEF SaveClosedTrade, TypeOK, TradeRows
<1>3. /\ OpenTrades' = OpenTrades \ {t} /\ t \in OpenTrades
      /\ WithStatus("CLOSED")' = WithStatus("CLOSED") \cup {t}
      /\ t \notin WithStatus("CLOSED")
  BY <1>0, <1>2 DEF OpenTrades, WithStatus
<1> HIDE DEF t
<1>4. RequestHolds(task[c])'
  BY <1>0, <1>1, <1>2
  DEF RequestHolds, CopyHolds, EntryHolds, ExitHolds, Reading, Charging,
      EnteredSteps, CloseSteps, Unclosed, Closed, t
<1>5. EntryRules'
  <2>1. OpenCount' = OpenCount - 1
    BY <1>3, OpenCountIsNat, FS_RemoveElement DEF OpenCount
  <2>2. OpenCount' <= MaxOpen
    BY <1>0, <2>1, OpenCountIsNat, DeskAssumption DEF EntryRules
  <2>3. \A s \in OpenTrades' : s \in OpenTrades /\ trade'[s] = trade[s]
    BY <1>2, <1>3 DEF OpenTrades, WithStatus
  <2> QED
    BY <1>0, <2>2, <2>3 DEF EntryRules
<1>6. MirrorHolds(task[c])'
  BY <1>0, <1>1, <1>2 DEF MirrorHolds, EnteredSteps, Closed
<1>7. TotalsHold(task[c])'
  <2>1. HeldBy(task[c])' = HeldBy(task[c]) /\ SettledBy(task[c])' = SettledBy(task[c])
          /\ t \notin SettledBy(task[c])
    BY <1>0, <1>1, <1>3 DEF HeldBy, SettledBy, Charging
  <2>2. /\ \A s \in HeldBy(task[c]) : OutlayOf'[s] = OutlayOf[s]
        /\ \A s \in SettledBy(task[c]) : NetPnlOf'[s] = NetPnlOf[s] /\ CostOf'[s] = CostOf[s]
    BY <1>0, <1>2, <2>1, TotalsFacts DEF OutlayOf, NetPnlOf, CostOf
  <2>3. /\ SumFunctionOnSet(OutlayOf', HeldBy(task[c])) = SumFunctionOnSet(OutlayOf, HeldBy(task[c]))
        /\ SumFunctionOnSet(NetPnlOf', SettledBy(task[c])) = SumFunctionOnSet(NetPnlOf, SettledBy(task[c]))
        /\ SumFunctionOnSet(CostOf', SettledBy(task[c])) = SumFunctionOnSet(CostOf, SettledBy(task[c]))
    BY <1>0, <2>2, TotalsFacts, SumAgrees
  <2> QED
    BY <1>0, <1>1, <2>1, <2>3 DEF TotalsHold
<1> QED
  BY <1>0, <1>1, <1>4, <1>5, <1>6, <1>7, LoneKept DEF Holds

LEMMA ReleaseSerial ==
  ASSUME TypeOK, NEW c \in Callers, Holds(c), ReleaseOutlay(c)
  PROVE  Holds(c)'
<1> DEFINE t == task[c].trade
<1>0. /\ Lone(c) /\ RequestHolds(task[c]) /\ EntryRules /\ MirrorHolds(task[c])
      /\ TotalsHold(task[c]) /\ task[c].at = "release" /\ task[c].row = account
      /\ t \in Trades /\ trade[t].status = "CLOSED" /\ trade[t].outlay = task[c].outlay
      /\ trade[t].netPnl = task[c].gross - EntryCost - ExitCost
      /\ trade[t].cost = EntryCost + ExitCost
      /\ account \in Rows /\ task[c].gross \in Int /\ task[c].outlay \in Nat
  BY TaskFields
  DEF Holds, ReleaseOutlay, At, RequestHolds, CopyHolds, ExitHolds, CloseSteps, Closed,
      TypeOK
<1>1. /\ UNCHANGED <<trade, position, running>> /\ task'[c].at = "closeEvents"
      /\ task'[c].trade = t /\ task'[c].outlay = task[c].outlay
      /\ task'[c].gross = task[c].gross
      /\ \A d \in Callers \ {c} : task'[d] = task[d]
      /\ account' = [account EXCEPT
           !.deployed = Positive(account.deployed - task[c].outlay),
           !.netPnl = account.netPnl + task[c].gross - ExitCost,
           !.totalCost = account.totalCost + EntryCost + ExitCost,
           !.openPositionCount = Positive(account.openPositionCount - 1)]
  BY <1>0, After DEF ReleaseOutlay
<1>2. /\ account'.capital = account.capital /\ account'.ceiling = account.ceiling
      /\ account'.deployed = Positive(account.deployed - task[c].outlay)
      /\ account'.netPnl = account.netPnl + task[c].gross - ExitCost
      /\ account'.totalCost = account.totalCost + EntryCost + ExitCost
      /\ account'.openPositionCount = Positive(account.openPositionCount - 1)
  BY <1>0, <1>1 DEF Rows
<1>3. RequestHolds(task[c])'
  BY <1>0, <1>1, <1>2
  DEF RequestHolds, CopyHolds, EntryHolds, ExitHolds, Reading, Charging,
      EnteredSteps, CloseSteps, Unclosed, Closed
<1>4. MirrorHolds(task[c])'
  BY <1>0, <1>1, MirrorKept DEF EnteredSteps, Closed
<1>5. TotalsHold(task[c])'
  <2> HIDE DEF t
  <2>1. /\ HeldBy(task[c]) = OpenTrades \cup {t} /\ t \notin OpenTrades
        /\ HeldBy(task[c])' = OpenTrades
        /\ SettledBy(task[c])' = SettledBy(task[c]) \cup {t} /\ t \notin SettledBy(task[c])
        /\ OutlayOf' = OutlayOf /\ NetPnlOf' = NetPnlOf /\ CostOf' = CostOf
    BY <1>0, <1>1 DEF HeldBy, SettledBy, Charging, OpenTrades, WithStatus, OutlayOf,
                      NetPnlOf, CostOf, t
  <2>2. /\ IsFiniteSet(OpenTrades) /\ IsFiniteSet(SettledBy(task[c]))
        /\ \A s \in OpenTrades \cup {t} : OutlayOf[s] \in Nat
        /\ \A s \in OpenTrades \cup {t} : OutlayOf[s] \in Int
        /\ \A s \in SettledBy(task[c]) \cup {t} : NetPnlOf[s] \in Int /\ CostOf[s] \in Int
        /\ OutlayOf[t] = task[c].outlay
        /\ NetPnlOf[t] = task[c].gross - EntryCost - ExitCost
        /\ CostOf[t] = EntryCost + ExitCost
    BY <1>0, TotalsFacts, OpenCountIsNat DEF OpenTrades, WithStatus
  <2>3. /\ SumFunctionOnSet(OutlayOf, OpenTrades \cup {t})
             = SumFunctionOnSet(OutlayOf, OpenTrades) + task[c].outlay
        /\ SumFunctionOnSet(NetPnlOf, SettledBy(task[c]) \cup {t})
             = SumFunctionOnSet(NetPnlOf, SettledBy(task[c])) + NetPnlOf[t]
        /\ SumFunctionOnSet(CostOf, SettledBy(task[c]) \cup {t})
             = SumFunctionOnSet(CostOf, SettledBy(task[c])) + CostOf[t]
    <3>1. SumFunctionOnSet(OutlayOf, OpenTrades \cup {t})
            = SumFunctionOnSet(OutlayOf, OpenTrades) + OutlayOf[t]
      BY <2>1, <2>2, SumAdd
    <3>2. SumFunctionOnSet(NetPnlOf, SettledBy(task[c]) \cup {t})
            = SumFunctionOnSet(NetPnlOf, SettledBy(task[c])) + NetPnlOf[t]
      BY <2>1, <2>2, SumAdd
    <3>3. SumFunctionOnSet(CostOf, SettledBy(task[c]) \cup {t})
            = SumFunctionOnSet(CostOf, SettledBy(task[c])) + CostOf[t]
      BY <2>1, <2>2, SumAdd
    <3> QED
      BY <2>2, <3>1, <3>2, <3>3
  <2>4. SumFunctionOnSet(OutlayOf, OpenTrades) \in Nat
    BY <2>2, SumIsNat
  <2>5. /\ Cardinality(OpenTrades \cup {t}) = Cardinality(OpenTrades) + 1
        /\ Cardinality(OpenTrades) \in Nat
    BY <2>1, <2>2, FS_AddElement, FS_CardinalityType
  <2>6. EntryCost \in Nat /\ ExitCost \in Nat
    BY DeskAssumption
  <2>7. /\ EntryCost * (Cardinality(OpenTrades) + 1)
             = EntryCost * Cardinality(OpenTrades) + EntryCost
        /\ EntryCost * Cardinality(OpenTrades) \in Int
    BY <2>5, <2>6
  <2>8. account'.deployed = SumFunctionOnSet(OutlayOf, OpenTrades)
    BY <1>0, <1>2, <2>1, <2>3, <2>4 DEF TotalsHold, Positive
  <2>9. account'.openPositionCount = Cardinality(OpenTrades)
    BY <1>0, <1>2, <2>1, <2>5 DEF TotalsHold, Positive
  <2>10. account'.netPnl = SumFunctionOnSet(NetPnlOf, SettledBy(task[c]) \cup {t})
                             - EntryCost * Cardinality(OpenTrades)
    BY <1>0, <1>2, <2>1, <2>2, <2>3, <2>5, <2>6, <2>7, TotalsFacts DEF TotalsHold
  <2>11. account'.totalCost = SumFunctionOnSet(CostOf, SettledBy(task[c]) \cup {t})
    BY <1>0, <1>2, <2>2, <2>3, <2>6, TotalsFacts DEF TotalsHold
  <2> QED
    BY <1>1, <2>1, <2>4, <2>5, <2>8, <2>9, <2>10, <2>11 DEF TotalsHold
<1> QED
  BY <1>0, <1>1, <1>3, <1>4, <1>5, LoneKept, RulesKept DEF Holds

LEMMA EditSerial ==
  ASSUME TypeOK, NEW c \in Callers, Holds(c), EditStep(c)
  PROVE  Holds(c)'
<1> DEFINE Edited ==
             /\ trade' = trade
             /\ account'.deployed = account.deployed /\ account'.netPnl = account.netPnl
             /\ account'.openPositionCount = account.openPositionCount
             /\ account'.totalCost = account.totalCost
             /\ \A d \in Callers \ {c} : task'[d] = task[d]
             /\ task[c].at \in EditSteps
             /\ task'[c].at \in {"capitalEvent", "marking", "idle"}
             /\ position' = position
             /\ task'[c].at = "marking" => task'[c].marks \subseteq Held
             /\ RequestHolds(task[c])'
<1>0. /\ Lone(c) /\ RequestHolds(task[c]) /\ EntryRules /\ MirrorHolds(task[c])
      /\ TotalsHold(task[c]) /\ account \in Rows
  BY DEF Holds, TypeOK
<1>1. Edited
  <2> USE DEF RequestHolds, CopyHolds, EntryHolds, ExitHolds, Reading, Charging,
              EnteredSteps, CloseSteps, EditSteps, At
  <2>1. CASE SaveRow(c)
    <3>1. /\ account' = [account EXCEPT !.capital = task[c].row.capital,
                                        !.ceiling = task[c].row.capital]
          /\ task[c].row.capital \in Capitals
          /\ UNCHANGED <<trade, position, running>>
      BY <1>0, <2>1 DEF SaveRow
    <3>2. /\ account'.capital = task[c].row.capital /\ account'.ceiling = account'.capital
          /\ account'.deployed = account.deployed /\ account'.netPnl = account.netPnl
          /\ account'.openPositionCount = account.openPositionCount
          /\ account'.totalCost = account.totalCost
      BY <1>0, <3>1 DEF Rows
    <3> QED
      BY <1>0, <2>1, <3>1, <3>2, After DEF SaveRow
  <2>2. CASE SetCapital(c)
    <3>1. /\ task[c].row = [account EXCEPT !.capital = task[c].row.capital,
                                           !.ceiling = task[c].row.capital]
          /\ task[c].row.capital \in Capitals
          /\ account' = [account EXCEPT !.capital = task[c].row.capital,
                                        !.ceiling = task[c].row.ceiling]
          /\ UNCHANGED <<trade, position, running>>
      BY <1>0, <2>2 DEF SetCapital
    <3>2. /\ account'.capital = task[c].row.capital /\ account'.ceiling = account'.capital
          /\ account'.deployed = account.deployed /\ account'.netPnl = account.netPnl
          /\ account'.openPositionCount = account.openPositionCount
          /\ account'.totalCost = account.totalCost
          /\ task[c].row.netPnl = account.netPnl
      BY <1>0, <3>1, TaskFields DEF Rows
    <3> QED
      BY <1>0, <2>2, <3>1, <3>2, After DEF SetCapital
  <2>3. CASE RecordCapital(c)
    BY <1>0, <2>3, After DEF RecordCapital
  <2>4. ASSUME NEW t \in Trades, MarkPosition(c, t) PROVE Edited
    <3>1. /\ task[c].at = "marking" /\ \A s \in task[c].marks : position[s] = "OPEN"
          /\ t \in task[c].marks
      BY <1>0, <2>4 DEF MarkPosition, MirrorHolds
    <3>2. position' = position
      BY <2>4, <3>1 DEF MarkPosition, TypeOK
    <3>3. /\ UNCHANGED <<account, trade, running>>
          /\ task'[c] = IF task[c].marks \ {t} = {} THEN Idle
                        ELSE [task[c] EXCEPT !.marks = task[c].marks \ {t}]
          /\ \A d \in Callers \ {c} : task'[d] = task[d]
      BY <2>4 DEF MarkPosition, TypeOK
    <3>4. \/ task'[c].at = "idle"
          \/ task'[c].at = "marking" /\ task'[c].marks = task[c].marks \ {t}
      BY <3>1, <3>3 DEF Idle, TypeOK, Tasks
    <3>5. task[c].marks \subseteq Held
      BY <3>1 DEF Held, TypeOK, Tasks
    <3> QED
      BY <1>0, <3>1, <3>2, <3>3, <3>4, <3>5
  <2> QED
    BY <2>1, <2>2, <2>3, <2>4 DEF EditStep
<1>2. MirrorHolds(task[c])'
  BY <1>0, <1>1, MirrorKept DEF EnteredSteps, Closed, EditSteps
<1>3. TotalsHold(task[c])'
  BY <1>0, <1>1, TotalsKept DEF Charging, EditSteps
<1> QED
  BY <1>0, <1>1, <1>2, <1>3, LoneKept, RulesKept DEF Holds

LEMMA IdleHolds ==
  ASSUME NEW c \in Callers, NEW d \in Callers, Quiescent, Holds(c)
  PROVE  Holds(d)
<1>1. task[c].at = "idle" /\ task[d].at = "idle" /\ Lone(d)
  BY DEF Quiescent, Busy, Lone
<1>2. RequestHolds(task[d]) /\ EntryRules
  BY <1>1 DEF Holds, RequestHolds, CopyHolds, EntryHolds, ExitHolds, Reading, Charging,
              EnteredSteps, CloseSteps
<1>3. MirrorHolds(task[d])
  BY <1>1 DEF Holds, MirrorHolds, EnteredSteps, Closed
<1>4. TotalsHold(task[d])
  BY <1>1 DEF Holds, TotalsHold, HeldBy, SettledBy, Charging
<1> QED
  BY <1>1, <1>2, <1>3, <1>4 DEF Holds

\* A caller that takes a step undisturbed is the one the desk serves.
LEMMA ActingHolds ==
  ASSUME TypeOK, Serial, NEW c \in Callers, ~disturbed',
         Request(c) \/ OpenStep(c) \/ CloseStep(c) \/ EditStep(c)
  PROVE  ~disturbed /\ Holds(c)
<1>1. ~disturbed /\ (Request(c) => Quiescent)
  BY DEF Request, BeginOpen, BeginClose, BeginEdit, BeginToggle, BeginCapital,
         BeginRefresh, Start, OpenStep, CountOpen, LookupSame, RefuseEntry, InsertTrade,
         SaveEntryOrder, BookOutlay, ChargeEntry, RecordOpen, SyncOpened, CloseStep,
         SaveExitOrder, SaveClosedTrade, ReleaseOutlay, RecordClose, SyncClosed,
         EditStep, SaveRow, SetCapital, RecordCapital, MarkPosition, Goto, Finish, TypeOK
<1>2. ~Request(c) => Busy(c)
  BY DEF OpenStep, CountOpen, LookupSame, RefuseEntry, InsertTrade, SaveEntryOrder,
         BookOutlay, ChargeEntry, RecordOpen, SyncOpened, CloseStep, SaveExitOrder,
         SaveClosedTrade, ReleaseOutlay, RecordClose, SyncClosed, EditStep, SaveRow,
         SetCapital, RecordCapital, MarkPosition, At, Busy
<1>3. PICK d \in Callers : Holds(d)
  BY <1>1 DEF Serial
<1>4. CASE Busy(c)
  BY <1>1, <1>3, <1>4 DEF Holds, Lone
<1>5. CASE ~Busy(c)
  BY <1>1, <1>2, <1>3, <1>5, IdleHolds
<1> QED
  BY <1>4, <1>5

LEMMA InitSerial == Init => Serial
<1> SUFFICES ASSUME Init PROVE Serial
  OBVIOUS
<1>1. PICK c \in Callers : TRUE
  BY DeskAssumption
<1>2. task[c].at = "idle" /\ Lone(c)
  BY DEF Init, Idle, Lone, Busy
<1>3. \A t \in Trades : trade[t].status = "NONE" /\ position[t] = "NONE"
  BY DEF Init, NoTrade
<1>4. /\ account.deployed = 0 /\ account.netPnl = 0 /\ account.totalCost = 0
      /\ account.openPositionCount = 0 /\ running = 0
      /\ account.capital \in Capitals /\ account.ceiling = account.capital
  BY DEF Init, NewRow
<1>5. RequestHolds(task[c])
  BY <1>2, <1>4 DEF RequestHolds, CopyHolds, EntryHolds, ExitHolds, Reading, Charging,
                    EnteredSteps, CloseSteps
<1>6. OpenTrades = {} /\ WithStatus("CLOSED") = {}
  BY <1>3 DEF OpenTrades, WithStatus
<1>7. EntryRules
  BY <1>6, FS_EmptySet, DeskAssumption DEF EntryRules, OpenCount
<1>8. MirrorHolds(task[c])
  BY <1>2, <1>3 DEF MirrorHolds, EnteredSteps, Closed
<1>9. TotalsHold(task[c])
  <2>1. HeldBy(task[c]) = {} /\ SettledBy(task[c]) = {}
    BY <1>2, <1>6 DEF HeldBy, SettledBy, Charging
  <2>2. Cardinality({}) = 0 /\ EntryCost * 0 = 0
    BY FS_EmptySet, DeskAssumption
  <2> QED
    BY <1>2, <1>4, <2>1, <2>2, SumEmpty DEF TotalsHold
<1> QED
  BY <1>2, <1>5, <1>7, <1>8, <1>9 DEF Serial, Holds

LEMMA StepSerial == TypeOK /\ Serial /\ [Next]_vars => Serial'
<1> SUFFICES ASSUME TypeOK, Serial, [Next]_vars, ~disturbed' PROVE Serial'
  BY DEF Serial
<1>1. ASSUME NEW c \in Callers,
             Request(c) \/ OpenStep(c) \/ CloseStep(c) \/ EditStep(c)
      PROVE  Serial'
  <2>1. Holds(c)
    BY <1>1, ActingHolds
  <2>2. Holds(c)'
    BY <1>1, <2>1, RequestSerial, QuietOpenSerial, InsertSerial, BookOutlaySerial,
       ChargeSerial, SyncOpenedSerial, QuietCloseSerial, SaveClosedSerial,
       ReleaseSerial, EditSerial
    DEF OpenStep, CloseStep
  <2> QED
    BY <2>2 DEF Serial
<1>2. CASE Crash
  BY <1>2 DEF Crash
<1>3. CASE UNCHANGED vars
  <2>1. PICK c \in Callers : Holds(c)
    BY <1>3 DEF vars, Serial
  <2>2. RequestHolds(task[c])' /\ MirrorHolds(task[c])' /\ TotalsHold(task[c])'
    BY <1>3, <2>1
    DEF vars, Holds, RequestHolds, CopyHolds, EntryHolds, ExitHolds, MirrorHolds,
        TotalsHold, HeldBy, SettledBy, OpenCount, OpenTrades, WithStatus, OutlayOf,
        NetPnlOf, CostOf
  <2> QED
    BY <1>3, <2>1, <2>2, LoneKept, RulesKept DEF vars, Holds, Serial
<1> QED
  BY <1>1, <1>2, <1>3 DEF Next

\* While no two requests overlapped and no crash cut one, the desk is at one
\* well-defined point of one request.
LEMMA AlwaysSerial == Spec => []Serial
BY TypeCorrect, InitSerial, StepSerial, PTL DEF Spec

\* Single economic accounting path: run one at a time and to the end, any number
\* of entries, exits and edits leaves the portfolio row equal to what the trade
\* rows add up to, and the newest ledger event shows its equity.
THEOREM BooksAreBalanced == Spec => []BooksBalance
<1>1. TypeOK /\ Serial => BooksBalance
  <2> SUFFICES ASSUME TypeOK, Serial, ~disturbed, Quiescent
               PROVE  Booked /\ running = account.netPnl
    BY DEF BooksBalance
  <2>1. PICK c \in Callers : Holds(c)
    BY DEF Serial
  <2>2. task[c].at = "idle"
    BY DEF Quiescent, Busy
  <2>3. HeldBy(task[c]) = OpenTrades /\ SettledBy(task[c]) = WithStatus("CLOSED")
    BY <2>2 DEF HeldBy, SettledBy, Charging
  <2>4. OpenCount \in Nat
    BY OpenCountIsNat
  <2>5. account.deployed = SumFunctionOnSet(OutlayOf, OpenTrades) + 0
          /\ account.openPositionCount = Cardinality(OpenTrades) + 0
    BY <2>1, <2>2, <2>3 DEF Holds, TotalsHold
  <2>6. SumFunctionOnSet(OutlayOf, OpenTrades) + 0 = SumFunctionOnSet(OutlayOf, OpenTrades)
    BY <2>1, <2>3, TotalsFacts DEF Holds
  <2> QED
    BY <2>1, <2>2, <2>3, <2>4, <2>5, <2>6
    DEF Holds, TotalsHold, RequestHolds, CopyHolds, Booked, OpenOutlay, OpenCount
<1> QED
  BY <1>1, TypeCorrect, AlwaysSerial, PTL

\* syncPosition: after any sequence of undisturbed requests every position row
\* tells the status of its trade.
THEOREM PositionsMirror == Spec => []PositionsMirrorTrades
<1>1. Serial => PositionsMirrorTrades
  BY DEF Serial, Holds, MirrorHolds, PositionsMirrorTrades, Quiescent, Busy,
         EnteredSteps, Closed
<1> QED
  BY <1>1, AlwaysSerial, PTL

\* entryGuards: an undisturbed desk holds no contract twice and never more trades
\* than the policy allows, at every statement of every request.
THEOREM EntryRulesKept == Spec => []EntryRulesHold
<1>1. Serial => EntryRulesHold
  BY DEF Serial, Holds, EntryRules, EntryRulesHold
<1> QED
  BY <1>1, AlwaysSerial, PTL

LEMMA InsertExposure ==
  ASSUME TypeOK, NEW c \in Callers, NEW t \in Trades, Holds(c), InsertTrade(c, t)
  PROVE  OpenOutlay' <= account.ceiling
<1>1. /\ task[c].at = "insert" /\ task[c].row = account
      /\ RequestHolds(task[c]) /\ TotalsHold(task[c])
      /\ task[c].outlay <= account.ceiling - account.deployed
      /\ account \in Rows /\ task[c].outlay \in Nat
  BY TaskFields DEF Holds, RequestHolds, CopyHolds, EntryHolds, Reading, InsertTrade, At,
                    TypeOK
<1>2. HeldBy(task[c]) = OpenTrades
  BY <1>1 DEF HeldBy, Charging
<1>3. /\ OpenTrades' = OpenTrades \cup {t} /\ t \notin OpenTrades
      /\ \A s \in OpenTrades : OutlayOf'[s] = OutlayOf[s]
      /\ OutlayOf'[t] = task[c].outlay
  BY DEF InsertTrade, OpenTrades, WithStatus, TypeOK, OutlayOf
<1>4. \A s \in OpenTrades \cup {t} : OutlayOf'[s] \in Int
  BY <1>1, <1>2, <1>3, TotalsFacts DEF OpenTrades, WithStatus
<1>5. SumFunctionOnSet(OutlayOf', OpenTrades \cup {t})
        = SumFunctionOnSet(OutlayOf', OpenTrades) + OutlayOf'[t]
  BY <1>3, <1>4, OpenCountIsNat, SumAdd
<1>6. SumFunctionOnSet(OutlayOf', OpenTrades) = SumFunctionOnSet(OutlayOf, OpenTrades)
  BY <1>3, OpenCountIsNat, SumAgrees
<1>7. OpenOutlay' = SumFunctionOnSet(OutlayOf, OpenTrades) + task[c].outlay
  BY <1>3, <1>5, <1>6 DEF OpenOutlay
<1>8. SumFunctionOnSet(OutlayOf, OpenTrades) \in Nat
  BY <1>1, <1>2, TotalsFacts
<1>9. account.deployed = SumFunctionOnSet(OutlayOf, OpenTrades) + 0
  BY <1>1, <1>2 DEF TotalsHold
<1> QED
  BY <1>1, <1>7, <1>8, <1>9 DEF Rows

\* The insertion is the only step that opens a trade.
LEMMA OnlyInsertOpens ==
  ASSUME TypeOK, Next, ~ \E c \in Callers, t \in Trades : InsertTrade(c, t)
  PROVE  OpenCount' <= OpenCount
<1>1. OpenTrades' \subseteq OpenTrades
  <2>1. \A c \in Callers : Request(c) => OpenTrades' = OpenTrades
    BY RequestShrinks
  <2>2. \A c \in Callers : SaveClosedTrade(c) => OpenTrades' \subseteq OpenTrades
    BY DEF SaveClosedTrade, OpenTrades, WithStatus, TypeOK, TradeRows
  <2>3. trade' = trade => OpenTrades' = OpenTrades
    BY DEF OpenTrades, WithStatus
  <2> QED
    BY <2>1, <2>2, <2>3
    DEF Next, OpenStep, CountOpen, LookupSame, RefuseEntry, SaveEntryOrder, BookOutlay,
        ChargeEntry, RecordOpen, SyncOpened, CloseStep, SaveExitOrder, ReleaseOutlay,
        RecordClose, SyncClosed, EditStep, SaveRow, SetCapital, RecordCapital,
        MarkPosition, Crash
<1> QED
  BY <1>1, OpenCountIsNat, FS_Subset DEF OpenCount

\* The risk envelope of openTrade: while nothing was disturbed, no entry takes the
\* outlay of all open trades past the configured capital.
THEOREM ExposureStaysWithinCapital == Spec => ExposureWithinCapital
<1>1. TypeOK /\ Serial /\ [Next]_vars
        => [~disturbed /\ OpenCount' > OpenCount => OpenOutlay' <= account.ceiling]_vars
  <2> SUFFICES ASSUME TypeOK, Serial, Next, ~disturbed, OpenCount' > OpenCount
               PROVE  OpenOutlay' <= account.ceiling
    OBVIOUS
  <2>1. PICK c \in Callers, t \in Trades : InsertTrade(c, t)
    <3> SUFFICES ASSUME ~ \E c \in Callers, t \in Trades : InsertTrade(c, t)
                 PROVE  FALSE
      OBVIOUS
    <3>1. OpenCount' <= OpenCount
      BY OnlyInsertOpens
    <3>2. OpenCount \in Nat /\ OpenCount' \in Nat
      <4>1. OpenTrades' \in SUBSET Trades
        BY DEF OpenTrades, WithStatus
      <4> QED
        BY <4>1, OpenCountIsNat, DeskAssumption, FS_Subset, FS_CardinalityType
        DEF OpenCount
    <3> QED
      BY <3>1, <3>2
  <2>2. OpenStep(c) /\ ~disturbed'
    BY <2>1 DEF OpenStep, InsertTrade
  <2> QED
    BY <2>1, <2>2, ActingHolds, InsertExposure
<1> QED
  BY <1>1, TypeCorrect, AlwaysSerial, PTL DEF Spec, ExposureWithinCapital

-----------------------------------------------------------------------------
(***************************************************************************)
(* The undisturbed desk implements Account.  The mapping of PaperDesk is   *)
(* written for the caller that is busy; HeldBy and SettledBy are what it   *)
(* amounts to when the caller is known.                                    *)
(***************************************************************************)

UnchargedBy(k) == IF k.at = "charge" THEN k.outlay ELSE 0

LEMMA Mapping ==
  ASSUME NEW c \in Callers, Lone(c)
  PROVE  /\ HeldTrades = HeldBy(task[c]) /\ SettledTrades = SettledBy(task[c])
         /\ Uncharged = UnchargedBy(task[c])
<1>1. \A d \in Callers \ {c} : task[d].at = "idle"
  BY DEF Lone, Busy
<1>2. /\ Entering = IF task[c].at \in Charging THEN {task[c].trade} ELSE {}
      /\ Leaving = IF task[c].at = "release" THEN {task[c].trade} ELSE {}
  BY <1>1 DEF Entering, Leaving, Charging, At
<1>3. Uncharged = UnchargedBy(task[c])
  <2>1. CASE task[c].at = "charge"
    <3>1. (CHOOSE d \in Callers : At(d, "charge")) = c
      BY <1>1, <2>1 DEF At
    <3> QED
      BY <2>1, <3>1 DEF Uncharged, UnchargedBy, At
  <2>2. CASE task[c].at # "charge"
    BY <1>1, <2>2 DEF Uncharged, UnchargedBy, At
  <2> QED
    BY <2>1, <2>2
<1> QED
  BY <1>2, <1>3 DEF HeldTrades, SettledTrades, HeldBy, SettledBy

LEMMA MappingAfter ==
  ASSUME NEW c \in Callers, Lone(c)'
  PROVE  /\ HeldTrades' = HeldBy(task[c])' /\ SettledTrades' = SettledBy(task[c])'
         /\ Uncharged' = UnchargedBy(task[c])'
<1>1. \A d \in Callers \ {c} : task'[d].at = "idle"
  BY DEF Lone, Busy
<1>2. /\ Entering' = IF task'[c].at \in Charging THEN {task'[c].trade} ELSE {}
      /\ Leaving' = IF task'[c].at = "release" THEN {task'[c].trade} ELSE {}
  BY <1>1 DEF Entering, Leaving, Charging, At
<1>3. Uncharged' = UnchargedBy(task[c])'
  <2>1. CASE task'[c].at = "charge"
    <3>1. (CHOOSE d \in Callers : At(d, "charge")') = c
      BY <1>1, <2>1 DEF At
    <3> QED
      BY <2>1, <3>1 DEF Uncharged, UnchargedBy, At
  <2>2. CASE task'[c].at # "charge"
    BY <1>1, <2>2 DEF Uncharged, UnchargedBy, At
  <2> QED
    BY <2>1, <2>2
<1> QED
  BY <1>2, <1>3 DEF HeldTrades, SettledTrades, HeldBy, SettledBy

\* What a step of c has to leave alone to be invisible to Account.
LEMMA Invisible ==
  ASSUME NEW c \in Callers, Lone(c), Lone(c)',
         HeldBy(task[c])' = HeldBy(task[c]), SettledBy(task[c])' = SettledBy(task[c]),
         account'.capital = account.capital, account'.netPnl = account.netPnl,
         account'.deployed - UnchargedBy(task[c])'
           = account.deployed - UnchargedBy(task[c]),
         \A t \in HeldBy(task[c]) : /\ trade'[t].instrument = trade[t].instrument
                                    /\ trade'[t].outlay = trade[t].outlay,
         \A t \in SettledBy(task[c]) : trade'[t].netPnl = trade[t].netPnl
  PROVE  UNCHANGED Desk!accountVars
BY Mapping, MappingAfter DEF Desk!accountVars

\* A step that leaves the trades alone and the row's figures too.
LEMMA InvisibleQuiet ==
  ASSUME NEW c \in Callers, Lone(c), Lone(c)', trade' = trade,
         account'.capital = account.capital, account'.netPnl = account.netPnl,
         account'.deployed = account.deployed,
         \/ /\ task[c].at \notin Charging \cup {"release"}
            /\ task'[c].at \notin Charging \cup {"release"}
         \/ /\ task[c].at \in {"entryOrder", "deploy"}
            /\ task'[c].at \in {"entryOrder", "deploy"}
            /\ task'[c].trade = task[c].trade
  PROVE  UNCHANGED Desk!accountVars
<1>1. /\ HeldBy(task[c])' = HeldBy(task[c]) /\ SettledBy(task[c])' = SettledBy(task[c])
      /\ UnchargedBy(task[c])' = UnchargedBy(task[c])
  BY DEF HeldBy, SettledBy, UnchargedBy, Charging, OpenTrades, WithStatus
<1> QED
  BY <1>1, Invisible

\* Account counts with a Cardinality of its own, which is the same one.
LEMMA SameCardinality == \A S : Desk!Cardinality(S) = Cardinality(S)
BY DEF Desk!Cardinality, Cardinality

\* The entry takes effect when its cost is charged; its guards, read off the row
\* at the first statement, are those of Account at this one.
LEMMA ChargeOpens ==
  ASSUME TypeOK, NEW c \in Callers, Holds(c), Lone(c)', ChargeEntry(c)
  PROVE  \E t \in Trades, i \in Instruments, o \in Outlays : Desk!Open(t, i, o)
<1> SUFFICES ASSUME NEW t, t = task[c].trade, NEW i, i = task[c].instrument,
                    NEW o, o = task[c].outlay, NEW row, row = task[c].row
             PROVE  \E u \in Trades, n \in Instruments, q \in Outlays : Desk!Open(u, n, q)
  OBVIOUS
<1>0. /\ Lone(c) /\ RequestHolds(task[c]) /\ EntryRules /\ TotalsHold(task[c])
      /\ task[c].at = "charge" /\ account \in Rows /\ row \in Rows /\ o \in Nat
      /\ account = [row EXCEPT !.deployed = row.deployed + o,
                               !.openPositionCount = row.openPositionCount + 1]
      /\ t \in Trades /\ i \in Instruments /\ o \in Outlays
      /\ trade[t].status = "OPEN" /\ trade[t].outlay = o /\ trade[t].instrument = i
      /\ ~LossHit(row) /\ ~DrawdownHit(row) /\ o <= row.ceiling - row.deployed
      /\ account.ceiling = account.capital /\ account.capital \in Capitals
  BY TaskFields DEF Holds, ChargeEntry, At, RequestHolds, CopyHolds, EntryHolds,
                    EnteredSteps, Charging, TypeOK
<1>1. /\ trade' = trade /\ task'[c].at = "openEvent"
      /\ account' = [account EXCEPT !.netPnl = row.netPnl - EntryCost]
  BY <1>0, After DEF ChargeEntry
<1>2. /\ account.capital = row.capital /\ account.netPnl = row.netPnl
      /\ account.deployed = row.deployed + o /\ account.ceiling = row.ceiling
      /\ account'.capital = account.capital /\ account'.deployed = account.deployed
      /\ account'.netPnl = account.netPnl - EntryCost
  BY <1>0, <1>1 DEF Rows
<1>3. /\ HeldTrades = OpenTrades \ {t} /\ HeldTrades' = OpenTrades /\ t \in OpenTrades
      /\ SettledTrades = WithStatus("CLOSED") /\ SettledTrades' = SettledTrades
      /\ Uncharged = o /\ Uncharged' = 0
  <2>1. OpenTrades' = OpenTrades /\ WithStatus("CLOSED")' = WithStatus("CLOSED")
    BY <1>1 DEF OpenTrades, WithStatus
  <2>2. /\ HeldBy(task[c]) = OpenTrades \ {t} /\ SettledBy(task[c]) = WithStatus("CLOSED")
        /\ UnchargedBy(task[c]) = o /\ t \in OpenTrades
    BY <1>0 DEF HeldBy, SettledBy, UnchargedBy, Charging, OpenTrades, WithStatus
  <2>3. /\ HeldBy(task[c])' = OpenTrades' /\ SettledBy(task[c])' = WithStatus("CLOSED")'
        /\ UnchargedBy(task[c])' = 0
    BY <1>1 DEF HeldBy, SettledBy, UnchargedBy, Charging
  <2> QED
    BY <1>0, <2>1, <2>2, <2>3, Mapping, MappingAfter
<1>4. Desk!WithinLimits
  <2>1. /\ row.capital \in Nat \ {0} /\ row.netPnl \in Int
        /\ MaxLossPct \in Nat /\ MaxDrawdownPct \in Nat
    BY <1>0, <1>2, DeskAssumption DEF Rows
  <2>2. MaxLossPct > 0 => Desk!Loss * 100 < account.capital * MaxLossPct
    <3>1. MaxLossPct > 0 => row.capital * MaxLossPct > 0
      BY <2>1
    <3>2. Positive(row.capital - Equity(row)) = Desk!Loss
      BY <1>2, <2>1 DEF Positive, Equity, Desk!Loss
    <3>3. row.capital * MaxLossPct \in Int /\ Desk!Loss \in Int
      BY <1>2, <2>1 DEF Desk!Loss
    <3> QED
      BY <1>0, <1>2, <3>1, <3>2, <3>3 DEF LossHit
  <2>3. MaxDrawdownPct > 0 => Desk!Loss * 100 < account.capital * MaxDrawdownPct
    <3>1. MaxDrawdownPct > 0 => row.capital * MaxDrawdownPct > 0
      BY <2>1
    <3>2. row.capital * MaxDrawdownPct \in Int /\ Desk!Loss \in Int
      BY <1>2, <2>1 DEF Desk!Loss
    <3>3. CASE row.netPnl >= 0
      <4>1. Desk!Loss = 0
        BY <1>2, <2>1, <3>3 DEF Desk!Loss
      <4> QED
        BY <1>2, <3>1, <3>2, <4>1
    <3>4. CASE row.netPnl < 0
      <4>1. PassedPeak(row) = row.capital
        BY <2>1, <3>4 DEF PassedPeak, Positive
      <4>2. Positive(PassedPeak(row) - Equity(row)) = Desk!Loss
        BY <1>2, <2>1, <3>4, <4>1 DEF Positive, Equity, Desk!Loss
      <4> QED
        BY <1>0, <1>2, <3>1, <3>2, <4>1, <4>2 DEF DrawdownHit
    <3> QED
      BY <2>1, <3>3, <3>4
  <2> QED
    BY <2>2, <2>3 DEF Desk!WithinLimits
<1>5. Desk!Admits(i, o)
  <2>1. Cardinality(HeldTrades) < MaxOpen
    <3>1. OpenCount <= MaxOpen /\ OpenCount \in Nat /\ MaxOpen \in Nat
      BY <1>0, OpenCountIsNat, DeskAssumption DEF EntryRules
    <3>2. Cardinality(OpenTrades \ {t}) = OpenCount - 1
      BY <1>3, OpenCountIsNat, FS_RemoveElement DEF OpenCount
    <3> QED
      BY <1>3, <3>1, <3>2
  <2>2. \A s \in HeldTrades : trade[s].instrument # i
    BY <1>0, <1>3 DEF EntryRules
  <2>3. account.deployed - Uncharged + o <= account.capital
    BY <1>0, <1>2, <1>3 DEF Rows
  <2> QED
    BY <1>4, <2>1, <2>2, <2>3, SameCardinality DEF Desk!Admits
<1>6. Desk!Open(t, i, o)
  <2>1. t \notin HeldTrades /\ t \notin SettledTrades /\ HeldTrades' = HeldTrades \cup {t}
    BY <1>0, <1>3 DEF OpenTrades, WithStatus
  <2>2. account'.deployed - Uncharged' = account.deployed - Uncharged + o
    BY <1>0, <1>2, <1>3 DEF Rows
  <2> QED
    BY <1>0, <1>1, <1>2, <1>3, <1>5, <2>1, <2>2 DEF Desk!Open
<1> QED
  BY <1>0, <1>6

\* The exit takes effect when its outlay is released.
LEMMA ReleaseCloses ==
  ASSUME TypeOK, NEW c \in Callers, Holds(c), Lone(c)', ReleaseOutlay(c)
  PROVE  \E t \in Trades, g \in Grosses : Desk!Close(t, g)
<1> SUFFICES ASSUME NEW t, t = task[c].trade, NEW g, g = task[c].gross
             PROVE  \E u \in Trades, n \in Grosses : Desk!Close(u, n)
  OBVIOUS
<1>0. /\ Lone(c) /\ RequestHolds(task[c]) /\ TotalsHold(task[c])
      /\ task[c].at = "release" /\ task[c].row = account
      /\ t \in Trades /\ g \in Grosses /\ g \in Int
      /\ trade[t].status = "CLOSED" /\ trade[t].outlay = task[c].outlay
      /\ trade[t].netPnl = g - EntryCost - ExitCost
      /\ account \in Rows /\ task[c].outlay \in Nat
  BY TaskFields
  DEF Holds, ReleaseOutlay, At, RequestHolds, CopyHolds, ExitHolds, CloseSteps, Closed,
      TypeOK
<1>1. /\ trade' = trade /\ task'[c].at = "closeEvents"
      /\ account' = [account EXCEPT
           !.deployed = Positive(account.deployed - task[c].outlay),
           !.netPnl = account.netPnl + g - ExitCost,
           !.totalCost = account.totalCost + EntryCost + ExitCost,
           !.openPositionCount = Positive(account.openPositionCount - 1)]
  BY <1>0, After DEF ReleaseOutlay
<1>2. /\ account'.capital = account.capital
      /\ account'.deployed = Positive(account.deployed - task[c].outlay)
      /\ account'.netPnl = account.netPnl + g - ExitCost
  BY <1>0, <1>1 DEF Rows
<1>3. /\ HeldTrades = OpenTrades \cup {t} /\ HeldTrades' = OpenTrades /\ t \notin OpenTrades
      /\ SettledTrades = WithStatus("CLOSED") \ {t}
      /\ SettledTrades' = WithStatus("CLOSED") /\ t \in WithStatus("CLOSED")
      /\ Uncharged = 0 /\ Uncharged' = 0
  <2>1. OpenTrades' = OpenTrades /\ WithStatus("CLOSED")' = WithStatus("CLOSED")
    BY <1>1 DEF OpenTrades, WithStatus
  <2> QED
    BY <1>0, <1>1, <2>1, Mapping, MappingAfter
    DEF HeldBy, SettledBy, UnchargedBy, Charging, OpenTrades, WithStatus
<1>4. Positive(account.deployed - task[c].outlay) = account.deployed - task[c].outlay
  <2>1. HeldBy(task[c]) = OpenTrades \cup {t}
    BY <1>0, <1>3, Mapping
  <2>2. /\ OutlayOf[t] = task[c].outlay
        /\ \A s \in OpenTrades \cup {t} : OutlayOf[s] \in Nat
    BY <1>0, <2>1, TotalsFacts
  <2>3. \A s \in OpenTrades \cup {t} : OutlayOf[s] \in Int
    BY <2>2
  <2>4. SumFunctionOnSet(OutlayOf, OpenTrades \cup {t})
          = SumFunctionOnSet(OutlayOf, OpenTrades) + OutlayOf[t]
    BY <1>3, <2>3, OpenCountIsNat, SumAdd
  <2>5. SumFunctionOnSet(OutlayOf, OpenTrades) \in Nat
    BY <2>2, OpenCountIsNat, SumIsNat
  <2>6. account.deployed = SumFunctionOnSet(OutlayOf, OpenTrades \cup {t}) + 0
    BY <1>0, <2>1 DEF TotalsHold
  <2> QED
    BY <1>0, <2>2, <2>4, <2>5, <2>6 DEF Positive, Rows
<1>5. Desk!Close(t, g)
  <2>1. /\ HeldTrades' = HeldTrades \ {t} /\ t \in HeldTrades
        /\ SettledTrades' = SettledTrades \cup {t}
    BY <1>3
  <2>2. account'.deployed - Uncharged' = account.deployed - Uncharged - trade[t].outlay
    BY <1>0, <1>2, <1>3, <1>4 DEF Rows
  <2> QED
    BY <1>0, <1>1, <1>2, <1>3, <2>1, <2>2 DEF Desk!Close
<1> QED
  BY <1>0, <1>5

\* Every other statement is invisible, or an edit of the capital.
LEMMA RequestInvisible ==
  ASSUME TypeOK, NEW c \in Callers, Holds(c), Lone(c)', Request(c)
  PROVE  UNCHANGED Desk!accountVars
<1>1. UNCHANGED <<account, trade>> /\ task[c].at = "idle"
  BY DEF Request, BeginOpen, BeginClose, BeginEdit, BeginToggle, BeginCapital,
         BeginRefresh, Start, Busy
<1>2. task'[c].at \in {"counting", "exitOrder", "saving", "capital", "marking"}
  <2>1. ASSUME NEW i \in Instruments, NEW o \in Outlays, BeginOpen(c, i, o)
        PROVE  task'[c].at = "counting"
    BY <2>1 DEF BeginOpen, Start, TypeOK, Idle
  <2>2. ASSUME NEW t \in Trades, NEW g \in Grosses, BeginClose(c, t, g)
        PROVE  task'[c].at = "exitOrder"
    BY <2>2 DEF BeginClose, Start, TypeOK, Idle
  <2>3. ASSUME NEW k \in Capitals, BeginEdit(c, k)
        PROVE  task'[c].at = "saving"
    BY <2>3 DEF BeginEdit, Start, TypeOK, Idle
  <2>4. BeginToggle(c) => task'[c].at = "saving"
    BY DEF BeginToggle, Start, TypeOK, Idle
  <2>5. ASSUME NEW k \in Capitals, BeginCapital(c, k)
        PROVE  task'[c].at = "capital"
    BY <2>5 DEF BeginCapital, Start, TypeOK, Idle
  <2>6. BeginRefresh(c) => task'[c].at = "marking"
    BY DEF BeginRefresh, Start, TypeOK, Idle
  <2> QED
    BY <2>1, <2>2, <2>3, <2>4, <2>5, <2>6 DEF Request
<1> QED
  BY <1>1, <1>2, InvisibleQuiet DEF Holds, Charging

LEMMA EditMapped ==
  ASSUME TypeOK, NEW c \in Callers, Holds(c), Lone(c)', EditStep(c)
  PROVE  UNCHANGED Desk!accountVars \/ \E k \in Capitals : Desk!SetCapital(k)
<1>0. /\ Lone(c) /\ RequestHolds(task[c]) /\ account \in Rows /\ trade' = trade
  BY DEF Holds, TypeOK, EditStep, SaveRow, SetCapital, RecordCapital, MarkPosition
<1>1. CASE SaveRow(c) \/ SetCapital(c)
  <2> SUFFICES ASSUME NEW k, k = task[c].row.capital
               PROVE  \E n \in Capitals : Desk!SetCapital(n)
    OBVIOUS
  <2>1. /\ task[c].row = [account EXCEPT !.capital = k, !.ceiling = k]
        /\ k \in Capitals /\ task[c].at \in {"saving", "capital"}
        /\ task'[c].at \in {"idle", "capitalEvent"}
    BY <1>0, <1>1, After DEF SaveRow, SetCapital, At, RequestHolds, CopyHolds
  <2>2. /\ account'.capital = k /\ account'.deployed = account.deployed
        /\ account'.netPnl = account.netPnl
    BY <1>0, <1>1, <2>1 DEF SaveRow, SetCapital, Rows
  <2>3. /\ HeldBy(task[c])' = HeldBy(task[c]) /\ SettledBy(task[c])' = SettledBy(task[c])
        /\ UnchargedBy(task[c]) = 0 /\ UnchargedBy(task[c])' = 0
    BY <1>0, <2>1 DEF HeldBy, SettledBy, UnchargedBy, Charging, OpenTrades, WithStatus
  <2>4. /\ HeldTrades' = HeldTrades /\ SettledTrades' = SettledTrades
        /\ Uncharged' = Uncharged
    BY <1>0, <2>3, Mapping, MappingAfter
  <2>5. Desk!SetCapital(k)
    BY <1>0, <2>2, <2>4 DEF Desk!SetCapital
  <2> QED
    BY <2>1, <2>5
<1>2. CASE RecordCapital(c)
  <2>1. account' = account /\ task[c].at = "capitalEvent" /\ task'[c].at = "idle"
    BY <1>2, After DEF RecordCapital, At
  <2> QED
    BY <1>0, <2>1, InvisibleQuiet DEF Charging
<1>3. ASSUME NEW t \in Trades, MarkPosition(c, t)
      PROVE  UNCHANGED Desk!accountVars
  <2>1. account' = account /\ task[c].at = "marking" /\ task'[c].at \in {"idle", "marking"}
    BY <1>3 DEF MarkPosition, At, TypeOK, Tasks, Idle
  <2> QED
    BY <1>0, <2>1, InvisibleQuiet DEF Charging
<1> QED
  BY <1>1, <1>2, <1>3 DEF EditStep

LEMMA OpenMapped ==
  ASSUME TypeOK, NEW c \in Callers, Holds(c), Lone(c)', OpenStep(c)
  PROVE  \/ UNCHANGED Desk!accountVars
         \/ \E t \in Trades, i \in Instruments, o \in Outlays : Desk!Open(t, i, o)
<1>0. Lone(c) /\ RequestHolds(task[c]) /\ account \in Rows
  BY DEF Holds, TypeOK
<1>1. CASE CountOpen(c) \/ LookupSame(c)
  <2>1. /\ UNCHANGED <<account, trade>> /\ task[c].at \in Reading
        /\ task'[c].at \in Reading
    BY <1>1 DEF CountOpen, LookupSame, At, Reading, TypeOK, Tasks
  <2> QED
    BY <1>0, <2>1, InvisibleQuiet DEF Charging, Reading
<1>2. CASE RefuseEntry(c) \/ SyncOpened(c) \/ RecordOpen(c)
  <2>1. /\ UNCHANGED <<account, trade>>
        /\ task[c].at \in {"insert", "openEvent", "openPosition"}
        /\ task'[c].at \in {"idle", "openPosition"}
    BY <1>2, After DEF RefuseEntry, SyncOpened, RecordOpen, At
  <2> QED
    BY <1>0, <2>1, InvisibleQuiet DEF Charging
<1>3. CASE SaveEntryOrder(c)
  <2>1. /\ UNCHANGED <<account, trade>>
        /\ task[c].at = "entryOrder" /\ task'[c].at = "deploy"
        /\ task'[c].trade = task[c].trade
    BY <1>3, After DEF SaveEntryOrder, At
  <2> QED
    BY <1>0, <2>1, InvisibleQuiet
<1>4. ASSUME NEW t \in Trades, InsertTrade(c, t)
      PROVE  UNCHANGED Desk!accountVars
  <2>1. /\ account' = account /\ task[c].at = "insert" /\ trade[t].status = "NONE"
        /\ task'[c].at = "entryOrder" /\ task'[c].trade = t
        /\ \A s \in Trades \ {t} : trade'[s] = trade[s]
        /\ trade'[t].status = "OPEN"
    BY <1>4 DEF InsertTrade, At, TypeOK, Tasks
  <2>2. /\ HeldBy(task[c])' = HeldBy(task[c]) /\ SettledBy(task[c])' = SettledBy(task[c])
        /\ UnchargedBy(task[c])' = UnchargedBy(task[c])
        /\ HeldBy(task[c]) \subseteq Trades \ {t} /\ SettledBy(task[c]) \subseteq Trades \ {t}
    BY <2>1 DEF HeldBy, SettledBy, UnchargedBy, Charging, OpenTrades, WithStatus
  <2> QED
    BY <1>0, <2>1, <2>2, Invisible
<1>5. CASE BookOutlay(c)
  <2>1. /\ trade' = trade /\ task[c].at = "deploy" /\ task[c].row = account
        /\ task'[c].at = "charge" /\ task'[c].trade = task[c].trade
        /\ task'[c].outlay = task[c].outlay
        /\ account' = [account EXCEPT
                         !.deployed = account.deployed + task[c].outlay,
                         !.openPositionCount = account.openPositionCount + 1]
    BY <1>0, <1>5, After DEF BookOutlay, At, RequestHolds, CopyHolds
  <2>2. /\ account'.capital = account.capital /\ account'.netPnl = account.netPnl
        /\ account'.deployed = account.deployed + task[c].outlay
    BY <1>0, <2>1 DEF Rows
  <2>3. /\ HeldBy(task[c])' = HeldBy(task[c]) /\ SettledBy(task[c])' = SettledBy(task[c])
    BY <2>1 DEF HeldBy, SettledBy, Charging, OpenTrades, WithStatus
  <2>4. account'.deployed - UnchargedBy(task[c])' = account.deployed - UnchargedBy(task[c])
    BY <1>0, <2>1, <2>2, TaskFields DEF UnchargedBy, Rows
  <2> QED
    BY <1>0, <2>1, <2>2, <2>3, <2>4, Invisible
<1> QED
  BY <1>1, <1>2, <1>3, <1>4, <1>5, ChargeOpens DEF OpenStep

LEMMA CloseMapped ==
  ASSUME TypeOK, NEW c \in Callers, Holds(c), Lone(c)', CloseStep(c)
  PROVE  \/ UNCHANGED Desk!accountVars
         \/ \E t \in Trades, g \in Grosses : Desk!Close(t, g)
<1>0. Lone(c) /\ RequestHolds(task[c])
  BY DEF Holds
<1>1. CASE SaveExitOrder(c) \/ RecordClose(c) \/ SyncClosed(c)
  <2>1. /\ UNCHANGED <<account, trade>>
        /\ task[c].at \in {"exitOrder", "closeEvents", "closePosition"}
        /\ task'[c].at \in {"closing", "closePosition", "idle"}
    BY <1>1, After DEF SaveExitOrder, RecordClose, SyncClosed, At
  <2> QED
    BY <1>0, <2>1, InvisibleQuiet DEF Charging
<1>2. CASE SaveClosedTrade(c)
  <2> DEFINE t == task[c].trade
  <2>1. /\ account' = account /\ task[c].at = "closing" /\ task'[c].at = "release"
        /\ task'[c].trade = t /\ t \in Trades /\ trade[t].status = "OPEN"
    BY <1>0, <1>2, After DEF SaveClosedTrade, At, RequestHolds, ExitHolds, CloseSteps,
                             Unclosed
  <2>2. /\ \A s \in Trades \ {t} : trade'[s] = trade[s]
        /\ trade'[t].status = "CLOSED" /\ trade'[t].outlay = trade[t].outlay
        /\ trade'[t].instrument = trade[t].instrument
    BY <1>2, <2>1 DEF SaveClosedTrade, TypeOK, TradeRows
  <2> HIDE DEF t
  <2>3. /\ HeldBy(task[c])' = HeldBy(task[c]) /\ SettledBy(task[c])' = SettledBy(task[c])
        /\ UnchargedBy(task[c])' = UnchargedBy(task[c])
        /\ HeldBy(task[c]) \subseteq Trades /\ SettledBy(task[c]) \subseteq Trades \ {t}
    BY <2>1, <2>2 DEF HeldBy, SettledBy, UnchargedBy, Charging, OpenTrades, WithStatus
  <2> QED
    BY <1>0, <2>1, <2>2, <2>3, Invisible
<1> QED
  BY <1>1, <1>2, ReleaseCloses DEF CloseStep

LEMMA StepMapped ==
  TypeOK /\ Serial /\ [Next]_vars /\ ~disturbed' => [Desk!Next]_(Desk!accountVars)
<1> SUFFICES ASSUME TypeOK, Serial, [Next]_vars, ~disturbed'
             PROVE  Desk!Next \/ UNCHANGED Desk!accountVars
  OBVIOUS
<1>1. ASSUME NEW c \in Callers,
             Request(c) \/ OpenStep(c) \/ CloseStep(c) \/ EditStep(c)
      PROVE  Desk!Next \/ UNCHANGED Desk!accountVars
  <2>1. Holds(c)
    BY <1>1, ActingHolds
  <2>2. Lone(c)'
    BY <1>1, <2>1, RequestSerial, QuietOpenSerial, InsertSerial, BookOutlaySerial,
       ChargeSerial, SyncOpenedSerial, QuietCloseSerial, SaveClosedSerial,
       ReleaseSerial, EditSerial
    DEF OpenStep, CloseStep, Holds
  <2> QED
    BY <1>1, <2>1, <2>2, RequestInvisible, OpenMapped, CloseMapped, EditMapped
    DEF Desk!Next
<1>2. CASE Crash
  BY <1>2 DEF Crash
<1>3. CASE UNCHANGED vars
  BY <1>3 DEF vars, Desk!accountVars, HeldTrades, SettledTrades, Uncharged, Entering,
              Leaving, OpenTrades, WithStatus, At
<1> QED
  BY <1>1, <1>2, <1>3 DEF Next

LEMMA InitMapped == Init => Desk!Init
<1> SUFFICES ASSUME Init PROVE Desk!Init
  OBVIOUS
<1>1. /\ account.capital \in Capitals /\ account.deployed = 0 /\ account.netPnl = 0
  BY DEF Init, NewRow
<1>2. /\ \A c \in Callers : task[c].at = "idle"
      /\ \A t \in Trades : trade[t].status = "NONE"
  BY DEF Init, Idle, NoTrade
<1>3. HeldTrades = {} /\ SettledTrades = {} /\ Uncharged = 0
  BY <1>2 DEF HeldTrades, SettledTrades, Uncharged, Entering, Leaving, OpenTrades,
              WithStatus, At
<1> QED
  BY <1>1, <1>3 DEF Desk!Init

\* Run one at a time and to the end, the statement sequences of openTrade,
\* closeTrade, updateCapital and the edits are the atomic operations of Account:
\* every behaviour of the desk, with any number of callers, in which no two
\* requests overlap and no crash cuts one is a behaviour of Account.
THEOREM UndisturbedImplements == Spec /\ []~disturbed => Implements
BY TypeCorrect, AlwaysSerial, InitMapped, StepMapped, PTL DEF Spec, Implements, Desk!Spec
=============================================================================
