------------------------------ MODULE WeekRoll ------------------------------
(***************************************************************************)
(* The weekly roll of the paper capital (applyWeekRoll of                  *)
(* UpstoxLivePaperCapitalContinuityService): the closing equity of a week  *)
(* becomes the available capital, at most once per week, and only when the *)
(* trades and the portfolio row agree.                                     *)
(*                                                                         *)
(* The desk is the module Account: its requests are single steps here,     *)
(* which PaperDesk implements when they do not overlap.  A roll is not: it *)
(* reads the row, the closed trades, the open trades and the events one    *)
(* await after the other, writes the event that marks the week, and only   *)
(* then changes the capital; the desk, the operator, a second roll and the *)
(* death of the process come in between.                                   *)
(*                                                                         *)
(* Nothing ever writes the row's unrealised figure, so a carried position  *)
(* passes the cross-check only with a mark that values it at its cost: the *)
(* valuation is the choice of whether that is so.                          *)
(***************************************************************************)
EXTENDS Account, Functions

CONSTANTS
  Rollers,     \* requests that may roll at once
  LastWeek,    \* bound: weeks are numbered 0 to LastWeek
  MinEquity,   \* MIN_ROLL_EQUITY
  MaxCrashes   \* bound on the crashes of one behaviour

ASSUME RollAssumption ==
  /\ IsFiniteSet(Rollers) /\ EntryCost \in Nat /\ ExitCost \in Nat
  /\ LastWeek \in Nat /\ MinEquity \in Nat \ {0} /\ MaxCrashes \in Nat
  /\ Capitals \subseteq Nat \ {0} /\ Outlays \subseteq Nat /\ Grosses \subseteq Int

VARIABLES
  week,        \* the current trading week
  openedIn,    \* per trade, the week of its entry
  closedIn,    \* per trade, the week of its exit
  roll,        \* per roller, the roll it is executing
  rolled,      \* weeks with a WEEK_CARRY_FORWARD event
  applied,     \* per week, how often a roll has set the capital
  overlapped,  \* history: a roll ran beside another or beside a capital edit
  crashes

rollVars == <<roll, rolled, applied, overlapped, crashes>>
vars == <<accountVars, week, openedIn, closedIn, rollVars>>

Weeks == 0..LastWeek

RollSteps == {"idle", "closed", "open", "events", "mark", "update", "set"}

Rolls == [at: RollSteps, week: Weeks, capital: Nat, netPnl: Int, earned: Int,
          valued: BOOLEAN, over: BOOLEAN]

NoRoll == [at |-> "idle", week |-> 0, capital |-> 0, netPnl |-> 0,
           earned |-> 0, valued |-> TRUE, over |-> FALSE]

Rolling == {r \in Rollers : roll[r].at # "idle"}

\* Net results of the trades closed by the end of week w.
ClosedBy(w) == {t \in DOMAIN settled : closedIn[t] <= w}
Earned(w)   == SumFunctionOnSet(settled, ClosedBy(w))

RollInit ==
  /\ Init
  /\ week = 0
  /\ openedIn = [t \in Trades |-> 0]
  /\ closedIn = [t \in Trades |-> 0]
  /\ roll = [r \in Rollers |-> NoRoll]
  /\ rolled = {}
  /\ applied = [w \in Weeks |-> 0]
  /\ overlapped = FALSE
  /\ crashes = 0
-----------------------------------------------------------------------------
(* The desk and the calendar *)

Enter(t, i, o) ==
  /\ Open(t, i, o)
  /\ openedIn' = [openedIn EXCEPT ![t] = week]
  /\ UNCHANGED <<week, closedIn, rollVars>>

Exit(t, g) ==
  /\ Close(t, g)
  /\ closedIn' = [closedIn EXCEPT ![t] = week]
  /\ UNCHANGED <<week, openedIn, rollVars>>

Configure(k) ==
  /\ k # capital
  /\ SetCapital(k)
  /\ overlapped' = (overlapped \/ Rolling # {})
  /\ UNCHANGED <<week, openedIn, closedIn, roll, rolled, applied, crashes>>

NewWeek ==
  /\ week < LastWeek
  /\ week' = week + 1
  /\ UNCHANGED <<accountVars, openedIn, closedIn, rollVars>>
-----------------------------------------------------------------------------
(* applyWeekRoll *)

Step(r, k) == roll' = [roll EXCEPT ![r] = k]
DeskWaits  == UNCHANGED <<accountVars, week, openedIn, closedIn>>
NoWrite    == DeskWaits /\ UNCHANGED <<rolled, applied, overlapped, crashes>>

\* Any week may be named in the request, one still running included; whether it
\* was over is kept for the properties.
BeginRoll(r, w) ==
  /\ r \notin Rolling
  /\ w <= week
  /\ Step(r, [NoRoll EXCEPT !.at = "closed", !.week = w,
                            !.capital = capital, !.netPnl = netPnl,
                            !.over = w < week])
  /\ overlapped' = (overlapped \/ Rolling # {})
  /\ DeskWaits /\ UNCHANGED <<rolled, applied, crashes>>

\* Slip: the closed trades are not cut at the end of the week.
ReadClosedUncut(r) ==
  /\ roll[r].at = "closed"
  /\ Step(r, [roll[r] EXCEPT !.at = "open", !.earned = Earned(LastWeek)])
  /\ NoWrite

ReadClosed(r) ==
  /\ roll[r].at = "closed"
  /\ Step(r, [roll[r] EXCEPT !.at = "open", !.earned = Earned(roll[r].week)])
  /\ NoWrite

Carried(w) == {t \in DOMAIN held : openedIn[t] <= w}

ReadOpen(r) ==
  \E v \in BOOLEAN :
    /\ roll[r].at = "open"
    /\ Carried(roll[r].week) = {} => v
    /\ Step(r, [roll[r] EXCEPT !.at = "events", !.valued = v])
    /\ NoWrite

ClosingEquity(k) == k.capital + k.earned

\* Slip: a week that wiped the account out is rolled like any other.
RollableWiped(k) == k.earned = k.netPnl /\ k.valued

\* The blockers of computeWeekCloseEquity, and the refusal of a wiped-out week.
Rollable(k) ==
  /\ k.earned = k.netPnl
  /\ k.valued
  /\ ClosingEquity(k) >= MinEquity

FindMark(r) ==
  LET k == roll[r] IN
  /\ k.at = "events"
  /\ Step(r, IF k.week \notin rolled /\ Rollable(k)
             THEN [k EXCEPT !.at = "mark"] ELSE NoRoll)
  /\ NoWrite

\* Slip: the event that marks the week is not saved.
WriteMarkSkipped(r) ==
  LET k == roll[r] IN
  /\ k.at = "mark"
  /\ Step(r, IF ClosingEquity(k) # k.capital
             THEN [k EXCEPT !.at = "update"] ELSE NoRoll)
  /\ DeskWaits /\ UNCHANGED <<rolled, applied, overlapped, crashes>>

\* The event is saved first; an unchanged capital needs no update.
WriteMark(r) ==
  LET k == roll[r] IN
  /\ k.at = "mark"
  /\ rolled' = rolled \cup {k.week}
  /\ Step(r, IF ClosingEquity(k) # k.capital
             THEN [k EXCEPT !.at = "update"] ELSE NoRoll)
  /\ DeskWaits /\ UNCHANGED <<applied, overlapped, crashes>>

\* updateCapital reads the row again and returns when it has the capital asked for.
ReadCapital(r) ==
  LET k == roll[r] IN
  /\ k.at = "update"
  /\ Step(r, IF ClosingEquity(k) = capital THEN NoRoll ELSE [k EXCEPT !.at = "set"])
  /\ NoWrite

RollCapital(r) ==
  LET k == roll[r] IN
  /\ k.at = "set"
  /\ SetCapital(ClosingEquity(k))
  /\ applied' = [applied EXCEPT ![k.week] = @ + 1]
  /\ Step(r, NoRoll)
  /\ UNCHANGED <<week, openedIn, closedIn, rolled, overlapped, crashes>>

Crash ==
  /\ Rolling # {} /\ crashes < MaxCrashes
  /\ roll' = [r \in Rollers |-> NoRoll]
  /\ crashes' = crashes + 1
  /\ DeskWaits /\ UNCHANGED <<rolled, applied, overlapped>>

RollStep(r) ==
  \/ \E w \in Weeks : BeginRoll(r, w)
  \/ ReadClosed(r) \/ ReadOpen(r) \/ FindMark(r)
  \/ WriteMark(r) \/ ReadCapital(r) \/ RollCapital(r)

RollNext ==
  \/ \E t \in Trades, i \in Instruments, o \in Outlays : Enter(t, i, o)
  \/ \E t \in Trades, g \in Grosses : Exit(t, g)
  \/ \E k \in Capitals : Configure(k)
  \/ NewWeek
  \/ \E r \in Rollers : RollStep(r)
  \/ Crash

RollSpec == RollInit /\ [][RollNext]_vars
-----------------------------------------------------------------------------
(* Properties *)

\* Every variable keeps its kind; the capital in force is never wiped out.
TypeOK ==
  /\ capital \in Nat \ {0} /\ deployed \in Nat /\ netPnl \in Int
  /\ DOMAIN held \subseteq Trades /\ DOMAIN settled \subseteq Trades
  /\ week \in Weeks
  /\ openedIn \in [Trades -> Weeks] /\ closedIn \in [Trades -> Weeks]
  /\ roll \in [Rollers -> Rolls]
  /\ rolled \subseteq Weeks
  /\ applied \in [Weeks -> Nat]
  /\ overlapped \in BOOLEAN
  /\ crashes \in 0..MaxCrashes

\* applyWeekRoll, "idempotent per week": a week that set the capital is on
\* record, and it set it once, wherever a crash fell; only requests that overlap
\* can set it again, each of them once.
OneRollPerWeek ==
  \A w \in Weeks :
    /\ applied[w] > 0 => w \in rolled
    /\ applied[w] <= IF overlapped THEN Cardinality(Rollers) ELSE 1

\* The step sets the capital for week w, in a roll asked for after that week.
Advances(w) ==
  /\ applied'[w] > applied[w]
  /\ \E r \in Rollers : roll[r].at = "set" /\ roll[r].week = w /\ roll[r].over
                        /\ roll'[r].at = "idle"

\* The first roll of an account, asked for once the week is over, adds to the capital
\* exactly what the trades closed by the end of that week brought in, whatever
\* the desk trades while it is under way.
FirstRollEarned ==
  [][\A w \in Weeks :
       /\ Advances(w)
       /\ \A v \in Weeks : applied[v] = 0
       /\ ~overlapped
       => capital' = capital + Earned(w)]_vars
=============================================================================
