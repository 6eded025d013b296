---------------------------- MODULE WeekRollProofs ----------------------------
(* Theorems about WeekRoll, for any number of rolling requests, weeks, trades *)
(* and crashes.                                                              *)
EXTENDS WeekRoll, SumTheorems

\* The sum a roll holds is typed apart, from what the desk keeps of the closed trades
\* (YearInv below): here it may be anything.
RollsWith(e) == [at: RollSteps, week: Weeks, capital: Nat, netPnl: Int, earned: {e},
                 valued: BOOLEAN, over: BOOLEAN]

\* Past the blockers the sum equals the row's figure, which is a number.
Cleared(k) == k.at \in {"mark", "update", "set"} =>
                /\ k.earned \in Int
                /\ ClosingEquity(k) >= MinEquity

RollsTyped ==
  /\ roll = [r \in Rollers |-> roll[r]]
  /\ \A r \in Rollers : roll[r] \in RollsWith(roll[r].earned) /\ Cleared(roll[r])

MarksTyped ==
  /\ rolled \subseteq Weeks
  /\ applied \in [Weeks -> Nat]
  /\ overlapped \in BOOLEAN

DeskTyped == capital \in Nat \ {0} /\ netPnl \in Int

\* The rolls of week w that have found it unmarked and are not over.
InFlight(w) ==
  {r \in Rollers : roll[r].week = w /\ roll[r].at \in {"mark", "update", "set"}}

OnRecord ==
  /\ \A w \in Weeks : applied[w] > 0 => w \in rolled
  /\ \A r \in Rollers : roll[r].at \in {"update", "set"} => roll[r].week \in rolled

Counted ==
  \A w \in Weeks : applied[w] + Cardinality(InFlight(w)) <= Cardinality(Rollers)

Alone ==
  ~overlapped =>
    /\ \A r, s \in Rolling : r = s
    /\ \A w \in Weeks : applied[w] <= 1 /\ (applied[w] = 1 => InFlight(w) = {})

RollInv == DeskTyped /\ RollsTyped /\ MarksTyped /\ OnRecord /\ Counted /\ Alone

\* The rolls under way are counted by a natural number no greater than the rollers.
LEMMA InFlightFinite ==
  \A w : /\ IsFiniteSet(InFlight(w))
         /\ Cardinality(InFlight(w)) \in Nat
         /\ Cardinality(Rollers) \in Nat
         /\ Cardinality(InFlight(w)) <= Cardinality(Rollers)
BY RollAssumption, FS_Subset, FS_CardinalityType DEF RollAssumption, InFlight

\* A step of one roller changes its own record only.
LEMMA StepFacts ==
  ASSUME RollsTyped, NEW r \in Rollers, NEW k, Step(r, k)
  PROVE  /\ roll' = [s \in Rollers |-> roll'[s]]
         /\ roll'[r] = k
         /\ \A s \in Rollers \ {r} : roll'[s] = roll[s]
BY DEF RollsTyped, Step

LEMMA NoRollTyped ==
  /\ NoRoll \in RollsWith(NoRoll.earned) /\ Cleared(NoRoll) /\ NoRoll.at = "idle"
BY RollAssumption DEF RollAssumption, NoRoll, RollsWith, RollSteps, Weeks, Cleared

LEMMA InitInv == RollInit => RollInv
<1> SUFFICES ASSUME RollInit PROVE RollInv
  OBVIOUS
<1>1. DeskTyped
  BY RollAssumption DEF RollAssumption, RollInit, Init, DeskTyped
<1>2. RollsTyped
  BY NoRollTyped DEF RollInit, RollsTyped
<1>3. MarksTyped
  BY DEF RollInit, MarksTyped
<1>4. OnRecord /\ Alone
  BY NoRollTyped DEF RollInit, OnRecord, Alone, Rolling
<1>5. Counted
  BY InFlightFinite DEF RollInit, Counted
<1> QED
  BY <1>1, <1>2, <1>3, <1>4, <1>5 DEF RollInv

\* The desk and the calendar do not touch what the rolls know.
LEMMA DeskKeeps ==
  ASSUME RollInv, DeskTyped',
         UNCHANGED <<roll, rolled, applied>>, overlapped' \in BOOLEAN,
         overlapped => overlapped'
  PROVE  RollInv'
<1>1. \A w : InFlight(w)' = InFlight(w)
  BY DEF InFlight
<1> QED
  BY <1>1 DEF RollInv, RollsTyped, MarksTyped, OnRecord, Counted, Alone, Rolling

\* A roll that moves without going past the blockers, or away from them.
LEMMA ReadKeeps ==
  ASSUME RollInv, NEW r \in Rollers, NEW k, Step(r, k),
         k \in RollsWith(k.earned), Cleared(k),
         k.at \in {"mark", "update", "set"} =>
           /\ r \in InFlight(k.week)
           /\ k.at = "mark" \/ k.week \in rolled',
         k.at # "idle" => r \in Rolling \/ overlapped' \/ Rolling = {},
         rolled \subseteq rolled', rolled' \subseteq Weeks, DeskTyped', applied' = applied,
         overlapped' \in BOOLEAN, overlapped => overlapped'
  PROVE  RollInv'
<1>0. /\ roll' = [s \in Rollers |-> roll'[s]]
      /\ roll'[r] = k
      /\ \A s \in Rollers \ {r} : roll'[s] = roll[s]
  BY StepFacts DEF RollInv
<1>1. RollsTyped'
  BY <1>0 DEF RollInv, RollsTyped
<1>2. \A w : InFlight(w)' \subseteq InFlight(w)
  BY <1>0 DEF InFlight
<1>3. OnRecord'
  BY <1>0 DEF RollInv, OnRecord, MarksTyped
<1>4. Counted'
  <2> SUFFICES ASSUME NEW w \in Weeks
               PROVE  applied[w] + Cardinality(InFlight(w)') <= Cardinality(Rollers)
    BY DEF Counted
  <2>1. /\ Cardinality(InFlight(w)') <= Cardinality(InFlight(w))
        /\ Cardinality(InFlight(w)') \in Nat
    BY <1>2, InFlightFinite, FS_Subset, FS_CardinalityType
  <2> QED
    BY <2>1, InFlightFinite DEF RollInv, Counted, MarksTyped
<1>5. Alone'
  <2> SUFFICES ASSUME ~overlapped'
               PROVE  /\ \A s, u \in Rolling' : s = u
                      /\ \A w \in Weeks : applied[w] <= 1 /\ (applied[w] = 1 => InFlight(w)' = {})
    BY DEF Alone
  <2>1. \A s, u \in Rolling' : s = u
    BY <1>0 DEF RollInv, Alone, Rolling, MarksTyped
  <2> QED
    BY <1>2, <2>1 DEF RollInv, Alone, MarksTyped
<1> QED
  BY <1>1, <1>3, <1>4, <1>5 DEF RollInv, MarksTyped

\* Passing the blockers: no roll of the week has set the capital yet.
LEMMA MarkKeeps ==
  ASSUME RollInv, NEW r \in Rollers, FindMark(r)
  PROVE  RollInv'
<1> DEFINE k == roll[r]
<1>0. /\ k.at = "events" /\ k \in RollsWith(k.earned) /\ r \in Rolling
      /\ UNCHANGED <<capital, netPnl, rolled, applied, overlapped>>
  BY DEF RollInv, RollsTyped, FindMark, NoWrite, DeskWaits, accountVars, Rolling
<1>1. CASE k.week \notin rolled /\ Rollable(k)
  <2>1. Step(r, [k EXCEPT !.at = "mark"])
    BY <1>1 DEF FindMark
  <2>2. /\ [k EXCEPT !.at = "mark"] \in RollsWith(k.earned)
        /\ k.earned \in Int
    BY <1>0, <1>1 DEF RollsWith, RollSteps, Rollable
  <2>3. /\ Cleared([k EXCEPT !.at = "mark"])
        /\ [k EXCEPT !.at = "mark"].earned = k.earned
        /\ [k EXCEPT !.at = "mark"].week = k.week /\ [k EXCEPT !.at = "mark"].at = "mark"
    BY <1>0, <1>1, <2>2 DEF Cleared, Rollable, ClosingEquity, RollsWith
  <2>4. /\ roll' = [s \in Rollers |-> roll'[s]]
        /\ roll'[r] = [k EXCEPT !.at = "mark"]
        /\ \A s \in Rollers \ {r} : roll'[s] = roll[s]
    BY <2>1, StepFacts DEF RollInv
  <2>5. RollsTyped'
    BY <2>2, <2>3, <2>4 DEF RollInv, RollsTyped
  <2>. PICK v \in Weeks : v = k.week
    BY <1>0 DEF RollsWith
  <2>6. applied[v] = 0
    BY <1>0, <1>1 DEF RollInv, OnRecord, MarksTyped
  <2>7. \A w \in Weeks \ {v} : InFlight(w)' = InFlight(w)
    <3> SUFFICES ASSUME NEW w \in Weeks \ {v}, NEW s \in Rollers
                 PROVE  s \in InFlight(w)' <=> s \in InFlight(w)
      BY DEF InFlight
    <3>1. CASE s = r
      <4>1. roll'[s].week = v
        BY <2>3, <2>4, <3>1
      <4> QED
        BY <3>1, <4>1 DEF InFlight
    <3>2. CASE s # r
      BY <2>4, <3>2 DEF InFlight
    <3> QED
      BY <3>1, <3>2
  <2>8. Counted'
    <3>1. /\ Cardinality(InFlight(v)') <= Cardinality(Rollers)
          /\ Cardinality(InFlight(v)') \in Nat
      <4>1. InFlight(v)' \subseteq Rollers
        BY DEF InFlight
      <4> QED
        BY <4>1, RollAssumption, FS_Subset, FS_CardinalityType DEF RollAssumption
    <3> QED
      <4> SUFFICES ASSUME NEW w \in Weeks
                   PROVE  applied[w] + Cardinality(InFlight(w)') <= Cardinality(Rollers)
        BY <1>0 DEF Counted
      <4>1. CASE w = v
        BY <2>6, <3>1, <4>1, InFlightFinite
      <4>2. CASE w # v
        BY <2>7, <4>2 DEF RollInv, Counted
      <4> QED
        BY <4>1, <4>2
  <2>9. OnRecord'
    BY <1>0, <2>3, <2>4 DEF RollInv, OnRecord
  <2>10. Alone'
    <3>1. Rolling' = Rolling
      BY <1>0, <2>3, <2>4 DEF Rolling
    <3> QED
      BY <1>0, <2>6, <2>7, <3>1 DEF RollInv, Alone
  <2> QED
    BY <1>0, <2>5, <2>8, <2>9, <2>10 DEF RollInv, DeskTyped, MarksTyped
<1>2. CASE ~(k.week \notin rolled /\ Rollable(k))
  <2>1. Step(r, NoRoll)
    BY <1>2 DEF FindMark
  <2> QED
    BY <1>0, <2>1, NoRollTyped, ReadKeeps DEF RollInv, DeskTyped, MarksTyped
<1> QED
  BY <1>1, <1>2

\* Setting the capital uses up one of the rolls in flight.
LEMMA SetKeeps ==
  ASSUME RollInv, NEW r \in Rollers, RollCapital(r)
  PROVE  RollInv'
<1> DEFINE k == roll[r]
<1>0. /\ k.at = "set" /\ k \in RollsWith(k.earned) /\ Cleared(k)
      /\ k.week \in Weeks /\ k.week \in rolled /\ r \in InFlight(k.week)
      /\ Step(r, NoRoll) /\ UNCHANGED <<netPnl, rolled, overlapped>>
  BY DEF RollInv, RollsTyped, RollCapital, SetCapital, RollsWith, OnRecord, InFlight
<1>. PICK v \in Weeks : v = k.week
  BY <1>0
<1>1. /\ roll' = [s \in Rollers |-> roll'[s]]
      /\ roll'[r] = NoRoll
      /\ \A s \in Rollers \ {r} : roll'[s] = roll[s]
  BY <1>0, StepFacts DEF RollInv
<1>2. /\ \A w : InFlight(w)' = InFlight(w) \ {r}
  BY <1>1, NoRollTyped DEF InFlight
<1>3. /\ applied'[v] = applied[v] + 1
      /\ \A w \in Weeks \ {v} : applied'[w] = applied[w]
      /\ applied' \in [Weeks -> Nat]
  BY <1>0 DEF RollInv, MarksTyped, RollCapital
<1>4. DeskTyped'
  BY <1>0, RollAssumption
  DEF RollAssumption, RollInv, DeskTyped, RollCapital, SetCapital, Cleared, ClosingEquity,
      RollsWith
<1>5. RollsTyped'
  BY <1>1, NoRollTyped DEF RollInv, RollsTyped
<1>6. OnRecord'
  BY <1>0, <1>1, <1>3, NoRollTyped DEF RollInv, OnRecord
<1>7. Counted'
  <2>1. Cardinality(InFlight(v)') = Cardinality(InFlight(v)) - 1
    <3>1. Cardinality(InFlight(v) \ {r}) = Cardinality(InFlight(v)) - 1
      <4> DEFINE I == InFlight(v)
      <4>1. IsFiniteSet(I) /\ r \in I
        BY <1>0, InFlightFinite
      <4> HIDE DEF I
      <4>2. Cardinality(I \ {r}) = Cardinality(I) - 1
        BY <4>1, FS_RemoveElement
      <4> QED
        BY <4>2 DEF I
    <3> QED
      BY <1>2, <3>1
  <2>2. \A w \in Weeks : /\ Cardinality(InFlight(w)') <= Cardinality(InFlight(w))
                         /\ Cardinality(InFlight(w)') \in Nat
    BY <1>2, InFlightFinite, FS_Subset, FS_CardinalityType
  <2> SUFFICES ASSUME NEW w \in Weeks
               PROVE  applied'[w] + Cardinality(InFlight(w)') <= Cardinality(Rollers)
    BY DEF Counted
  <2>3. /\ applied[w] + Cardinality(InFlight(w)) <= Cardinality(Rollers)
        /\ applied[w] \in Nat
    BY DEF RollInv, Counted, MarksTyped
  <2>4. CASE w = v
    BY <1>3, <2>1, <2>3, <2>4, InFlightFinite
  <2>5. CASE w # v
    BY <1>3, <2>2, <2>3, <2>5, InFlightFinite
  <2> QED
    BY <2>4, <2>5
<1>8. Alone'
  <2> SUFFICES ASSUME ~overlapped
               PROVE  /\ \A s, u \in Rolling' : s = u
                      /\ \A w \in Weeks : applied'[w] <= 1
                                          /\ (applied'[w] = 1 => InFlight(w)' = {})
    BY <1>0 DEF Alone
  <2>1. \A s, u \in Rolling : s = u
    BY DEF RollInv, Alone
  <2>2. Rolling' = {}
    BY <1>0, <1>1, <2>1, NoRollTyped DEF Rolling
  <2>3. \A w : InFlight(w)' = {}
    BY <2>2 DEF InFlight, Rolling
  <2>4. applied[v] = 0
    BY <1>0 DEF RollInv, Alone, MarksTyped
  <2> QED
    BY <1>3, <2>2, <2>3, <2>4 DEF RollInv, Alone
<1> QED
  BY <1>0, <1>3, <1>4, <1>5, <1>6, <1>7, <1>8 DEF RollInv, MarksTyped

\* A crash ends every roll and takes back nothing.
LEMMA CrashKeeps == RollInv /\ Crash => RollInv'
<1> SUFFICES ASSUME RollInv, Crash PROVE RollInv'
  OBVIOUS
<1>1. /\ roll' = [r \in Rollers |-> NoRoll]
      /\ UNCHANGED <<capital, netPnl, rolled, applied, overlapped>>
  BY DEF Crash, DeskWaits, accountVars
<1>2. /\ \A w : InFlight(w)' = {}
      /\ Rolling' = {}
  BY <1>1, NoRollTyped DEF InFlight, Rolling
<1>3. Counted'
  BY <1>1, <1>2, InFlightFinite, FS_EmptySet DEF RollInv, Counted, MarksTyped
<1> QED
  BY <1>1, <1>2, <1>3, NoRollTyped
  DEF RollInv, DeskTyped, RollsTyped, MarksTyped, OnRecord, Alone

\* The other steps of a roll.
LEMMA ReaderKeeps ==
  ASSUME RollInv, NEW r \in Rollers,
         \/ \E w \in Weeks : BeginRoll(r, w)
         \/ ReadClosed(r) \/ ReadOpen(r) \/ WriteMark(r) \/ ReadCapital(r)
  PROVE  RollInv'
<1> DEFINE k == roll[r]
<1>0. k \in RollsWith(k.earned) /\ Cleared(k) /\ k.week \in Weeks
  BY DEF RollInv, RollsTyped, RollsWith
<1>1. ASSUME NEW w \in Weeks, BeginRoll(r, w) PROVE RollInv'
  <2> DEFINE b == [NoRoll EXCEPT !.at = "closed", !.week = w, !.capital = capital,
                                 !.netPnl = netPnl, !.over = w < week]
  <2>1. b \in RollsWith(b.earned) /\ Cleared(b) /\ b.at = "closed"
    <3>1. NoRoll \in RollsWith(0) /\ capital \in Nat /\ netPnl \in Int
      BY NoRollTyped DEF NoRoll, RollInv, DeskTyped
    <3>2. \A o \in BOOLEAN :
            LET c == [NoRoll EXCEPT !.at = "closed", !.week = w, !.capital = capital,
                                    !.netPnl = netPnl, !.over = o]
            IN  c \in RollsWith(0) /\ c.at = "closed" /\ c.earned = 0
      BY <3>1 DEF RollsWith, RollSteps
    <3>. PICK o \in BOOLEAN : o = (w < week)
      <4>1. (w < week) \in BOOLEAN
        OBVIOUS
      <4> QED
        BY <4>1, Zenon
    <3>3. b \in RollsWith(0) /\ b.at = "closed" /\ b.earned = 0
      BY <3>2
    <3> HIDE DEF b
    <3> QED
      BY <3>3 DEF Cleared
  <2>2. /\ Step(r, b)
        /\ UNCHANGED <<capital, netPnl, rolled, applied>>
        /\ overlapped' = (overlapped \/ Rolling # {})
    BY <1>1 DEF BeginRoll, DeskWaits, accountVars
  <2> HIDE DEF b
  <2> QED
    BY <2>1, <2>2, ReadKeeps DEF RollInv, DeskTyped, MarksTyped
<1>2. CASE ReadClosed(r)
  <2> DEFINE b == [k EXCEPT !.at = "open", !.earned = Earned(k.week)]
  <2>1. b \in RollsWith(b.earned) /\ Cleared(b) /\ b.at = "open"
    BY <1>0 DEF RollsWith, RollSteps, Cleared
  <2>2. /\ Step(r, b) /\ r \in Rolling
        /\ UNCHANGED <<capital, netPnl, rolled, applied, overlapped>>
    BY <1>2 DEF ReadClosed, NoWrite, DeskWaits, accountVars, Rolling
  <2> HIDE DEF b
  <2> QED
    BY <2>1, <2>2, ReadKeeps DEF RollInv, DeskTyped, MarksTyped
<1>3. CASE ReadOpen(r)
  <2>0. PICK v \in BOOLEAN : /\ k.at = "open"
                             /\ Step(r, [k EXCEPT !.at = "events", !.valued = v])
                             /\ NoWrite
    BY <1>3 DEF ReadOpen
  <2> DEFINE b == [k EXCEPT !.at = "events", !.valued = v]
  <2>1. b \in RollsWith(b.earned) /\ Cleared(b) /\ b.at = "events"
    BY <1>0 DEF RollsWith, RollSteps, Cleared
  <2>2. /\ Step(r, b) /\ r \in Rolling
        /\ UNCHANGED <<capital, netPnl, rolled, applied, overlapped>>
    BY <2>0 DEF NoWrite, DeskWaits, accountVars, Rolling
  <2> HIDE DEF b
  <2> QED
    BY <2>1, <2>2, ReadKeeps DEF RollInv, DeskTyped, MarksTyped
<1>4. CASE WriteMark(r)
  <2>1. /\ k.at = "mark" /\ r \in Rolling /\ r \in InFlight(k.week)
        /\ rolled' = rolled \cup {k.week}
        /\ UNCHANGED <<capital, netPnl, applied, overlapped>>
    BY <1>4 DEF WriteMark, DeskWaits, accountVars, Rolling, InFlight
  <2>2. CASE ClosingEquity(k) # k.capital
    <3> DEFINE b == [k EXCEPT !.at = "update"]
    <3>1. /\ b \in RollsWith(b.earned) /\ Cleared(b) /\ b.at = "update"
          /\ b.week = k.week
      BY <1>0, <2>1 DEF RollsWith, RollSteps, Cleared, ClosingEquity
    <3>2. Step(r, b)
      BY <1>4, <2>2 DEF WriteMark
    <3> HIDE DEF b
    <3> QED
      BY <1>0, <2>1, <3>1, <3>2, ReadKeeps DEF RollInv, DeskTyped, MarksTyped
  <2>3. CASE ClosingEquity(k) = k.capital
    <3>1. Step(r, NoRoll)
      BY <1>4, <2>3 DEF WriteMark
    <3> QED
      BY <1>0, <2>1, <3>1, NoRollTyped, ReadKeeps DEF RollInv, DeskTyped, MarksTyped
  <2> QED
    BY <2>2, <2>3
<1>5. CASE ReadCapital(r)
  <2>1. /\ k.at = "update" /\ r \in Rolling /\ r \in InFlight(k.week) /\ k.week \in rolled
        /\ UNCHANGED <<capital, netPnl, rolled, applied, overlapped>>
    BY <1>5 DEF ReadCapital, NoWrite, DeskWaits, accountVars, Rolling, InFlight, RollInv,
                OnRecord
  <2>2. CASE ClosingEquity(k) # capital
    <3> DEFINE b == [k EXCEPT !.at = "set"]
    <3>1. /\ b \in RollsWith(b.earned) /\ Cleared(b) /\ b.at = "set"
          /\ b.week = k.week
      BY <1>0, <2>1 DEF RollsWith, RollSteps, Cleared, ClosingEquity
    <3>2. Step(r, b)
      BY <1>5, <2>2 DEF ReadCapital
    <3> HIDE DEF b
    <3> QED
      BY <2>1, <3>1, <3>2, ReadKeeps DEF RollInv, DeskTyped, MarksTyped
  <2>3. CASE ClosingEquity(k) = capital
    <3>1. Step(r, NoRoll)
      BY <1>5, <2>3 DEF ReadCapital
    <3> QED
      BY <2>1, <3>1, NoRollTyped, ReadKeeps DEF RollInv, DeskTyped, MarksTyped
  <2> QED
    BY <2>2, <2>3
<1> QED
  BY <1>1, <1>2, <1>3, <1>4, <1>5

LEMMA StepInv == RollInv /\ [RollNext]_vars => RollInv'
<1> SUFFICES ASSUME RollInv, [RollNext]_vars PROVE RollInv'
  OBVIOUS
<1>1. ASSUME NEW t \in Trades, NEW i \in Instruments, NEW o \in Outlays, Enter(t, i, o)
      PROVE  RollInv'
  <2>1. DeskTyped' /\ UNCHANGED <<roll, rolled, applied, overlapped>>
    BY <1>1, RollAssumption
    DEF RollAssumption, Enter, Open, rollVars, RollInv, DeskTyped
  <2> QED
    BY <2>1, DeskKeeps DEF RollInv, MarksTyped
<1>2. ASSUME NEW t \in Trades, NEW g \in Grosses, Exit(t, g) PROVE RollInv'
  <2>1. DeskTyped' /\ UNCHANGED <<roll, rolled, applied, overlapped>>
    BY <1>2, RollAssumption
    DEF RollAssumption, Exit, Close, rollVars, RollInv, DeskTyped
  <2> QED
    BY <2>1, DeskKeeps DEF RollInv, MarksTyped
<1>3. ASSUME NEW c \in Capitals, Configure(c) PROVE RollInv'
  <2>1. /\ DeskTyped' /\ UNCHANGED <<roll, rolled, applied>>
        /\ overlapped' = (overlapped \/ Rolling # {})
    BY <1>3, RollAssumption
    DEF RollAssumption, Configure, SetCapital, RollInv, DeskTyped
  <2> QED
    BY <2>1, DeskKeeps DEF RollInv, MarksTyped
<1>4. CASE NewWeek \/ UNCHANGED vars
  <2>1. DeskTyped' /\ UNCHANGED <<roll, rolled, applied, overlapped>>
    BY <1>4 DEF NewWeek, vars, rollVars, accountVars, RollInv, DeskTyped
  <2> QED
    BY <2>1, DeskKeeps DEF RollInv, MarksTyped
<1>5. ASSUME NEW r \in Rollers, RollStep(r) PROVE RollInv'
  BY <1>5, ReaderKeeps, MarkKeeps, SetKeeps DEF RollStep
<1>6. CASE Crash
  BY <1>6, CrashKeeps
<1> QED
  BY <1>1, <1>2, <1>3, <1>4, <1>5, <1>6 DEF RollNext

\* applyWeekRoll: whatever rolls, trades, edits and crashes come between its reads and
\* its writes, a week that set the capital is on record and set it once, or at most once
\* for each request that may roll when requests overlap.
THEOREM OncePerWeek == RollSpec => []OneRollPerWeek
<1>1. RollInv => OneRollPerWeek
  <2> SUFFICES ASSUME RollInv, NEW w \in Weeks
               PROVE  /\ applied[w] > 0 => w \in rolled
                      /\ applied[w] <= IF overlapped THEN Cardinality(Rollers) ELSE 1
    BY DEF OneRollPerWeek
  <2> QED
    BY InFlightFinite DEF RollInv, OnRecord, Counted, Alone, MarksTyped
<1> QED
  BY <1>1, InitInv, StepInv, PTL DEF RollSpec

\* The capital in force is a positive amount, before and after any roll: a week that
\* wiped the account out is refused, whatever the row says by the time of the update.
THEOREM CapitalStaysPositive == RollSpec => [](capital \in Nat \ {0})
<1>1. RollInv => capital \in Nat \ {0}
  BY DEF RollInv, DeskTyped
<1> QED
  BY <1>1, InitInv, StepInv, PTL DEF RollSpec
-----------------------------------------------------------------------------
(* The account the rolls read *)

OutlayOf(h) == [t \in DOMAIN h |-> h[t].outlay]

\* The trades held and settled are finitely many and distinct, with numbers on
\* them, and the row's deployed figure is the sum of the outlays held.
DeskCounted ==
  /\ IsFiniteSet(DOMAIN held) /\ IsFiniteSet(DOMAIN settled)
  /\ DOMAIN held \subseteq Trades /\ DOMAIN settled \subseteq Trades
  /\ DOMAIN held \cap DOMAIN settled = {}
  /\ \A t \in DOMAIN held : held[t].outlay \in Nat
  /\ \A t \in DOMAIN settled : settled[t] \in Int
  /\ deployed = SumFunctionOnSet(OutlayOf(held), DOMAIN held)

CalendarTyped ==
  /\ week \in Weeks
  /\ openedIn \in [Trades -> Weeks] /\ closedIn \in [Trades -> Weeks]
  /\ crashes \in 0..MaxCrashes

\* What a roll has read still stands: a week that was over when the roll was asked
\* for earns nothing more, and the capital moves only under an overlap.
Past ==
  \A r \in Rollers :
    /\ roll[r].earned \in Int
    /\ roll[r].over => roll[r].week < week
    /\ roll[r].at \in {"open", "events", "mark", "update", "set"} /\ roll[r].over
         => roll[r].earned = Earned(roll[r].week)
    /\ roll[r].at # "idle" /\ ~overlapped => roll[r].capital = capital

YearInv == RollInv /\ DeskCounted /\ CalendarTyped /\ Past

LEMMA EarnedIsInt == DeskCounted => \A w : Earned(w) \in Int
<1> SUFFICES ASSUME DeskCounted, NEW w PROVE Earned(w) \in Int
  OBVIOUS
<1> DEFINE S == ClosedBy(w)
<1>1. IsFiniteSet(S) /\ \A t \in S : settled[t] \in Int
  BY FS_Subset DEF DeskCounted, ClosedBy
<1> HIDE DEF S
<1>2. SumFunctionOnSet(settled, S) \in Int
  BY <1>1, SumRemove
<1> QED
  BY <1>2 DEF Earned, S

LEMMA DeployedIsNat == DeskCounted => deployed \in Nat
<1> SUFFICES ASSUME DeskCounted PROVE deployed \in Nat
  OBVIOUS
<1> DEFINE f == OutlayOf(held)
           S == DOMAIN held
<1>1. IsFiniteSet(S) /\ \A t \in S : f[t] \in Nat
  BY DEF DeskCounted, OutlayOf
<1> HIDE DEF S, f
<1>2. SumFunctionOnSet(f, S) \in Nat
  BY <1>1, SumIsNat
<1> QED
  BY <1>2 DEF DeskCounted, S, f

LEMMA OpenCounted ==
  ASSUME DeskCounted, NEW t \in Trades, NEW i, NEW o \in Outlays, Open(t, i, o)
  PROVE  DeskCounted'
<1> DEFINE f == OutlayOf(held)
           g == OutlayOf(held)'
           S == DOMAIN held
<1>1. /\ t \notin S /\ t \notin DOMAIN settled
      /\ DOMAIN held' = S \cup {t}
      /\ held'[t].outlay = o
      /\ \A u \in S : held'[u] = held[u]
      /\ deployed' = deployed + o /\ settled' = settled
  BY DEF Open
<1>2. o \in Nat
  BY RollAssumption DEF RollAssumption
<1>3. /\ \A u \in S : g[u] = f[u] /\ f[u] \in Nat
      /\ g[t] = o
  BY <1>1 DEF DeskCounted, OutlayOf
<1>4. IsFiniteSet(S) /\ IsFiniteSet(S \cup {t}) /\ deployed = SumFunctionOnSet(f, S)
  BY FS_AddElement DEF DeskCounted
<1>5. deployed' = SumFunctionOnSet(g, S \cup {t})
  <2> HIDE DEF f, g, S
  <2>1. SumFunctionOnSet(g, S \cup {t}) = SumFunctionOnSet(g, S) + g[t]
    <3>1. \A u \in S \cup {t} : g[u] \in Int
      BY <1>2, <1>3
    <3> QED
      BY <1>1, <1>4, <3>1, SumAdd
  <2>2. SumFunctionOnSet(f, S) = SumFunctionOnSet(g, S)
    BY <1>3, <1>4, SumAgrees
  <2> QED
    BY <1>1, <1>3, <1>4, <2>1, <2>2
<1>6. \A u \in DOMAIN held' : held'[u].outlay \in Nat
  BY <1>1, <1>2 DEF DeskCounted
<1>7. deployed' = SumFunctionOnSet(OutlayOf(held)', DOMAIN held')
  BY <1>1, <1>5
<1>8. IsFiniteSet(DOMAIN held')
  BY <1>1, <1>4
<1> HIDE DEF f, g
<1> QED
  BY <1>1, <1>6, <1>7, <1>8 DEF DeskCounted

LEMMA CloseCounted ==
  ASSUME DeskCounted, NEW t \in Trades, NEW x \in Grosses, Close(t, x)
  PROVE  DeskCounted'
<1> DEFINE f == OutlayOf(held)
           g == OutlayOf(held)'
           S == DOMAIN held
<1>1. /\ t \in S /\ t \notin DOMAIN settled
      /\ DOMAIN held' = S \ {t}
      /\ \A u \in S \ {t} : held'[u] = held[u]
      /\ deployed' = deployed - held[t].outlay
      /\ DOMAIN settled' = DOMAIN settled \cup {t}
      /\ settled'[t] = x - EntryCost - ExitCost
      /\ \A u \in DOMAIN settled : settled'[u] = settled[u]
  BY DEF Close, DeskCounted
<1>2. settled'[t] \in Int
  BY <1>1, RollAssumption DEF RollAssumption
<1>3. /\ \A u \in S \ {t} : g[u] = f[u]
      /\ \A u \in S : f[u] \in Nat
      /\ f[t] = held[t].outlay
  BY <1>1 DEF DeskCounted, OutlayOf
<1>4. /\ IsFiniteSet(S) /\ IsFiniteSet(S \ {t}) /\ IsFiniteSet(DOMAIN settled \cup {t})
      /\ deployed = SumFunctionOnSet(f, S)
  BY FS_AddElement, FS_Subset DEF DeskCounted
<1>5. deployed' = SumFunctionOnSet(g, S \ {t})
  <2> HIDE DEF f, g, S
  <2>1. SumFunctionOnSet(f, S \ {t}) = SumFunctionOnSet(f, S) - f[t]
    <3>1. \A u \in S : f[u] \in Int
      BY <1>3
    <3> QED
      BY <1>1, <1>4, <3>1, SumDrop
  <2>2. SumFunctionOnSet(f, S \ {t}) = SumFunctionOnSet(g, S \ {t})
    BY <1>3, <1>4, SumAgrees
  <2> QED
    BY <1>1, <1>3, <1>4, <2>1, <2>2
<1>6. deployed' = SumFunctionOnSet(OutlayOf(held)', DOMAIN held')
  BY <1>1, <1>5
<1>7. /\ \A u \in DOMAIN held' : held'[u].outlay \in Nat
      /\ \A u \in DOMAIN settled' : settled'[u] \in Int
  BY <1>1, <1>2 DEF DeskCounted
<1> HIDE DEF f, g
<1> QED
  BY <1>1, <1>4, <1>6, <1>7 DEF DeskCounted

\* A trade closes in the week that runs: the weeks before it earn nothing more.
LEMMA EarnedStands ==
  ASSUME DeskCounted, CalendarTyped, NEW t \in Trades, NEW x \in Grosses, Exit(t, x),
         NEW w \in Weeks, w < week
  PROVE  Earned(w)' = Earned(w)
<1>1. /\ t \notin DOMAIN settled
      /\ DOMAIN settled' = DOMAIN settled \cup {t}
      /\ \A u \in DOMAIN settled : settled'[u] = settled[u] /\ closedIn'[u] = closedIn[u]
      /\ closedIn'[t] = week
  BY DEF Exit, Close, DeskCounted, CalendarTyped
<1>2. ClosedBy(w)' = ClosedBy(w)
  BY <1>1 DEF ClosedBy, CalendarTyped, Weeks
<1> DEFINE S == ClosedBy(w)
           f == settled
           g == settled'
<1>3. IsFiniteSet(S) /\ \A u \in S : f[u] = g[u]
  BY <1>1, FS_Subset DEF DeskCounted, ClosedBy
<1>4. SumFunctionOnSet(f, S) = SumFunctionOnSet(g, S)
  <2> HIDE DEF S, f, g
  <2> QED
    BY <1>3, SumAgrees
<1> QED
  BY <1>2, <1>4 DEF Earned

LEMMA YearInit == RollInit => YearInv
<1> SUFFICES ASSUME RollInit PROVE YearInv
  OBVIOUS
<1>1. DeskCounted
  <2>1. held = [t \in {} |-> 0] /\ settled = [t \in {} |-> 0] /\ deployed = 0
    BY DEF RollInit, Init
  <2>2. DOMAIN held = {} /\ DOMAIN settled = {}
    BY <2>1
  <2> QED
    BY <2>1, <2>2, SumEmpty, FS_EmptySet DEF DeskCounted
<1>2. CalendarTyped
  BY RollAssumption DEF RollInit, CalendarTyped, Weeks, RollAssumption
<1>3. Past
  BY DEF RollInit, Past, NoRoll
<1> QED
  BY <1>1, <1>2, <1>3, InitInv DEF YearInv

\* The desk and the calendar leave the rolls alone.
LEMMA PastKept ==
  ASSUME YearInv, CalendarTyped', roll' = roll, week <= week',
         overlapped' \in BOOLEAN, overlapped => overlapped',
         capital' = capital \/ Rolling = {} \/ overlapped',
         \A w \in Weeks : w < week => Earned(w)' = Earned(w)
  PROVE  Past'
<1> SUFFICES ASSUME NEW r \in Rollers
             PROVE  /\ roll[r].earned \in Int
                    /\ roll[r].over => roll[r].week < week'
                    /\ roll[r].at \in {"open", "events", "mark", "update", "set"} /\ roll[r].over
                         => roll[r].earned = Earned(roll[r].week)'
                    /\ roll[r].at # "idle" /\ ~overlapped' => roll[r].capital = capital'
  BY DEF Past
<1>1. /\ roll[r].week \in Weeks /\ roll[r].week \in Int /\ week \in Int /\ week' \in Int
      /\ roll[r].over \in BOOLEAN
  BY DEF YearInv, RollInv, RollsTyped, RollsWith, CalendarTyped, Weeks
<1>2. /\ roll[r].earned \in Int
      /\ roll[r].over => roll[r].week < week
      /\ roll[r].at \in {"open", "events", "mark", "update", "set"} /\ roll[r].over
           => roll[r].earned = Earned(roll[r].week)
      /\ roll[r].at # "idle" /\ ~overlapped => roll[r].capital = capital
  BY DEF YearInv, Past
<1>3. roll[r].at # "idle" => r \in Rolling
  BY DEF Rolling
<1>4. roll[r].over => roll[r].week < week'
  BY <1>1, <1>2
<1>5. roll[r].over => Earned(roll[r].week)' = Earned(roll[r].week)
  <2> SUFFICES ASSUME roll[r].over PROVE Earned(roll[r].week)' = Earned(roll[r].week)
    OBVIOUS
  <2>. PICK w \in Weeks : w = roll[r].week
    BY <1>1
  <2>1. w < week
    BY <1>2
  <2>2. Earned(w)' = Earned(w)
    BY <2>1
  <2> QED
    BY <2>2 DEF Earned, ClosedBy
<1> QED
  BY <1>2, <1>3, <1>4, <1>5, <1>1

\* One roller moves to a record that still stands; the others keep theirs.
LEMMA PastMoves ==
  ASSUME YearInv, NEW r \in Rollers, NEW k, Step(r, k),
         UNCHANGED <<capital, week, settled, closedIn>>,
         overlapped => overlapped', overlapped' \in BOOLEAN,
         k.earned \in Int, k.over => k.week < week,
         k.at \in {"open", "events", "mark", "update", "set"} /\ k.over
           => k.earned = Earned(k.week),
         k.at # "idle" /\ ~overlapped' => k.capital = capital
  PROVE  Past'
<1>1. /\ roll'[r] = k
      /\ \A s \in Rollers \ {r} : roll'[s] = roll[s]
  BY StepFacts DEF YearInv, RollInv
<1>2. \A s \in Rollers : Earned(roll[s].week)' = Earned(roll'[s].week)
  BY DEF Earned, ClosedBy
<1> SUFFICES ASSUME NEW s \in Rollers
             PROVE  /\ roll'[s].earned \in Int
                    /\ roll'[s].over => roll'[s].week < week
                    /\ roll'[s].at \in {"open", "events", "mark", "update", "set"} /\ roll'[s].over
                         => roll'[s].earned = Earned(roll[s].week)'
                    /\ roll'[s].at # "idle" /\ ~overlapped' => roll'[s].capital = capital
  BY DEF Past
<1>3. CASE s = r
  BY <1>1, <1>2, <1>3
<1>4. CASE s # r
  BY <1>1, <1>2, <1>4 DEF YearInv, Past
<1> QED
  BY <1>3, <1>4

LEMMA NoRollStands ==
  /\ NoRoll.at = "idle" /\ NoRoll.earned = 0 /\ NoRoll.over = FALSE
BY DEF NoRoll

LEMMA RollPast ==
  ASSUME YearInv, NEW r \in Rollers, RollStep(r)
  PROVE  Past'
<1> DEFINE k == roll[r]
<1>0. /\ k \in RollsWith(k.earned) /\ k.week \in Weeks
      /\ overlapped \in BOOLEAN /\ capital \in Nat /\ netPnl \in Int
      /\ k.earned \in Int /\ (k.over => k.week < week)
      /\ k.at \in {"open", "events", "mark", "update", "set"} /\ k.over
           => k.earned = Earned(k.week)
      /\ k.at # "idle" /\ ~overlapped => k.capital = capital
  BY DEF YearInv, RollInv, RollsTyped, RollsWith, Past, MarksTyped, DeskTyped
<1>1. ASSUME NEW w \in Weeks, BeginRoll(r, w) PROVE Past'
  <2> DEFINE b == [NoRoll EXCEPT !.at = "closed", !.week = w, !.capital = capital,
                                 !.netPnl = netPnl, !.over = w < week]
  <2>1. /\ b.at = "closed" /\ b.week = w /\ b.capital = capital /\ b.earned = 0
        /\ (b.over <=> w < week)
    BY DEF NoRoll
  <2>2. /\ Step(r, b)
        /\ UNCHANGED <<capital, week, settled, closedIn>>
        /\ overlapped' = (overlapped \/ Rolling # {})
    BY <1>1 DEF BeginRoll, DeskWaits, accountVars
  <2> HIDE DEF b
  <2> QED
    BY <1>0, <2>1, <2>2, PastMoves
<1>2. CASE ReadClosed(r)
  <2> DEFINE b == [k EXCEPT !.at = "open", !.earned = Earned(k.week)]
  <2>1. /\ b.at = "open" /\ b.earned = Earned(k.week) /\ b.week = k.week
        /\ b.over = k.over /\ b.capital = k.capital
    BY <1>0 DEF RollsWith
  <2>2. /\ Step(r, b) /\ k.at = "closed"
        /\ UNCHANGED <<capital, week, settled, closedIn, overlapped>>
    BY <1>2 DEF ReadClosed, NoWrite, DeskWaits, accountVars
  <2>3. b.earned \in Int
    BY <2>1, EarnedIsInt DEF YearInv
  <2> HIDE DEF b
  <2> QED
    BY <1>0, <2>1, <2>2, <2>3, PastMoves
<1>3. CASE ReadOpen(r)
  <2>0. PICK v \in BOOLEAN : /\ k.at = "open"
                             /\ Step(r, [k EXCEPT !.at = "events", !.valued = v])
                             /\ NoWrite
    BY <1>3 DEF ReadOpen
  <2> DEFINE b == [k EXCEPT !.at = "events", !.valued = v]
  <2>1. /\ b.at = "events" /\ b.earned = k.earned /\ b.week = k.week
        /\ b.over = k.over /\ b.capital = k.capital
    BY <1>0 DEF RollsWith
  <2>2. /\ Step(r, b) /\ k.at = "open"
        /\ UNCHANGED <<capital, week, settled, closedIn, overlapped>>
    BY <2>0 DEF NoWrite, DeskWaits, accountVars
  <2> HIDE DEF b
  <2> QED
    BY <1>0, <2>1, <2>2, PastMoves
<1>4. CASE FindMark(r) \/ WriteMark(r) \/ ReadCapital(r)
  <2>1. PICK p \in {"mark", "update", "set"} :
          Step(r, [k EXCEPT !.at = p]) \/ Step(r, NoRoll)
    BY <1>4 DEF FindMark, WriteMark, ReadCapital
  <2>2. /\ k.at \in {"events", "mark", "update"}
        /\ UNCHANGED <<capital, week, settled, closedIn, overlapped>>
    BY <1>4 DEF FindMark, WriteMark, ReadCapital, NoWrite, DeskWaits, accountVars
  <2> DEFINE b == [k EXCEPT !.at = p]
  <2>3. /\ b.at = p /\ b.earned = k.earned /\ b.week = k.week
        /\ b.over = k.over /\ b.capital = k.capital
    BY <1>0 DEF RollsWith
  <2>4. CASE Step(r, b)
    <3> HIDE DEF b
    <3> QED
      BY <1>0, <2>2, <2>3, <2>4, PastMoves
  <2>5. CASE Step(r, NoRoll)
    BY <1>0, <2>2, <2>5, NoRollStands, PastMoves
  <2> QED
    BY <2>1, <2>4, <2>5
<1>5. CASE RollCapital(r)
  <2>1. /\ k.at = "set" /\ Step(r, NoRoll)
        /\ UNCHANGED <<week, settled, closedIn, overlapped>>
    BY <1>5 DEF RollCapital, SetCapital
  <2>2. /\ roll'[r] = NoRoll
        /\ \A s \in Rollers \ {r} : roll'[s] = roll[s]
    BY <2>1, StepFacts DEF YearInv, RollInv
  <2>3. \A s \in Rollers : Earned(roll[s].week)' = Earned(roll'[s].week)
    BY <2>1 DEF Earned, ClosedBy
  <2>4. ~overlapped => \A s \in Rollers \ {r} : roll[s].at = "idle"
    BY <2>1 DEF YearInv, RollInv, Alone, Rolling
  <2> SUFFICES ASSUME NEW s \in Rollers
               PROVE  /\ roll'[s].earned \in Int
                      /\ roll'[s].over => roll'[s].week < week
                      /\ roll'[s].at \in {"open", "events", "mark", "update", "set"}
                           /\ roll'[s].over => roll'[s].earned = Earned(roll[s].week)'
                      /\ roll'[s].at # "idle" /\ ~overlapped => roll'[s].capital = capital'
    BY <2>1 DEF Past
  <2>5. CASE s = r
    BY <2>2, <2>5, NoRollStands
  <2>6. CASE s # r
    BY <2>2, <2>3, <2>4, <2>6 DEF YearInv, Past
  <2> QED
    BY <2>5, <2>6
<1> QED
  BY <1>1, <1>2, <1>3, <1>4, <1>5 DEF RollStep

LEMMA YearStep == YearInv /\ [RollNext]_vars => YearInv'
<1> SUFFICES ASSUME YearInv, [RollNext]_vars PROVE YearInv'
  OBVIOUS
<1>0. RollInv' /\ overlapped \in BOOLEAN /\ overlapped' \in BOOLEAN
  BY StepInv DEF YearInv, RollInv, MarksTyped
<1>1. ASSUME NEW t \in Trades, NEW i \in Instruments, NEW o \in Outlays, Enter(t, i, o)
      PROVE  YearInv'
  <2>1. /\ Open(t, i, o) /\ openedIn' = [openedIn EXCEPT ![t] = week]
        /\ UNCHANGED <<week, closedIn, roll, overlapped, crashes, capital, settled>>
    BY <1>1 DEF Enter, rollVars, Open
  <2>2. DeskCounted'
    BY <2>1, OpenCounted DEF YearInv
  <2>3. CalendarTyped'
    BY <2>1 DEF YearInv, CalendarTyped
  <2>4. \A w \in Weeks : Earned(w)' = Earned(w)
    BY <2>1 DEF Earned, ClosedBy
  <2>5. week <= week'
    BY <2>1 DEF YearInv, CalendarTyped, Weeks
  <2> QED
    BY <1>0, <2>1, <2>2, <2>3, <2>4, <2>5, PastKept DEF YearInv
<1>2. ASSUME NEW t \in Trades, NEW g \in Grosses, Exit(t, g) PROVE YearInv'
  <2>1. /\ Close(t, g) /\ closedIn' = [closedIn EXCEPT ![t] = week]
        /\ UNCHANGED <<week, openedIn, roll, overlapped, crashes, capital>>
    BY <1>2 DEF Exit, rollVars, Close
  <2>2. DeskCounted'
    BY <2>1, CloseCounted DEF YearInv
  <2>3. CalendarTyped'
    BY <2>1 DEF YearInv, CalendarTyped
  <2>4. \A w \in Weeks : w < week => Earned(w)' = Earned(w)
    BY <1>2, EarnedStands DEF YearInv
  <2>5. week <= week'
    BY <2>1 DEF YearInv, CalendarTyped, Weeks
  <2> QED
    BY <1>0, <2>1, <2>2, <2>3, <2>4, <2>5, PastKept DEF YearInv
<1>3. ASSUME NEW c \in Capitals, Configure(c) PROVE YearInv'
  <2>1. /\ UNCHANGED <<deployed, held, settled, week, openedIn, closedIn, roll, crashes>>
        /\ overlapped' = (overlapped \/ Rolling # {})
    BY <1>3 DEF Configure, SetCapital
  <2>2. DeskCounted' /\ CalendarTyped'
    BY <2>1 DEF YearInv, CalendarTyped, DeskCounted, OutlayOf
  <2>3. \A w \in Weeks : Earned(w)' = Earned(w)
    BY <2>1 DEF Earned, ClosedBy
  <2>4. week <= week'
    BY <2>1 DEF YearInv, CalendarTyped, Weeks
  <2> QED
    BY <1>0, <2>1, <2>2, <2>3, <2>4, PastKept DEF YearInv
<1>4. CASE NewWeek \/ UNCHANGED vars
  <2>1. /\ UNCHANGED <<deployed, capital, held, settled, openedIn, closedIn, roll, crashes,
                       overlapped>>
        /\ (week < LastWeek /\ week' = week + 1) \/ week' = week
    BY <1>4 DEF NewWeek, rollVars, vars, accountVars
  <2>2. CalendarTyped' /\ week <= week'
    BY <2>1, RollAssumption DEF YearInv, CalendarTyped, Weeks, RollAssumption
  <2>3. DeskCounted'
    BY <2>1 DEF YearInv, DeskCounted, OutlayOf
  <2>4. \A w \in Weeks : Earned(w)' = Earned(w)
    BY <2>1 DEF Earned, ClosedBy
  <2> QED
    BY <1>0, <2>1, <2>2, <2>3, <2>4, PastKept DEF YearInv
<1>5. ASSUME NEW r \in Rollers, RollStep(r) PROVE YearInv'
  <2>1. UNCHANGED <<deployed, held, settled, week, openedIn, closedIn, crashes>>
    BY <1>5 DEF RollStep, BeginRoll, ReadClosed, ReadOpen, FindMark, WriteMark, ReadCapital,
                RollCapital, SetCapital, NoWrite, DeskWaits, accountVars
  <2>2. DeskCounted' /\ CalendarTyped'
    BY <2>1 DEF YearInv, CalendarTyped, DeskCounted, OutlayOf
  <2> QED
    BY <1>0, <1>5, <2>2, RollPast DEF YearInv
<1>6. CASE Crash
  <2>1. /\ roll' = [r \in Rollers |-> NoRoll]
        /\ crashes < MaxCrashes /\ crashes' = crashes + 1
        /\ UNCHANGED <<deployed, held, settled, week, openedIn, closedIn>>
    BY <1>6 DEF Crash, DeskWaits, accountVars
  <2>2. DeskCounted' /\ CalendarTyped'
    BY <2>1, RollAssumption DEF YearInv, CalendarTyped, DeskCounted, OutlayOf, RollAssumption
  <2>3. Past'
    BY <2>1, NoRollStands DEF Past
  <2> QED
    BY <1>0, <2>2, <2>3 DEF YearInv
<1> QED
  BY <1>1, <1>2, <1>3, <1>4, <1>5, <1>6 DEF RollNext

\* Every variable keeps its kind: the sums a roll reads are numbers, the deployed figure
\* never goes below zero.
THEOREM TypeCorrect == RollSpec => []TypeOK
<1>1. YearInv => TypeOK
  <2> SUFFICES ASSUME YearInv PROVE TypeOK
    OBVIOUS
  <2>1. roll \in [Rollers -> Rolls]
    <3>1. \A r \in Rollers : roll[r] \in Rolls
      <4> SUFFICES ASSUME NEW r \in Rollers PROVE roll[r] \in Rolls
        OBVIOUS
      <4>1. roll[r] \in RollsWith(roll[r].earned) /\ roll[r].earned \in Int
        BY DEF YearInv, RollInv, RollsTyped, Past
      <4> QED
        BY <4>1 DEF RollsWith, Rolls
    <3>2. roll = [r \in Rollers |-> roll[r]]
      BY DEF YearInv, RollInv, RollsTyped
    <3> QED
      BY <3>1, <3>2
  <2>2. deployed \in Nat
    BY DeployedIsNat DEF YearInv
  <2>3. crashes \in 0..MaxCrashes
    BY DEF YearInv, CalendarTyped
  <2> QED
    BY <2>1, <2>2, <2>3
    DEF TypeOK, YearInv, RollInv, DeskTyped, MarksTyped, DeskCounted, CalendarTyped
<1> QED
  BY <1>1, YearInit, YearStep, PTL DEF RollSpec

\* applyWeekRoll: the first roll asked for once its week is over adds to the capital what
\* the trades closed by the end of that week brought in, neither more nor less, whatever
\* is traded between its reads and its update, and wherever a crash falls.
THEOREM FirstRollAddsEarned == RollSpec => FirstRollEarned
<1>1. YearInv /\ [RollNext]_vars =>
        [\A w \in Weeks : /\ Advances(w)
                          /\ \A v \in Weeks : applied[v] = 0
                          /\ ~overlapped
                          => capital' = capital + Earned(w)]_vars
  <2> SUFFICES ASSUME YearInv, RollNext, NEW w \in Weeks, Advances(w), ~overlapped
               PROVE  capital' = capital + Earned(w)
    OBVIOUS
  <2>1. PICK r \in Rollers : roll[r].at = "set" /\ roll[r].week = w /\ roll[r].over
                             /\ roll'[r].at = "idle"
    BY DEF Advances
  <2>2. applied'[w] # applied[w]
    <3>1. applied[w] \in Nat /\ applied'[w] > applied[w]
      BY DEF Advances, YearInv, RollInv, MarksTyped
    <3>2. applied'[w] = applied[w] => FALSE
      BY <3>1
    <3> QED
      BY <3>2
  <2>3. PICK s \in Rollers : RollCapital(s)
    BY <2>2
    DEF RollNext, RollStep, Enter, Exit, Configure, NewWeek, Crash, BeginRoll, ReadClosed,
        ReadOpen, FindMark, WriteMark, ReadCapital, NoWrite, rollVars
  <2>4. s = r
    BY <2>1, <2>3 DEF YearInv, RollInv, Alone, Rolling, RollCapital
  <2>5. capital' = roll[r].capital + roll[r].earned
    BY <2>3, <2>4 DEF RollCapital, SetCapital, ClosingEquity
  <2>6. roll[r].capital = capital /\ roll[r].earned = Earned(roll[r].week)
    BY <2>1 DEF YearInv, Past
  <2> QED
    BY <2>1, <2>5, <2>6
<1> QED
  BY <1>1, YearInit, YearStep, PTL DEF RollSpec, FirstRollEarned
=============================================================================
