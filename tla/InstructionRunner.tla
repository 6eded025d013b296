-------------------------- MODULE InstructionRunner --------------------------
(***************************************************************************)
(* UpstoxLivePaperInstructionService: an operator states a contract once,  *)
(* and the desk opens it by itself in every session, or in one.            *)
(*                                                                         *)
(* The cron, the run-due and run-now endpoints and the operator's edits all*)
(* read an instruction, await, and save the whole row again; there is no   *)
(* lock.  A task keeps the rows it read until it has saved them.  runDue   *)
(* reads every due row at once and executes them one after the other.      *)
(*                                                                         *)
(* The desk is the part of openTrade that matters here: the lookup of the  *)
(* contract among the open trades and the insertion of the trade are two   *)
(* statements, and what follows the insertion may still fail.  What the    *)
(* quote, the sizing, the risk envelope and the portfolio's autoTradeEnabled*)
(* decide is left open.                                                    *)
(***************************************************************************)
EXTENDS Integers, FiniteSets

CONSTANTS
  Tasks,        \* requests and cron ticks that may be in flight at once
  Instructions, \* identifiers of instruction rows; one is never used again
  Contracts,
  LastSession,  \* bound on the trading days
  Dates,        \* sessions an instruction may be for; Never: for every session
  MaxEntries,   \* bound on the entries of one instruction
  MaxEdits,     \* bound on update, rearm and remove
  MaxFaults     \* bound on crashes and failed writes

ASSUME RunnerAssumption ==
  /\ LastSession \in Nat \ {0} /\ Contracts # {}
  /\ MaxEntries \in Nat /\ MaxEdits \in Nat /\ MaxFaults \in Nat

VARIABLES
  row,      \* the instruction rows
  open,     \* per contract, the open trades of the desk
  today,    \* istDateOf(now)
  phase,    \* the entry window of the session
  task,
  entries,  \* history: trades an unforced run opened today, per instruction
  total,    \* history: trades ever opened, per instruction
  excused,  \* history: instructions whose once-a-session guard was disturbed today
  edits, faults

vars == <<row, open, today, phase, task, entries, total, excused, edits, faults>>

Never    == 0
Sessions == 1..LastSession

Rows == [stored: {"unused", "stored", "removed"}, enabled: BOOLEAN,
         contract: Contracts, sessionDate: Dates \cup {Never},
         last: Sessions \cup {Never}, executions: Nat]

Blank == [stored |-> "unused", enabled |-> FALSE, contract |-> CHOOSE k \in Contracts : TRUE,
          sessionDate |-> Never, last |-> Never, executions |-> 0]

Steps == {"idle", "next", "lookup", "insert", "booking", "stamp", "skip", "saving"}

TaskStates == [at: Steps, copy: [Instructions -> Rows], now: SUBSET Instructions,
               force: BOOLEAN]

Idle == [at |-> "idle", copy |-> [i \in Instructions |-> Blank], now |-> {}, force |-> FALSE]

Stored(r)     == r.stored = "stored"
Holds(a, i)   == Stored(task[a].copy[i])
AnyoneHolds(i) == \E a \in Tasks : Holds(a, i)

\* isInstructionDue, and the first three refusals of planInstruction.
Due(r) == r.enabled /\ r.sessionDate \in {Never, today} /\ r.last # today
-----------------------------------------------------------------------------
Init ==
  /\ row = [i \in Instructions |-> Blank]
  /\ open = [k \in Contracts |-> 0]
  /\ today = 1 /\ phase = "before"
  /\ task = [a \in Tasks |-> Idle]
  /\ entries = [i \in Instructions |-> 0]
  /\ total = [i \in Instructions |-> 0]
  /\ excused = {}
  /\ edits = 0 /\ faults = 0

\* Rows read while another task holds a copy of them are shared from now on.
Share(some) == excused' = excused \cup {i \in some : AnyoneHolds(i)}

Goto(a, step) == task' = [task EXCEPT ![a].at = step]

\* Task a lets go of instruction i and turns to the rest of what it read.
Dropped(a, i) ==
  LET copies == [task[a].copy EXCEPT ![i] = Blank]
  IN  IF \E j \in Instructions : Stored(copies[j])
      THEN [task[a] EXCEPT !.at = "next", !.copy = copies, !.now = {}]
      ELSE Idle

-----------------------------------------------------------------------------
(* The operator: create, update, rearm, remove *)

Create(i, k, s, e) ==
  /\ row[i] = Blank
  /\ row' = [row EXCEPT ![i] = [Blank EXCEPT !.stored = "stored", !.contract = k,
                                  !.sessionDate = s, !.enabled = e]]
  /\ UNCHANGED <<open, today, phase, task, entries, total, excused, edits, faults>>

Edit(a, i, edited) ==
  /\ Stored(row[i])
  /\ edits < MaxEdits
  /\ edits' = edits + 1
  /\ task[a].at = "idle"
  /\ task' = [task EXCEPT ![a] =
                [Idle EXCEPT !.at = "saving", !.now = {i}, !.copy[i] = edited]]
  /\ UNCHANGED <<row, open, today, phase, entries, total, faults>>

Update(a, i, k, s, e) ==
  /\ Edit(a, i, [row[i] EXCEPT !.contract = k, !.sessionDate = s, !.enabled = e])
  /\ Share({i})

\* "Clear the once-per-session guard so an instruction can fire again TODAY."
Rearm(a, i) ==
  /\ Edit(a, i, [row[i] EXCEPT !.last = Never])
  /\ excused' = excused \cup {i}

SaveEdit(a, i) ==
  /\ task[a].at = "saving" /\ i \in task[a].now
  /\ row' = [row EXCEPT ![i] = task[a].copy[i]]
  /\ task' = [task EXCEPT ![a] = Idle]
  /\ UNCHANGED <<open, today, phase, entries, total, excused, edits, faults>>

Remove(i) ==
  /\ Stored(row[i])
  /\ edits < MaxEdits
  /\ edits' = edits + 1
  /\ row' = [row EXCEPT ![i].stored = "removed"]
  /\ Share({i})
  /\ UNCHANGED <<open, today, phase, task, entries, total, faults>>

\* A trade of the desk is closed by whoever watches its exit.
CloseTrade(k) ==
  /\ open[k] > 0
  /\ open' = [open EXCEPT ![k] = @ - 1]
  /\ UNCHANGED <<row, today, phase, task, entries, total, excused, edits, faults>>

-----------------------------------------------------------------------------
(* The runner: scheduledAutoStart, runDue, runNow, execute *)

\* runDue: every enabled row is read, and those that are due are executed.  The
\* cron only asks for it inside the window, where execute asks again.
RunDue(a) ==
  LET due == {i \in Instructions : Stored(row[i]) /\ Due(row[i])}
  IN  /\ due # {}
      /\ task[a].at = "idle"
      /\ task' = [task EXCEPT ![a] =
                    [Idle EXCEPT !.at = "next",
                       !.copy = [i \in Instructions |-> IF i \in due THEN row[i] ELSE Blank]]]
      /\ Share(due)
      /\ UNCHANGED <<row, open, today, phase, entries, total, edits, faults>>

RunNow(a, i, f) ==
  /\ Stored(row[i])
  /\ task[a].at = "idle"
  /\ task' = [task EXCEPT ![a] =
                [Idle EXCEPT !.at = "next", !.copy[i] = row[i], !.force = f]]
  /\ Share({i})
  /\ UNCHANGED <<row, open, today, phase, entries, total, edits, faults>>

\* The guards of execute that `force` skips.
Allowed(r, force) == force \/ (r.enabled /\ phase = "open" /\ r.last # today)

\* Slip: the plan does not look at the session the instruction is for.
PlanAnyDay(a, i) ==
  LET r == task[a].copy[i]
  IN  /\ task[a].at = "next" /\ Stored(r)
      /\ \/ /\ Allowed(r, task[a].force) /\ r.enabled /\ r.last # today
            /\ task' = [task EXCEPT ![a].now = {i}, ![a].at = "lookup"]
         \/ task' = [task EXCEPT ![a].now = {i}, ![a].at = "skip"]
      /\ UNCHANGED <<row, open, today, phase, entries, total, excused, edits, faults>>

\* execute reads the portfolio and the quote.  planInstruction refuses what is
\* not due, forced or not; and there may be no portfolio, auto-trade may be off,
\* the quote stale, or the size unknown.
Plan(a, i) ==
  LET r == task[a].copy[i]
  IN  /\ task[a].at = "next" /\ Stored(r)
      /\ \/ /\ Allowed(r, task[a].force) /\ Due(r)
            /\ task' = [task EXCEPT ![a].now = {i}, ![a].at = "lookup"]
         \/ task' = [task EXCEPT ![a].now = {i}, ![a].at = "skip"]
      /\ UNCHANGED <<row, open, today, phase, entries, total, excused, edits, faults>>

\* openTrade refuses a contract that is open already, and whatever breaks the
\* risk envelope.
Lookup(a) ==
  /\ task[a].at = "lookup"
  /\ \/ (\A i \in task[a].now : open[task[a].copy[i].contract] = 0) /\ Goto(a, "insert")
     \/ Goto(a, "skip")
  /\ UNCHANGED <<row, open, today, phase, entries, total, excused, edits, faults>>

Insert(a, i) ==
  /\ task[a].at = "insert" /\ i \in task[a].now
  /\ total[i] < MaxEntries
  /\ open' = [open EXCEPT ![task[a].copy[i].contract] = @ + 1]
  /\ entries' = [entries EXCEPT ![i] = IF task[a].force THEN @ ELSE @ + 1]
  /\ total' = [total EXCEPT ![i] = @ + 1]
  /\ Goto(a, "booking")
  /\ UNCHANGED <<row, today, phase, excused, edits, faults>>

Book(a) ==
  /\ task[a].at = "booking"
  /\ Goto(a, "stamp")
  /\ UNCHANGED <<row, open, today, phase, entries, total, excused, edits, faults>>

\* A statement of openTrade after the insertion throws: the trade is there, and
\* the instruction counts as not executed, so that it is tried again.
BookFails(a) ==
  /\ task[a].at = "booking"
  /\ faults < MaxFaults
  /\ faults' = faults + 1
  /\ Goto(a, "skip")
  /\ excused' = excused \cup task[a].now
  /\ UNCHANGED <<row, open, today, phase, entries, total, edits>>

\* Slips: the guard is not stamped; every attempt counts as an execution; an
\* instruction for one session is switched off once it was tried.
ResultUnstamped(a, i) ==
  LET r == task[a].copy[i]
  IN  IF task[a].at = "skip" THEN r ELSE [r EXCEPT !.executions = @ + 1]

ResultCounted(a, i) ==
  LET r == task[a].copy[i]
  IN  [r EXCEPT !.executions = @ + 1,
                !.last = IF task[a].at = "skip" \/ task[a].force THEN @ ELSE today]

ResultDisarmed(a, i) ==
  LET r == task[a].copy[i]
  IN  IF task[a].at = "skip" THEN [r EXCEPT !.enabled = FALSE]
      ELSE [r EXCEPT !.executions = @ + 1,
                     !.last = IF task[a].force THEN @ ELSE today]

\* What finish adds to the copy of the row.
Result(a, i) ==
  LET r == task[a].copy[i]
  IN  IF task[a].at = "skip" THEN r
      ELSE [r EXCEPT !.executions = @ + 1,
                     !.last = IF task[a].force THEN @ ELSE today]

\* finish saves the row as it was read, with the result: a row changed in the
\* meantime is overwritten, and one removed is inserted again.
Finish(a, i) ==
  /\ task[a].at \in {"skip", "stamp"} /\ i \in task[a].now
  /\ row' = [row EXCEPT ![i] = Result(a, i)]
  /\ task' = [task EXCEPT ![a] = Dropped(a, i)]
  /\ UNCHANGED <<open, today, phase, entries, total, excused, edits, faults>>

\* The save fails, which is only logged.
FinishFails(a, i) ==
  /\ task[a].at \in {"skip", "stamp"} /\ i \in task[a].now
  /\ faults < MaxFaults
  /\ faults' = faults + 1
  /\ excused' = IF task[a].at = "stamp" THEN excused \cup {i} ELSE excused
  /\ task' = [task EXCEPT ![a] = Dropped(a, i)]
  /\ UNCHANGED <<row, open, today, phase, entries, total, edits>>

-----------------------------------------------------------------------------
(* The world *)

WindowOpens ==
  /\ phase = "before" /\ phase' = "open"
  /\ UNCHANGED <<row, open, today, task, entries, total, excused, edits, faults>>

WindowCloses ==
  /\ phase = "open" /\ phase' = "after"
  /\ UNCHANGED <<row, open, today, task, entries, total, excused, edits, faults>>

\* No request lasts from one day to the next.
NewDay ==
  /\ phase = "after" /\ today < LastSession
  /\ \A a \in Tasks : task[a].at = "idle"
  /\ phase' = "before" /\ today' = today + 1
  /\ entries' = [i \in Instructions |-> 0]
  /\ excused' = {}
  /\ UNCHANGED <<row, open, task, total, edits, faults>>

\* The process dies; a trade whose instruction was not stamped yet stays.
Crash ==
  /\ \E a \in Tasks : task[a].at # "idle"
  /\ faults < MaxFaults
  /\ faults' = faults + 1
  /\ task' = [a \in Tasks |-> Idle]
  /\ excused' = excused \cup
       UNION {task[a].now : a \in {b \in Tasks : task[b].at \in {"booking", "stamp"}}}
  /\ UNCHANGED <<row, open, today, phase, entries, total, edits>>

Operate ==
  \/ \E i \in Instructions, k \in Contracts, s \in Dates, e \in BOOLEAN :
       Create(i, k, s, e) \/ \E a \in Tasks : Update(a, i, k, s, e)
  \/ \E a \in Tasks, i \in Instructions : Rearm(a, i) \/ SaveEdit(a, i)
  \/ \E i \in Instructions : Remove(i)
  \/ \E k \in Contracts : CloseTrade(k)

Execute(a) ==
  \/ Lookup(a) \/ Book(a) \/ BookFails(a)
  \/ \E i \in Instructions : Plan(a, i) \/ Insert(a, i) \/ Finish(a, i) \/ FinishFails(a, i)

Run(a) ==
  \/ RunDue(a)
  \/ \E i \in Instructions, f \in BOOLEAN : RunNow(a, i, f)
  \/ Execute(a)

Next ==
  \/ Operate
  \/ \E a \in Tasks : Run(a)
  \/ WindowOpens \/ WindowCloses \/ NewDay \/ Crash

Spec == Init /\ [][Next]_vars

-----------------------------------------------------------------------------
(* Properties *)

\* Every variable has its type, and a task holds the rows it is working on.
TypeOK ==
  /\ row \in [Instructions -> Rows]
  /\ open \in [Contracts -> Nat]
  /\ today \in Sessions /\ phase \in {"before", "open", "after"}
  /\ task \in [Tasks -> TaskStates]
  /\ \A a \in Tasks :
       /\ task[a].at = "idle" <=> \A i \in Instructions : ~Holds(a, i)
       /\ \A i \in task[a].now : Holds(a, i)
  /\ entries \in [Instructions -> Nat] /\ total \in [Instructions -> 0..MaxEntries]
  /\ excused \subseteq Instructions
  /\ edits \in 0..MaxEdits /\ faults \in 0..MaxFaults

\* "Opens at most ONE position per instruction per session": true of the runs
\* that are not forced, as long as no two tasks held the same row at once, nothing
\* failed between the trade and the stamp, and nobody rearmed it.
OncePerSession == \A i \in Instructions \ excused : entries[i] <= 1

\* runDue decides from rows it read long before.  Under the same condition a
\* trade is opened only for an instruction that is still stored, enabled, meant
\* for today and not executed today.
EntersAsOrdered ==
  [][\A i \in Instructions :
       entries'[i] > entries[i] /\ i \notin excused' => Stored(row[i]) /\ Due(row[i])]_vars

Orders(r) == <<r.stored, r.enabled, r.contract, r.sessionDate>>

\* finish saves the whole row to record a result.  What the operator ordered is
\* lost by it only when another task had the row in its hands.
ResultsKeepOrders ==
  [][\A a \in Tasks : task[a].at \in {"skip", "stamp"} /\ task'[a] # task[a] =>
       \A i \in task[a].now \ excused : Orders(row'[i]) = Orders(row[i])]_vars

\* However stale the rows that are saved, an instruction never claims more
\* executions than it opened trades.
ExecutionsWitnessed == \A i \in Instructions : row[i].executions <= total[i]
=============================================================================
