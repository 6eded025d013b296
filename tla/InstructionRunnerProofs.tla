----------------------- MODULE InstructionRunnerProofs -----------------------
(***************************************************************************)
(* What holds of the instructions for any number of tasks, instructions,   *)
(* sessions and faults.                                                    *)
(***************************************************************************)
EXTENDS InstructionRunner, TLAPS

\* A task works on one instruction at a time.
OneAtATime ==
  \A a \in Tasks : \A i, j \in task[a].now : i = j

\* No copy claims more executions than there were trades, and the copy of an
\* instruction whose trade is still to be counted claims fewer.
CopiesWitnessed ==
  \A a \in Tasks, i \in Instructions :
    /\ task[a].copy[i].executions <= total[i]
    /\ task[a].at \in {"booking", "stamp"} /\ i \in task[a].now =>
         task[a].copy[i].executions < total[i]

\* An instruction that is not excused is held by one task at most, whose copy is
\* still what is stored, but for the fields that an update changes.
CopiesFresh ==
  \A a \in Tasks, i \in Instructions :
    Holds(a, i) /\ i \notin excused =>
      /\ \A b \in Tasks : Holds(b, i) => b = a
      /\ Stored(row[i]) /\ row[i].last = task[a].copy[i].last
      /\ task[a].at # "saving" => row[i] = task[a].copy[i]

\* Between the plan and the trade the copy is due.
Planned ==
  \A a \in Tasks : task[a].at \in {"lookup", "insert"} =>
    \A i \in task[a].now : Due(task[a].copy[i])

\* The trade of an unforced run is stamped, or its run is about to stamp it.
Entered(i) ==
  \/ row[i].last = today
  \/ \E a \in Tasks : /\ task[a].at \in {"booking", "stamp"}
                      /\ i \in task[a].now /\ ~task[a].force

EntriesStamped ==
  \A i \in Instructions \ excused :
    entries[i] <= 1 /\ (entries[i] = 1 => Entered(i))

Shapes == TypeOK /\ OneAtATime

RunnerInv ==
  Shapes /\ ExecutionsWitnessed /\ CopiesWitnessed /\ CopiesFresh /\ Planned /\ EntriesStamped

LEMMA BlankIsARow == Blank \in Rows /\ ~Stored(Blank) /\ Idle \in TaskStates
<1>1. (CHOOSE k \in Contracts : TRUE) \in Contracts
  BY RunnerAssumption DEF RunnerAssumption
<1>2. Blank \in Rows /\ ~Stored(Blank)
  BY <1>1 DEF Blank, Rows, Stored
<1> QED BY <1>2 DEF Idle, TaskStates, Steps

LEMMA StampedRow ==
  ASSUME NEW r \in Rows, NEW d \in Sessions \cup {Never}, NEW q,
         q = [r EXCEPT !.executions = @ + 1, !.last = d]
  PROVE  /\ q \in Rows /\ q.executions = r.executions + 1 /\ q.last = d
         /\ q.stored = r.stored
<1>1. r.executions + 1 \in Nat
  BY DEF Rows
<1> QED BY <1>1 DEF Rows

\* What is left of a task that lets go of i.
LEMMA DroppedTask ==
  ASSUME Shapes, NEW a \in Tasks, NEW i \in Instructions
  PROVE  /\ Dropped(a, i) \in TaskStates
         /\ Dropped(a, i).at \in {"idle", "next"} /\ Dropped(a, i).now = {}
         /\ Dropped(a, i).at = "idle" <=>
              \A j \in Instructions : ~Stored(Dropped(a, i).copy[j])
         /\ \A j \in Instructions :
              \/ Dropped(a, i).copy[j] = Blank
              \/ j # i /\ Dropped(a, i).copy[j] = task[a].copy[j]
<1> DEFINE copies == [task[a].copy EXCEPT ![i] = Blank]
           kept   == [task[a] EXCEPT !.at = "next", !.copy = copies, !.now = {}]
<1>1. task[a] \in TaskStates
  BY DEF Shapes, TypeOK
<1>2. copies \in [Instructions -> Rows]
  BY <1>1, BlankIsARow DEF TaskStates
<1>3. CASE \E j \in Instructions : Stored(copies[j])
  <2>1. Dropped(a, i) = kept
    BY <1>3 DEF Dropped
  <2>2. kept.at = "next" /\ kept.copy = copies /\ kept.now = {} /\ kept \in TaskStates
    BY <1>1, <1>2 DEF TaskStates, Steps
  <2>3. \A j \in Instructions : copies[j] = Blank \/ (j # i /\ copies[j] = task[a].copy[j])
    BY <1>1 DEF TaskStates
  <2>4. \E j \in Instructions : Stored(Dropped(a, i).copy[j])
    BY <1>3, <2>1, <2>2
  <2>5. \A j \in Instructions : \/ Dropped(a, i).copy[j] = Blank
                                \/ j # i /\ Dropped(a, i).copy[j] = task[a].copy[j]
    BY <2>1, <2>2, <2>3
  <2>6. Dropped(a, i) \in TaskStates /\ Dropped(a, i).at = "next" /\ Dropped(a, i).now = {}
    BY <2>1, <2>2
  <2> QED BY <2>4, <2>5, <2>6
<1>4. CASE ~ \E j \in Instructions : Stored(copies[j])
  <2>1. Dropped(a, i) = Idle
    BY <1>4 DEF Dropped
  <2> QED BY <2>1, BlankIsARow DEF Idle
<1> QED BY <1>3, <1>4

LEMMA InitRunner == Init => RunnerInv
<1> SUFFICES ASSUME Init PROVE RunnerInv
  OBVIOUS
<1>1. Shapes
  <2>1. \A a \in Tasks : task[a] = Idle
    BY DEF Init
  <2>2. /\ Idle.at = "idle" /\ Idle.now = {}
        /\ \A i \in Instructions : ~Stored(Idle.copy[i])
    BY BlankIsARow DEF Idle
  <2>3. task \in [Tasks -> TaskStates] /\ row \in [Instructions -> Rows]
    BY BlankIsARow DEF Init
  <2>4. /\ today \in Sessions /\ edits \in 0..MaxEdits /\ faults \in 0..MaxFaults
        /\ total \in [Instructions -> 0..MaxEntries]
    BY RunnerAssumption DEF Init, RunnerAssumption, Sessions
  <2> QED BY <2>1, <2>2, <2>3, <2>4 DEF Init, Shapes, TypeOK, OneAtATime, Holds
<1>2. ExecutionsWitnessed /\ CopiesWitnessed
  BY DEF Init, ExecutionsWitnessed, CopiesWitnessed, Idle, Blank
<1>3. CopiesFresh /\ Planned
  BY BlankIsARow DEF Init, CopiesFresh, Planned, Idle, Holds
<1>4. EntriesStamped
  BY DEF Init, EntriesStamped
<1> QED BY <1>1, <1>2, <1>3, <1>4 DEF RunnerInv

\* Types: the rows and the numbers, whatever the tasks do.
LEMMA StepShapes == Shapes /\ [Next]_vars => Shapes'
<1> SUFFICES ASSUME Shapes, [Next]_vars PROVE Shapes'
  OBVIOUS
<1> USE DEF Shapes, TypeOK, OneAtATime, Holds
<1>n. /\ LastSession \in Nat \ {0} /\ MaxEntries \in Nat /\ MaxEdits \in Nat /\ MaxFaults \in Nat
      /\ Blank \in Rows /\ ~Stored(Blank) /\ Idle \in TaskStates
      /\ Idle.at = "idle" /\ Idle.now = {} /\ \A i \in Instructions : Idle.copy[i] = Blank
  BY RunnerAssumption, BlankIsARow DEF RunnerAssumption, Idle
\* One task moves on, and nothing is wrong with its new state.
<1>t. ASSUME NEW a \in Tasks, task' = [task EXCEPT ![a] = task'[a]],
             task'[a] \in TaskStates,
             task'[a].at = "idle" <=> \A i \in Instructions : ~Stored(task'[a].copy[i]),
             \A i \in task'[a].now : Stored(task'[a].copy[i]),
             \A i, j \in task'[a].now : i = j,
             row' \in [Instructions -> Rows], open' \in [Contracts -> Nat],
             today' \in Sessions, phase' \in {"before", "open", "after"},
             entries' \in [Instructions -> Nat], total' \in [Instructions -> 0..MaxEntries],
             excused' \subseteq Instructions,
             edits' \in 0..MaxEdits, faults' \in 0..MaxFaults
      PROVE  Shapes'
  <2>1. task' \in [Tasks -> TaskStates]
    BY <1>t
  <2>2. \A b \in Tasks : b # a => task'[b] = task[b]
    BY <1>t
  <2> QED BY <1>t, <2>1, <2>2
<1>1. ASSUME NEW i \in Instructions, NEW k \in Contracts, NEW s \in Dates, NEW e \in BOOLEAN,
             Create(i, k, s, e)
      PROVE  Shapes'
  <2>1. row' \in [Instructions -> Rows]
    BY <1>1, <1>n DEF Create, Rows
  <2> QED BY <1>1, <2>1 DEF Create
<1>2. ASSUME NEW a \in Tasks, NEW i \in Instructions, NEW r \in Rows, Stored(r), Edit(a, i, r),
             excused' \subseteq Instructions
      PROVE  Shapes'
  <2>1. /\ task'[a] = [Idle EXCEPT !.at = "saving", !.now = {i}, !.copy[i] = r]
        /\ task' = [task EXCEPT ![a] = task'[a]]
    BY <1>2 DEF Edit
  <2> DEFINE copies == [[j \in Instructions |-> Blank] EXCEPT ![i] = r]
  <2>4. copies \in [Instructions -> Rows] /\ copies[i] = r
    BY <1>n
  <2>5. task'[a] = [at |-> "saving", copy |-> copies, now |-> {i}, force |-> FALSE]
    BY <2>1 DEF Idle
  <2> HIDE DEF copies
  <2>2. /\ task'[a].at = "saving" /\ task'[a].now = {i} /\ task'[a].copy[i] = r
        /\ task'[a] \in TaskStates
    BY <2>4, <2>5 DEF TaskStates, Steps
  <2>3. edits' \in 0..MaxEdits
    BY <1>2, <1>n DEF Edit
  <2> QED BY <1>2, <1>t, <2>1, <2>2, <2>3 DEF Edit
<1>3. ASSUME NEW a \in Tasks, NEW i \in Instructions, SaveEdit(a, i) PROVE Shapes'
  <2>1. row' \in [Instructions -> Rows]
    BY <1>3 DEF SaveEdit, TaskStates
  <2>2. task'[a] = Idle /\ task' = [task EXCEPT ![a] = task'[a]]
    BY <1>3 DEF SaveEdit
  <2> QED BY <1>3, <1>n, <1>t, <2>1, <2>2 DEF SaveEdit
<1>4. ASSUME NEW i \in Instructions, Remove(i) PROVE Shapes'
  <2>1. row' \in [Instructions -> Rows] /\ edits' \in 0..MaxEdits /\ excused' \subseteq Instructions
    BY <1>4, <1>n DEF Remove, Rows, Share
  <2> QED BY <1>4, <2>1 DEF Remove
<1>5. ASSUME NEW k \in Contracts, CloseTrade(k) PROVE Shapes'
  <2>1. open' \in [Contracts -> Nat]
    BY <1>5 DEF CloseTrade
  <2> QED BY <1>5, <2>1 DEF CloseTrade
<1>6. ASSUME NEW a \in Tasks, RunDue(a) PROVE Shapes'
  <2> DEFINE due == {i \in Instructions : Stored(row[i]) /\ Due(row[i])}
             mine == [i \in Instructions |-> IF i \in due THEN row[i] ELSE Blank]
  <2>1. /\ task'[a] = [Idle EXCEPT !.at = "next", !.copy = mine]
        /\ task' = [task EXCEPT ![a] = task'[a]] /\ due # {}
    BY <1>6 DEF RunDue
  <2>2. mine \in [Instructions -> Rows]
    BY <1>n
  <2>4. \E i \in Instructions : Stored(mine[i])
    BY <2>1
  <2>6. task'[a] = [at |-> "next", copy |-> mine, now |-> {}, force |-> FALSE]
    BY <2>1 DEF Idle
  <2> HIDE DEF mine
  <2>3. /\ task'[a].at = "next" /\ task'[a].now = {} /\ task'[a].copy = mine
        /\ task'[a] \in TaskStates
    BY <2>2, <2>6 DEF TaskStates, Steps
  <2>5. excused' \subseteq Instructions
    BY <1>6 DEF RunDue, Share
  <2> QED BY <1>6, <1>t, <2>1, <2>3, <2>4, <2>5 DEF RunDue
<1>7. ASSUME NEW a \in Tasks, NEW i \in Instructions, NEW f \in BOOLEAN, RunNow(a, i, f)
      PROVE  Shapes'
  <2>1. /\ task'[a] = [Idle EXCEPT !.at = "next", !.copy[i] = row[i], !.force = f]
        /\ task' = [task EXCEPT ![a] = task'[a]]
    BY <1>7 DEF RunNow
  <2> DEFINE copies == [[j \in Instructions |-> Blank] EXCEPT ![i] = row[i]]
  <2>4. copies \in [Instructions -> Rows] /\ copies[i] = row[i] /\ Stored(row[i])
    BY <1>7, <1>n DEF RunNow
  <2>5. task'[a] = [at |-> "next", copy |-> copies, now |-> {}, force |-> f]
    BY <2>1 DEF Idle
  <2> HIDE DEF copies
  <2>2. /\ task'[a].at = "next" /\ task'[a].now = {} /\ task'[a].copy[i] = row[i]
        /\ task'[a] \in TaskStates
    BY <2>4, <2>5 DEF TaskStates, Steps
  <2>3. excused' \subseteq Instructions
    BY <1>7 DEF RunNow, Share
  <2> QED BY <1>7, <1>t, <2>1, <2>2, <2>3, <2>4 DEF RunNow
<1>8. ASSUME NEW a \in Tasks, NEW i \in Instructions, Plan(a, i) PROVE Shapes'
  <2>1. /\ task'[a].at \in {"lookup", "skip"} /\ task'[a].now = {i}
        /\ task'[a].copy = task[a].copy /\ task'[a] \in TaskStates
        /\ task' = [task EXCEPT ![a] = task'[a]]
    BY <1>8 DEF Plan, TaskStates, Steps
  <2> QED BY <1>8, <1>t, <2>1 DEF Plan
<1>9. ASSUME NEW a \in Tasks, NEW step \in Steps \ {"idle"}, Goto(a, step), task[a].at # "idle",
             row' = row, open' \in [Contracts -> Nat], UNCHANGED <<today, phase>>,
             entries' \in [Instructions -> Nat], total' \in [Instructions -> 0..MaxEntries],
             excused' \subseteq Instructions, edits' = edits, faults' \in 0..MaxFaults
      PROVE  Shapes'
  <2>0. task[a] \in TaskStates
    OBVIOUS
  <2>1. /\ task'[a] = [task[a] EXCEPT !.at = step]
        /\ task' = [task EXCEPT ![a] = task'[a]]
    BY <1>9 DEF Goto
  <2>2. /\ task'[a].at = step /\ task'[a].now = task[a].now
        /\ task'[a].copy = task[a].copy /\ task'[a] \in TaskStates
    BY <2>0, <2>1 DEF TaskStates
  <2>3. ~ \A i \in Instructions : ~Stored(task'[a].copy[i])
    BY <1>9, <2>2
  <2>4. \A i \in task'[a].now : Stored(task'[a].copy[i])
    BY <2>2
  <2>5. \A i, j \in task'[a].now : i = j
    BY <2>2
  <2>6. step # "idle"
    OBVIOUS
  <2> QED BY <1>9, <1>t, <2>1, <2>2, <2>3, <2>4, <2>5, <2>6
<1>10. ASSUME NEW a \in Tasks, Lookup(a) \/ Book(a) PROVE Shapes'
  BY <1>9, <1>10 DEF Lookup, Book, Steps
<1>11. ASSUME NEW a \in Tasks, NEW i \in Instructions, Insert(a, i) PROVE Shapes'
  <2>1. open' \in [Contracts -> Nat] /\ entries' \in [Instructions -> Nat]
    BY <1>11 DEF Insert, TaskStates, Rows
  <2>2. total' \in [Instructions -> 0..MaxEntries]
    BY <1>11, <1>n DEF Insert
  <2> QED BY <1>9, <1>11, <2>1, <2>2 DEF Insert, Steps
<1>12. ASSUME NEW a \in Tasks, BookFails(a) PROVE Shapes'
  <2>1. excused' \subseteq Instructions /\ faults' \in 0..MaxFaults
    BY <1>12, <1>n DEF BookFails, TaskStates
  <2> QED BY <1>9, <1>12, <2>1 DEF BookFails, Steps
<1>13. ASSUME NEW a \in Tasks, NEW i \in Instructions, task' = [task EXCEPT ![a] = Dropped(a, i)],
              row' \in [Instructions -> Rows], excused' \subseteq Instructions,
              faults' \in 0..MaxFaults,
              UNCHANGED <<open, today, phase, entries, total, edits>>
       PROVE  Shapes'
  <2>1. task'[a] = Dropped(a, i) /\ task' = [task EXCEPT ![a] = task'[a]]
    BY <1>13
  <2>2. Shapes
    OBVIOUS
  <2> HIDE DEF Shapes
  <2>3. /\ task'[a] \in TaskStates /\ task'[a].now = {}
        /\ task'[a].at = "idle" <=> \A j \in Instructions : ~Stored(task'[a].copy[j])
    BY <2>1, <2>2, DroppedTask
  <2> USE DEF Shapes
  <2> QED BY <1>13, <1>t, <2>1, <2>3
<1>14. ASSUME NEW a \in Tasks, NEW i \in Instructions, Finish(a, i) PROVE Shapes'
  <2>0. task[a].copy[i] \in Rows
    BY DEF TaskStates
  <2>1. Result(a, i) \in Rows
    <3>1. CASE task[a].at = "skip"
      BY <2>0, <3>1 DEF Result
    <3>2. CASE task[a].at # "skip"
      <4>1. PICK d \in Sessions \cup {Never} :
              Result(a, i) = [task[a].copy[i] EXCEPT !.executions = @ + 1, !.last = d]
        <5>1. task[a].copy[i].last \in Sessions \cup {Never}
          BY <2>0 DEF Rows
        <5> QED BY <3>2, <5>1 DEF Result
      <4> QED BY <2>0, <4>1, StampedRow
    <3> QED BY <3>1, <3>2
  <2>2. row' \in [Instructions -> Rows]
    BY <1>14, <2>1 DEF Finish
  <2> QED BY <1>13, <1>14, <2>2 DEF Finish
<1>15. ASSUME NEW a \in Tasks, NEW i \in Instructions, FinishFails(a, i) PROVE Shapes'
  <2>1. excused' \subseteq Instructions /\ faults' \in 0..MaxFaults
    BY <1>15, <1>n DEF FinishFails
  <2> QED BY <1>13, <1>15, <2>1 DEF FinishFails
<1>16. CASE WindowOpens \/ WindowCloses
  BY <1>16 DEF WindowOpens, WindowCloses
<1>17. CASE NewDay
  <2>1. today' \in Sessions
    BY <1>17, <1>n DEF NewDay, Sessions
  <2> QED BY <1>17, <2>1 DEF NewDay
<1>18. CASE Crash
  <2>1. task' \in [Tasks -> TaskStates] /\ \A a \in Tasks : task'[a] = Idle
    BY <1>18, <1>n DEF Crash
  <2>2. excused' \subseteq Instructions /\ faults' \in 0..MaxFaults
    BY <1>18, <1>n DEF Crash, TaskStates
  <2> QED BY <1>18, <1>n, <2>1, <2>2 DEF Crash
<1>19. ASSUME NEW a \in Tasks, NEW i \in Instructions, NEW k \in Contracts, NEW s \in Dates,
              NEW e \in BOOLEAN, Update(a, i, k, s, e)
       PROVE  Shapes'
  <2> DEFINE r == [row[i] EXCEPT !.contract = k, !.sessionDate = s, !.enabled = e]
  <2>0. row[i] \in Rows /\ Stored(row[i])
    BY <1>19 DEF Update, Edit
  <2>1. r \in Rows /\ Stored(r)
    BY <2>0 DEF Rows, Stored
  <2> QED BY <1>2, <1>19, <2>1 DEF Update, Share
<1>20. ASSUME NEW a \in Tasks, NEW i \in Instructions, Rearm(a, i) PROVE Shapes'
  <2>1. LET r == [row[i] EXCEPT !.last = Never] IN r \in Rows /\ Stored(r)
    BY <1>20 DEF Rearm, Edit, Rows, Stored
  <2> QED BY <1>2, <1>20, <2>1 DEF Rearm
<1>21. CASE UNCHANGED vars
  BY <1>21 DEF vars
<1> QED
  BY <1>1, <1>3, <1>4, <1>5, <1>6, <1>7, <1>8, <1>10, <1>11, <1>12, <1>14, <1>15, <1>16,
     <1>17, <1>18, <1>19, <1>20, <1>21 DEF Next, Operate, Run, Execute

\* Some steps concern the tasks and the rows only through these facts: task a,
\* which was idle, has read rows.
LEMMA Taking ==
  ASSUME RunnerInv, Shapes',
         NEW a \in Tasks, task[a].at = "idle", task'[a].at \in {"next", "saving"},
         \A b \in Tasks : b # a => task'[b] = task[b],
         UNCHANGED <<row, today, entries, total>>,
         excused \subseteq excused',
         \A i \in Instructions :
           \/ task'[a].copy[i] = Blank
           \/ /\ Stored(row[i]) /\ task'[a].copy[i].executions = row[i].executions
              /\ AnyoneHolds(i) => i \in excused'
              /\ i \notin excused' => row[i].last = task'[a].copy[i].last
              /\ task'[a].at = "saving" \/ task'[a].copy[i] = row[i]
  PROVE  RunnerInv'
<1>1. ~Stored(Blank) /\ Blank.executions = 0
  BY BlankIsARow DEF Blank
<1>2. ExecutionsWitnessed'
  BY DEF RunnerInv, ExecutionsWitnessed
<1>3. CopiesWitnessed'
  <2> SUFFICES ASSUME NEW b \in Tasks, NEW i \in Instructions
               PROVE  /\ task'[b].copy[i].executions <= total[i]
                      /\ task'[b].at \in {"booking", "stamp"} /\ i \in task'[b].now =>
                           task'[b].copy[i].executions < total[i]
    BY DEF CopiesWitnessed
  <2>1. CASE b # a
    BY <2>1 DEF RunnerInv, CopiesWitnessed
  <2>2. CASE b = a
    <3>1. total[i] \in Nat
      BY RunnerAssumption DEF RunnerInv, Shapes, TypeOK, RunnerAssumption
    <3> QED BY <1>1, <2>2, <3>1 DEF RunnerInv, ExecutionsWitnessed
  <2> QED BY <2>1, <2>2
<1>4. CopiesFresh'
  <2> SUFFICES ASSUME NEW b \in Tasks, NEW i \in Instructions,
                      Stored(task'[b].copy[i]), i \notin excused'
               PROVE  /\ \A c \in Tasks : Stored(task'[c].copy[i]) => c = b
                      /\ Stored(row[i]) /\ row[i].last = task'[b].copy[i].last
                      /\ task'[b].at # "saving" => row[i] = task'[b].copy[i]
    BY DEF CopiesFresh, Holds
  <2>0. i \notin excused
    OBVIOUS
  <2>1. CASE b = a
    <3>1. \A c \in Tasks : ~Holds(c, i)
      BY <1>1, <2>1 DEF AnyoneHolds
    <3> QED BY <1>1, <2>1, <3>1 DEF Holds
  <2>2. CASE b # a
    <3>1. Holds(b, i) /\ AnyoneHolds(i)
      BY <2>2 DEF Holds, AnyoneHolds
    <3>2. ~Stored(task'[a].copy[i])
      BY <1>1, <3>1
    <3> QED BY <2>0, <2>2, <3>1, <3>2 DEF RunnerInv, CopiesFresh, Holds
  <2> QED BY <2>1, <2>2
<1>5. Planned'
  BY DEF RunnerInv, Planned, Due
<1>6. EntriesStamped'
  <2> SUFFICES ASSUME NEW i \in Instructions, i \notin excused
               PROVE  entries[i] <= 1 /\ (entries[i] = 1 => Entered(i)')
    BY DEF EntriesStamped
  <2>1. Entered(i) => Entered(i)'
    BY DEF Entered
  <2> QED BY <2>1 DEF RunnerInv, EntriesStamped
<1> QED BY <1>2, <1>3, <1>4, <1>5, <1>6 DEF RunnerInv

\* Task a moves on with the rows it has, and opens no trade.
LEMMA Working ==
  ASSUME RunnerInv, Shapes',
         NEW a \in Tasks, task[a].at # "saving",
         task'[a].at # "saving", task'[a].copy = task[a].copy, task'[a].force = task[a].force,
         \A b \in Tasks : b # a => task'[b] = task[b],
         UNCHANGED <<row, today, entries, total>>,
         excused \subseteq excused',
         task'[a].at \in {"booking", "stamp"} =>
           task[a].at \in {"booking", "stamp"} /\ task'[a].now = task[a].now,
         task'[a].at \in {"lookup", "insert"} =>
           \A i \in task'[a].now : Due(task[a].copy[i]),
         task[a].at \in {"booking", "stamp"} =>
           \/ task'[a].at \in {"booking", "stamp"} /\ task'[a].now = task[a].now
           \/ task[a].now \subseteq excused'
  PROVE  RunnerInv'
<1>1. ExecutionsWitnessed'
  BY DEF RunnerInv, ExecutionsWitnessed
<1>2. CopiesWitnessed'
  <2> SUFFICES ASSUME NEW b \in Tasks, NEW i \in Instructions
               PROVE  /\ task'[b].copy[i].executions <= total[i]
                      /\ task'[b].at \in {"booking", "stamp"} /\ i \in task'[b].now =>
                           task'[b].copy[i].executions < total[i]
    BY DEF CopiesWitnessed
  <2> QED BY DEF RunnerInv, CopiesWitnessed
<1>3. CopiesFresh'
  <2>1. \A b \in Tasks : task'[b].copy = task[b].copy
    OBVIOUS
  <2>2. \A b \in Tasks : task'[b].at = "saving" <=> task[b].at = "saving"
    OBVIOUS
  <2> QED BY <2>1, <2>2 DEF RunnerInv, CopiesFresh, Holds
<1>4. Planned'
  BY DEF RunnerInv, Planned, Due
<1>5. EntriesStamped'
  <2> SUFFICES ASSUME NEW i \in Instructions, i \notin excused'
               PROVE  entries[i] <= 1 /\ (entries[i] = 1 => Entered(i)')
    BY DEF EntriesStamped
  <2>1. i \notin excused
    OBVIOUS
  <2>2. Entered(i) => Entered(i)'
    BY DEF Entered
  <2> QED BY <2>1, <2>2 DEF RunnerInv, EntriesStamped
<1> QED BY <1>1, <1>2, <1>3, <1>4, <1>5 DEF RunnerInv

\* Task a lets go of instruction i, whose row it may have saved.
LEMMA Releasing ==
  ASSUME RunnerInv, Shapes',
         NEW a \in Tasks, NEW i \in task[a].now, i \in Instructions,
         task'[a].at \in {"idle", "next"}, task'[a].now = {},
         \A j \in Instructions :
           task'[a].copy[j] = Blank \/ (j # i /\ task'[a].copy[j] = task[a].copy[j]),
         task'[a].at = "next" => task[a].at # "saving",
         \A b \in Tasks : b # a => task'[b] = task[b],
         \A j \in Instructions : j # i => row'[j] = row[j],
         row'[i].executions <= total[i],
         i \notin excused' /\ entries[i] = 1 => row'[i].last = today,
         UNCHANGED <<today, entries, total>>,
         excused \subseteq excused'
  PROVE  RunnerInv'
<1>1. ~Stored(Blank) /\ Blank.executions = 0
  BY BlankIsARow DEF Blank
<1>2. Holds(a, i) /\ \A j \in task[a].now : j = i
  BY DEF RunnerInv, Shapes, TypeOK, OneAtATime
<1>3. ExecutionsWitnessed'
  <2> SUFFICES ASSUME NEW j \in Instructions PROVE row'[j].executions <= total[j]
    BY DEF ExecutionsWitnessed
  <2> QED BY DEF RunnerInv, ExecutionsWitnessed
<1>4. CopiesWitnessed'
  <2> SUFFICES ASSUME NEW b \in Tasks, NEW j \in Instructions
               PROVE  /\ task'[b].copy[j].executions <= total[j]
                      /\ task'[b].at \in {"booking", "stamp"} /\ j \in task'[b].now =>
                           task'[b].copy[j].executions < total[j]
    BY DEF CopiesWitnessed
  <2>1. CASE b # a
    BY <2>1 DEF RunnerInv, CopiesWitnessed
  <2>2. CASE b = a
    <3>1. total[j] \in Nat
      BY RunnerAssumption DEF RunnerInv, Shapes, TypeOK, RunnerAssumption
    <3> QED BY <1>1, <2>2, <3>1 DEF RunnerInv, CopiesWitnessed
  <2> QED BY <2>1, <2>2
<1>5. CopiesFresh'
  <2> SUFFICES ASSUME NEW b \in Tasks, NEW j \in Instructions,
                      Stored(task'[b].copy[j]), j \notin excused'
               PROVE  /\ \A c \in Tasks : Stored(task'[c].copy[j]) => c = b
                      /\ Stored(row'[j]) /\ row'[j].last = task'[b].copy[j].last
                      /\ task'[b].at # "saving" => row'[j] = task'[b].copy[j]
    BY DEF CopiesFresh, Holds
  <2>1. \A c \in Tasks : Stored(task'[c].copy[j]) => Holds(c, j) /\ task'[c].copy[j] = task[c].copy[j]
    BY <1>1 DEF Holds
  <2>2. j # i
    <3>1. CASE b = a
      BY <1>1, <3>1
    <3>2. CASE b # a
      BY <1>2, <2>1, <3>2 DEF RunnerInv, CopiesFresh
    <3> QED BY <3>1, <3>2
  <2>3. task'[b].at # "saving" => task[b].at # "saving"
    <3>1. CASE b = a
      <4>1. task'[a].at # "idle"
        BY <3>1 DEF Shapes, TypeOK, Holds
      <4> QED BY <3>1, <4>1
    <3>2. CASE b # a
      BY <3>2
    <3> QED BY <3>1, <3>2
  <2> QED BY <2>1, <2>2, <2>3 DEF RunnerInv, CopiesFresh
<1>6. Planned'
  BY DEF RunnerInv, Planned, Due
<1>7. EntriesStamped'
  <2> SUFFICES ASSUME NEW j \in Instructions, j \notin excused'
               PROVE  entries[j] <= 1 /\ (entries[j] = 1 => Entered(j)')
    BY DEF EntriesStamped
  <2>1. entries[j] <= 1 /\ (entries[j] = 1 => Entered(j))
    BY DEF RunnerInv, EntriesStamped
  <2>2. CASE j = i
    BY <2>1, <2>2 DEF Entered
  <2>3. CASE j # i
    <3>1. j \notin task[a].now
      BY <1>2, <2>3
    <3> QED BY <2>1, <2>3, <3>1 DEF Entered
  <2> QED BY <2>2, <2>3
<1> QED BY <1>3, <1>4, <1>5, <1>6, <1>7 DEF RunnerInv

\* Outside the hands of others, an instruction entered today is stamped, unless
\* the task that holds it is about to do so.
LEMMA StampedOrHeld ==
  ASSUME RunnerInv, NEW a \in Tasks, NEW i \in Instructions, Holds(a, i), i \notin excused,
         entries[i] = 1,
         task[a].at \in {"booking", "stamp"} => task[a].force
  PROVE  row[i].last = today /\ task[a].copy[i].last = today
<1>1. Entered(i)
  BY DEF RunnerInv, EntriesStamped
<1>2. \A b \in Tasks : Holds(b, i) => b = a
  BY DEF RunnerInv, CopiesFresh
<1>3. \A b \in Tasks : i \in task[b].now => b = a
  BY <1>2 DEF RunnerInv, Shapes, TypeOK
<1>4. row[i].last = today
  BY <1>1, <1>3 DEF Entered
<1> QED BY <1>4 DEF RunnerInv, CopiesFresh

LEMMA StepRunner == RunnerInv /\ [Next]_vars => RunnerInv'
<1> SUFFICES ASSUME RunnerInv, [Next]_vars PROVE RunnerInv'
  OBVIOUS
<1>s. Shapes'
  BY StepShapes DEF RunnerInv
<1>p. Shapes /\ task \in [Tasks -> TaskStates] /\ row \in [Instructions -> Rows]
  BY DEF RunnerInv, Shapes, TypeOK
<1>b. ~Stored(Blank) /\ Blank.last = Never /\ Blank.executions = 0 /\ today # Never
  BY BlankIsARow, <1>p DEF Blank, Shapes, TypeOK, Sessions, Never
<1>i. Idle.at = "idle" /\ Idle.now = {} /\ \A i \in Instructions : Idle.copy[i] = Blank
  BY DEF Idle
<1>1. ASSUME NEW i \in Instructions, NEW k \in Contracts, NEW s \in Dates, NEW e \in BOOLEAN,
             Create(i, k, s, e)
      PROVE  RunnerInv'
  <2>1. /\ row'[i].stored = "stored" /\ row'[i].last = Never /\ row'[i].executions = 0
        /\ \A j \in Instructions : j # i => row'[j] = row[j]
        /\ row[i] = Blank /\ UNCHANGED <<today, task, entries, total, excused>>
    BY <1>1, <1>p, <1>b DEF Create, Blank
  <2>2. total[i] \in Nat
    BY <1>p, RunnerAssumption DEF Shapes, TypeOK, RunnerAssumption
  <2>3. \A a \in Tasks : Holds(a, i) => i \in excused
    BY <1>b, <2>1 DEF RunnerInv, CopiesFresh
  <2>4. ExecutionsWitnessed'
    BY <2>1, <2>2 DEF RunnerInv, ExecutionsWitnessed
  <2>5. CopiesWitnessed' /\ Planned'
    BY <2>1 DEF RunnerInv, CopiesWitnessed, Planned, Due
  <2>6. CopiesFresh'
    BY <2>1, <2>3 DEF RunnerInv, CopiesFresh, Holds
  <2>7. EntriesStamped'
    <3> SUFFICES ASSUME NEW j \in Instructions, j \notin excused
                 PROVE  entries[j] <= 1 /\ (entries[j] = 1 => Entered(j)')
      BY <2>1 DEF EntriesStamped
    <3>1. entries[j] <= 1 /\ (entries[j] = 1 => Entered(j))
      BY DEF RunnerInv, EntriesStamped
    <3>2. CASE j = i
      BY <1>b, <2>1, <3>1, <3>2 DEF Entered
    <3>3. CASE j # i
      BY <2>1, <3>1, <3>3 DEF Entered
    <3> QED BY <3>2, <3>3
  <2> QED BY <1>s, <2>4, <2>5, <2>6, <2>7 DEF RunnerInv
<1>2. ASSUME NEW a \in Tasks, NEW i \in Instructions, NEW r, Edit(a, i, r),
             r.executions = row[i].executions,
             excused \subseteq excused', AnyoneHolds(i) => i \in excused',
             i \notin excused' => r.last = row[i].last
      PROVE  RunnerInv'
  <2>1. /\ task[a].at = "idle" /\ task'[a].at = "saving"
        /\ task'[a].copy = [Idle.copy EXCEPT ![i] = r]
        /\ Stored(row[i]) /\ UNCHANGED <<row, today, entries, total>>
    BY <1>2, <1>p DEF Edit, Idle
  <2>2. \A b \in Tasks : b # a => task'[b] = task[b]
    BY <1>2 DEF Edit
  <2>3. \A j \in Instructions : task'[a].copy[j] = IF j = i THEN r ELSE Blank
    BY <1>i, <2>1 DEF Idle
  <2> QED BY <1>2, <1>s, <2>1, <2>2, <2>3, Taking
<1>3. ASSUME NEW a \in Tasks, NEW i \in Instructions, NEW k \in Contracts, NEW s \in Dates,
             NEW e \in BOOLEAN, Update(a, i, k, s, e)
      PROVE  RunnerInv'
  <2> DEFINE r == [row[i] EXCEPT !.contract = k, !.sessionDate = s, !.enabled = e]
  <2>1. r.executions = row[i].executions /\ r.last = row[i].last
    BY <1>p DEF Rows
  <2>2. excused \subseteq excused' /\ (AnyoneHolds(i) => i \in excused')
    BY <1>3 DEF Update, Share
  <2> QED BY <1>2, <1>3, <2>1, <2>2 DEF Update
<1>4. ASSUME NEW a \in Tasks, NEW i \in Instructions, Rearm(a, i) PROVE RunnerInv'
  <2> DEFINE r == [row[i] EXCEPT !.last = Never]
  <2>1. r.executions = row[i].executions
    BY <1>p DEF Rows
  <2>2. excused \subseteq excused' /\ i \in excused'
    BY <1>4 DEF Rearm
  <2> QED BY <1>2, <1>4, <2>1, <2>2 DEF Rearm
<1>5. ASSUME NEW a \in Tasks, NEW i \in Instructions, SaveEdit(a, i) PROVE RunnerInv'
  <2>1. /\ task[a].at = "saving" /\ i \in task[a].now /\ Holds(a, i)
        /\ row'[i] = task[a].copy[i] /\ \A j \in Instructions : j # i => row'[j] = row[j]
        /\ task'[a] = Idle /\ UNCHANGED <<today, entries, total, excused>>
    BY <1>5, <1>p DEF SaveEdit, Shapes, TypeOK
  <2>2. \A b \in Tasks : b # a => task'[b] = task[b]
    BY <1>5 DEF SaveEdit
  <2>3. row'[i].executions <= total[i]
    BY <2>1 DEF RunnerInv, CopiesWitnessed
  <2>4. i \notin excused' /\ entries[i] = 1 => row'[i].last = today
    BY <2>1, StampedOrHeld
  <2> QED BY <1>i, <1>s, <2>1, <2>2, <2>3, <2>4, Releasing
<1>6. ASSUME NEW i \in Instructions, Remove(i) PROVE RunnerInv'
  <2>1. /\ row'[i] = [row[i] EXCEPT !.stored = "removed"]
        /\ \A j \in Instructions : j # i => row'[j] = row[j]
        /\ UNCHANGED <<today, task, entries, total>>
        /\ excused \subseteq excused' /\ \A a \in Tasks : Holds(a, i) => i \in excused'
    BY <1>6, <1>p DEF Remove, Share, AnyoneHolds
  <2>2. row'[i].last = row[i].last /\ row'[i].executions = row[i].executions
    BY <1>p, <2>1 DEF Rows
  <2>3. ExecutionsWitnessed'
    BY <2>1, <2>2 DEF RunnerInv, ExecutionsWitnessed
  <2>4. CopiesWitnessed' /\ Planned'
    BY <2>1 DEF RunnerInv, CopiesWitnessed, Planned, Due
  <2>5. CopiesFresh'
    BY <2>1 DEF RunnerInv, CopiesFresh, Holds
  <2>6. EntriesStamped'
    <3>1. \A j \in Instructions : Entered(j) => Entered(j)'
      BY <2>1, <2>2 DEF Entered
    <3> QED BY <2>1, <3>1 DEF RunnerInv, EntriesStamped
  <2> QED BY <1>s, <2>3, <2>4, <2>5, <2>6 DEF RunnerInv
<1>7. ASSUME UNCHANGED <<row, today, task, entries, total, excused>> PROVE RunnerInv'
  BY <1>7, <1>s DEF RunnerInv, ExecutionsWitnessed, CopiesWitnessed, CopiesFresh, Planned,
                    EntriesStamped, Entered, Holds, Due
<1>8. ASSUME NEW a \in Tasks, RunDue(a) PROVE RunnerInv'
  <2> DEFINE due == {i \in Instructions : Stored(row[i]) /\ Due(row[i])}
  <2>1. /\ task[a].at = "idle" /\ task'[a].at = "next"
        /\ task'[a].copy = [i \in Instructions |-> IF i \in due THEN row[i] ELSE Blank]
        /\ UNCHANGED <<row, today, entries, total>>
    BY <1>8, <1>p DEF RunDue, Idle
  <2>2. \A b \in Tasks : b # a => task'[b] = task[b]
    BY <1>8 DEF RunDue
  <2>3. excused \subseteq excused' /\ \A i \in due : AnyoneHolds(i) => i \in excused'
    BY <1>8 DEF RunDue, Share
  <2>4. \A i \in Instructions : \/ task'[a].copy[i] = Blank
                                \/ i \in due /\ Stored(row[i]) /\ task'[a].copy[i] = row[i]
    BY <2>1
  <2> HIDE DEF due
  <2> QED BY <1>s, <2>1, <2>2, <2>3, <2>4, Taking
<1>9. ASSUME NEW a \in Tasks, NEW i \in Instructions, NEW f \in BOOLEAN, RunNow(a, i, f)
      PROVE  RunnerInv'
  <2>1. /\ task[a].at = "idle" /\ task'[a].at = "next" /\ Stored(row[i])
        /\ task'[a].copy = [Idle.copy EXCEPT ![i] = row[i]]
        /\ UNCHANGED <<row, today, entries, total>>
    BY <1>9, <1>p DEF RunNow, Idle
  <2>2. \A b \in Tasks : b # a => task'[b] = task[b]
    BY <1>9 DEF RunNow
  <2>3. excused \subseteq excused' /\ (AnyoneHolds(i) => i \in excused')
    BY <1>9 DEF RunNow, Share
  <2>4. \A j \in Instructions : task'[a].copy[j] = IF j = i THEN row[i] ELSE Blank
    BY <1>i, <2>1 DEF Idle
  <2> QED BY <1>s, <2>1, <2>2, <2>3, <2>4, Taking
<1>10. ASSUME NEW a \in Tasks, NEW i \in Instructions, Plan(a, i) PROVE RunnerInv'
  <2>1. /\ task[a].at = "next" /\ task'[a].now = {i}
        /\ task'[a].copy = task[a].copy /\ task'[a].force = task[a].force
        /\ task'[a].at \in {"lookup", "skip"}
        /\ task'[a].at = "lookup" => Due(task[a].copy[i])
        /\ UNCHANGED <<row, today, entries, total, excused>>
    BY <1>10, <1>p DEF Plan, TaskStates
  <2>2. \A b \in Tasks : b # a => task'[b] = task[b]
    BY <1>10, <1>p DEF Plan, Shapes, TypeOK
  <2> QED BY <1>s, <2>1, <2>2, Working
<1>11. ASSUME NEW a \in Tasks, Lookup(a) \/ Book(a) \/ BookFails(a) PROVE RunnerInv'
  <2>1. /\ \/ task[a].at = "lookup" /\ task'[a].at \in {"insert", "skip"}
           \/ task[a].at = "booking" /\ task'[a].at = "stamp"
           \/ task[a].at = "booking" /\ task'[a].at = "skip" /\ task[a].now \subseteq excused'
        /\ task'[a].now = task[a].now
        /\ task'[a].copy = task[a].copy /\ task'[a].force = task[a].force
        /\ UNCHANGED <<row, today, entries, total>> /\ excused \subseteq excused'
    BY <1>11, <1>p DEF Lookup, Book, BookFails, Goto, TaskStates
  <2>2. \A b \in Tasks : b # a => task'[b] = task[b]
    BY <1>11, <1>p DEF Lookup, Book, BookFails, Goto, Shapes, TypeOK
  <2>3. task[a].at = "lookup" => \A i \in task[a].now : Due(task[a].copy[i])
    BY DEF RunnerInv, Planned
  <2> QED BY <1>s, <2>1, <2>2, <2>3, Working
<1>12. ASSUME NEW a \in Tasks, NEW i \in Instructions, Insert(a, i) PROVE RunnerInv'
  <2>1. /\ task[a].at = "insert" /\ i \in task[a].now /\ task'[a].at = "booking"
        /\ task'[a].now = task[a].now
        /\ task'[a].copy = task[a].copy /\ task'[a].force = task[a].force
        /\ UNCHANGED <<row, today, excused>>
        /\ \A b \in Tasks : b # a => task'[b] = task[b]
    BY <1>12, <1>p DEF Insert, Goto, TaskStates
  <2>2. /\ total'[i] = total[i] + 1 /\ \A j \in Instructions : j # i => total'[j] = total[j]
        /\ entries'[i] = IF task[a].force THEN entries[i] ELSE entries[i] + 1
        /\ \A j \in Instructions : j # i => entries'[j] = entries[j]
    BY <1>12, <1>p DEF Insert, Shapes, TypeOK
  <2>3. /\ \A j \in Instructions : total[j] \in Nat /\ entries[j] \in Nat /\ total[j] <= total'[j]
        /\ \A j \in Instructions : total'[j] \in Nat /\ row[j].executions \in Nat
        /\ \A b \in Tasks, j \in Instructions : task[b].copy[j].executions \in Nat
    <3>1. MaxEntries \in Nat /\ total \in [Instructions -> 0..MaxEntries]
      BY <1>p, RunnerAssumption DEF Shapes, TypeOK, RunnerAssumption
    <3>2. \A j \in Instructions : total[j] \in Nat /\ entries[j] \in Nat
      BY <1>p, <3>1 DEF Shapes, TypeOK
    <3>3. \A j \in Instructions : total[j] <= total'[j] /\ total'[j] \in Nat
      <4> SUFFICES ASSUME NEW j \in Instructions
                   PROVE  total[j] <= total'[j] /\ total'[j] \in Nat
        OBVIOUS
      <4>1. CASE j = i
        BY <2>2, <3>2, <4>1
      <4>2. CASE j # i
        BY <2>2, <3>2, <4>2
      <4> QED BY <4>1, <4>2
    <3>4. /\ \A j \in Instructions : row[j] \in Rows
          /\ \A b \in Tasks, j \in Instructions : task[b].copy[j] \in Rows
      BY <1>p DEF Shapes, TypeOK, TaskStates
    <3>5. \A r \in Rows : r.executions \in Nat
      BY DEF Rows
    <3> QED BY <3>2, <3>3, <3>4, <3>5
  <2>4. \A j \in task[a].now : j = i
    BY <1>p, <2>1 DEF Shapes, OneAtATime
  <2>5. ExecutionsWitnessed'
    <3> SUFFICES ASSUME NEW j \in Instructions PROVE row[j].executions <= total'[j]
      BY <2>1 DEF ExecutionsWitnessed
    <3>1. row[j].executions <= total[j]
      BY DEF RunnerInv, ExecutionsWitnessed
    <3>2. /\ row[j].executions \in Nat /\ total[j] \in Nat /\ total'[j] \in Nat
          /\ total[j] <= total'[j]
      BY <2>3
    <3> QED BY <3>1, <3>2
  <2>6. CopiesWitnessed'
    <3> SUFFICES ASSUME NEW b \in Tasks, NEW j \in Instructions
                 PROVE  /\ task'[b].copy[j].executions <= total'[j]
                        /\ task'[b].at \in {"booking", "stamp"} /\ j \in task'[b].now =>
                             task'[b].copy[j].executions < total'[j]
      BY DEF CopiesWitnessed
    <3>0. /\ task[b].copy[j].executions \in Nat /\ total[j] \in Nat /\ total'[j] \in Nat
          /\ total[j] <= total'[j]
      BY <2>3
    <3>1. task[b].copy[j].executions <= total[j]
      BY DEF RunnerInv, CopiesWitnessed
    <3>2. CASE b # a
      <4>1. task[b].at \in {"booking", "stamp"} /\ j \in task[b].now =>
              task[b].copy[j].executions < total[j]
        BY DEF RunnerInv, CopiesWitnessed
      <4>2. task'[b] = task[b]
        BY <2>1, <3>2
      <4> QED BY <3>0, <3>1, <4>1, <4>2
    <3>3. CASE b = a
      <4>1. task'[b].copy[j] = task[b].copy[j] /\ task'[b].now = task[a].now
        BY <2>1, <3>3
      <4>2. CASE j = i
        BY <2>2, <3>0, <3>1, <4>1, <4>2
      <4>3. CASE j # i
        BY <2>4, <3>0, <3>1, <4>1, <4>3
      <4> QED BY <4>2, <4>3
    <3> QED BY <3>2, <3>3
  <2>7. CopiesFresh'
    <3>1. \A b \in Tasks : /\ task'[b].copy = task[b].copy
                           /\ task'[b].at = "saving" <=> task[b].at = "saving"
      BY <2>1
    <3> QED BY <2>1, <3>1 DEF RunnerInv, CopiesFresh, Holds
  <2>8. Planned'
    BY <2>1 DEF RunnerInv, Planned, Due
  <2>9. EntriesStamped'
    <3> SUFFICES ASSUME NEW j \in Instructions, j \notin excused
                 PROVE  entries'[j] <= 1 /\ (entries'[j] = 1 => Entered(j)')
      BY <2>1 DEF EntriesStamped
    <3>1. entries[j] <= 1 /\ (entries[j] = 1 => Entered(j))
      BY DEF RunnerInv, EntriesStamped
    <3>2. Entered(j) => Entered(j)'
      BY <2>1 DEF Entered
    <3>3. CASE j # i \/ task[a].force
      BY <2>2, <3>1, <3>2, <3>3
    <3>4. CASE j = i /\ ~task[a].force
      <4>1. Holds(a, i) /\ Due(task[a].copy[i])
        BY <1>p, <2>1 DEF RunnerInv, Planned, Shapes, TypeOK
      <4>2. task[a].copy[i].last # today
        BY <4>1 DEF Due
      <4>3. entries[i] # 1
        BY <2>1, <3>4, <4>1, <4>2, StampedOrHeld
      <4>4. Entered(i)'
        BY <2>1, <3>4 DEF Entered
      <4> QED BY <2>2, <2>3, <3>1, <3>4, <4>3, <4>4
    <3> QED BY <3>3, <3>4
  <2> QED BY <1>s, <2>5, <2>6, <2>7, <2>8, <2>9 DEF RunnerInv
<1>13. ASSUME NEW a \in Tasks, NEW i \in Instructions, task[a].at \in {"skip", "stamp"},
              i \in task[a].now, task' = [task EXCEPT ![a] = Dropped(a, i)],
              \A j \in Instructions : j # i => row'[j] = row[j],
              row'[i].executions <= total[i],
              i \notin excused' /\ entries[i] = 1 => row'[i].last = today,
              UNCHANGED <<today, entries, total>>, excused \subseteq excused'
       PROVE  RunnerInv'
  <2>1. task'[a] = Dropped(a, i) /\ \A b \in Tasks : b # a => task'[b] = task[b]
    BY <1>13, <1>p
  <2>2. /\ task'[a].at \in {"idle", "next"} /\ task'[a].now = {}
        /\ \A j \in Instructions :
             task'[a].copy[j] = Blank \/ (j # i /\ task'[a].copy[j] = task[a].copy[j])
    BY <1>p, <2>1, DroppedTask
  <2> QED BY <1>13, <1>s, <2>1, <2>2, Releasing
<1>14. ASSUME NEW a \in Tasks, NEW i \in Instructions, Finish(a, i) PROVE RunnerInv'
  <2>1. /\ task[a].at \in {"skip", "stamp"} /\ i \in task[a].now /\ Holds(a, i)
        /\ row'[i] = Result(a, i) /\ \A j \in Instructions : j # i => row'[j] = row[j]
        /\ task[a].copy[i] \in Rows /\ total[i] \in Nat
    BY <1>14, <1>p, RunnerAssumption
    DEF Finish, Shapes, TypeOK, TaskStates, RunnerAssumption
  <2>2. task[a].copy[i].executions \in Nat
    BY <2>1 DEF Rows
  <2>3. /\ task[a].copy[i].executions <= total[i]
        /\ task[a].at = "stamp" => task[a].copy[i].executions < total[i]
    BY <2>1 DEF RunnerInv, CopiesWitnessed
  <2>4. i \notin excused /\ entries[i] = 1 /\ (task[a].at = "stamp" => task[a].force) =>
          task[a].copy[i].last = today
    BY <2>1, StampedOrHeld
  <2>5. row'[i].executions <= total[i]
        /\ (i \notin excused /\ entries[i] = 1 => row'[i].last = today)
    <3>1. CASE task[a].at = "skip"
      BY <2>1, <2>3, <2>4, <3>1 DEF Result
    <3>2. CASE task[a].at = "stamp"
      <4>1. /\ row'[i].executions = task[a].copy[i].executions + 1
            /\ row'[i].last = IF task[a].force THEN task[a].copy[i].last ELSE today
        BY <2>1, <3>2 DEF Result, Rows
      <4> QED BY <2>1, <2>2, <2>3, <2>4, <3>2, <4>1
    <3> QED BY <2>1, <3>1, <3>2
  <2> QED BY <1>13, <1>14, <2>1, <2>5 DEF Finish
<1>15. ASSUME NEW a \in Tasks, NEW i \in Instructions, FinishFails(a, i) PROVE RunnerInv'
  <2>1. /\ task[a].at \in {"skip", "stamp"} /\ i \in task[a].now /\ Holds(a, i) /\ row' = row
        /\ excused \subseteq excused' /\ (task[a].at = "stamp" => i \in excused')
    BY <1>15, <1>p DEF FinishFails, Shapes, TypeOK
  <2>2. row[i].executions <= total[i]
    BY DEF RunnerInv, ExecutionsWitnessed
  <2>3. i \notin excused' /\ entries[i] = 1 => row[i].last = today
    BY <2>1, StampedOrHeld
  <2> QED BY <1>13, <1>15, <2>1, <2>2, <2>3 DEF FinishFails
<1>16. ASSUME \A a \in Tasks : task'[a] = Idle, UNCHANGED <<row, total>>,
              \A i \in Instructions \ excused' :
                entries'[i] <= 1 /\ (entries'[i] = 1 => row[i].last = today')
       PROVE  RunnerInv'
  <2>1. ExecutionsWitnessed'
    BY <1>16 DEF RunnerInv, ExecutionsWitnessed
  <2>2. CopiesWitnessed' /\ CopiesFresh' /\ Planned'
    <3>1. \A i \in Instructions : total[i] \in Nat
      BY <1>p, RunnerAssumption DEF Shapes, TypeOK, RunnerAssumption
    <3> QED BY <1>16, <1>i, <1>b, <3>1 DEF CopiesWitnessed, CopiesFresh, Planned, Holds
  <2>3. EntriesStamped'
    BY <1>16 DEF EntriesStamped, Entered
  <2> QED BY <1>s, <2>1, <2>2, <2>3 DEF RunnerInv
<1>17. CASE NewDay
  <2>1. \A a \in Tasks : task'[a].at = "idle" /\ task'[a] = task[a]
    BY <1>17 DEF NewDay
  <2>2. \A a \in Tasks, i \in Instructions : ~Holds(a, i) /\ i \notin task[a].now
    BY <1>17, <1>p DEF NewDay, Shapes, TypeOK
  <2>3. UNCHANGED <<row, task, total>> /\ \A i \in Instructions : entries'[i] = 0
    BY <1>17 DEF NewDay
  <2>4. ExecutionsWitnessed' /\ CopiesWitnessed'
    BY <2>3 DEF RunnerInv, ExecutionsWitnessed, CopiesWitnessed
  <2>5. CopiesFresh' /\ Planned'
    BY <2>1, <2>2, <2>3 DEF CopiesFresh, Planned, Holds
  <2>6. EntriesStamped'
    BY <2>3 DEF EntriesStamped
  <2> QED BY <1>s, <2>4, <2>5, <2>6 DEF RunnerInv
<1>18. CASE Crash
  <2>1. (\A a \in Tasks : task'[a] = Idle) /\ UNCHANGED <<row, today, total, entries>>
    BY <1>18 DEF Crash
  <2>2. \A i \in Instructions \ excused' :
          entries[i] <= 1 /\ (entries[i] = 1 => row[i].last = today)
    <3> SUFFICES ASSUME NEW i \in Instructions, i \notin excused'
                 PROVE  entries[i] <= 1 /\ (entries[i] = 1 => row[i].last = today)
      OBVIOUS
    <3>1. /\ i \notin excused
          /\ \A a \in Tasks : task[a].at \in {"booking", "stamp"} => i \notin task[a].now
      BY <1>18 DEF Crash
    <3> QED BY <3>1 DEF RunnerInv, EntriesStamped, Entered
  <2> QED BY <1>16, <2>1, <2>2
<1>19. ASSUME NEW k \in Contracts, CloseTrade(k) PROVE RunnerInv'
  BY <1>7, <1>19 DEF CloseTrade
<1>20. CASE WindowOpens \/ WindowCloses \/ UNCHANGED vars
  BY <1>7, <1>20 DEF WindowOpens, WindowCloses, vars
<1> QED
  BY <1>1, <1>3, <1>4, <1>5, <1>6, <1>8, <1>9, <1>10, <1>11, <1>12, <1>14, <1>15, <1>17,
     <1>18, <1>19, <1>20 DEF Next, Operate, Run, Execute

-----------------------------------------------------------------------------
LEMMA RunnerInvariant == Spec => []RunnerInv
<1>1. RunnerInv /\ [Next]_vars => RunnerInv'
  BY StepRunner
<1> QED BY InitRunner, <1>1, PTL DEF Spec

\* Every variable of the runner keeps its type, for any number of tasks,
\* instructions and sessions, and a task holds the rows it works on.
THEOREM RunnerWellTyped == Spec => []TypeOK
<1>1. RunnerInv => TypeOK
  BY DEF RunnerInv, Shapes
<1> QED BY RunnerInvariant, <1>1, PTL

\* Unforced runs open at most one trade per instruction and session, unless the
\* row was shared, rearmed, or a fault fell between the trade and the stamp.
THEOREM OneEntryPerSession == Spec => []OncePerSession
<1>1. RunnerInv => OncePerSession
  BY DEF RunnerInv, EntriesStamped, OncePerSession
<1> QED BY RunnerInvariant, <1>1, PTL

\* No stored row claims more executions than it opened trades, whatever stale
\* rows are saved over newer ones.
THEOREM ExecutionsAreTrades == Spec => []ExecutionsWitnessed
<1>1. RunnerInv => ExecutionsWitnessed
  BY DEF RunnerInv
<1> QED BY RunnerInvariant, <1>1, PTL

\* A trade counted for an instruction nobody disturbed is one its stored row
\* asked for at that very moment, although the runner decided from a copy.
THEOREM EntriesAsOrdered == Spec => EntersAsOrdered
<1> DEFINE AsOrdered == \A i \in Instructions :
             entries'[i] > entries[i] /\ i \notin excused' => Stored(row[i]) /\ Due(row[i])
<1>1. RunnerInv /\ [Next]_vars => AsOrdered
  <2> SUFFICES ASSUME RunnerInv, [Next]_vars, NEW i \in Instructions,
                      entries'[i] > entries[i], i \notin excused'
               PROVE  Stored(row[i]) /\ Due(row[i])
    OBVIOUS
  <2>1. entries[i] \in Nat
    BY DEF RunnerInv, Shapes, TypeOK
  <2>2. entries'[i] # entries[i] /\ entries'[i] # 0
    BY <2>1
  <2>3. PICK a \in Tasks, j \in Instructions : Insert(a, j)
    BY <2>2 DEF Next, Operate, Run, Execute, vars, Create, Update, Rearm, Edit, SaveEdit,
       Remove, CloseTrade, RunDue, RunNow, Plan, Lookup, Book, BookFails, Finish, FinishFails,
       WindowOpens, WindowCloses, NewDay, Crash
  <2>4. i = j
    BY <2>2, <2>3 DEF Insert, RunnerInv, Shapes, TypeOK
  <2>5. /\ task[a].at = "insert" /\ i \in task[a].now /\ i \notin excused
    BY <2>3, <2>4 DEF Insert
  <2>6. Holds(a, i)
    BY <2>5 DEF RunnerInv, Shapes, TypeOK
  <2>7. Stored(row[i]) /\ row[i] = task[a].copy[i]
    BY <2>5, <2>6 DEF RunnerInv, CopiesFresh
  <2>8. Due(task[a].copy[i])
    BY <2>5 DEF RunnerInv, Planned
  <2> QED BY <2>7, <2>8
<1>2. [][AsOrdered]_vars <=> EntersAsOrdered
  BY DEF EntersAsOrdered
<1> QED BY RunnerInvariant, <1>1, <1>2, PTL DEF Spec

\* Recording a result leaves what the operator ordered as it is, unless another
\* task had the row in its hands.
THEOREM OrdersSurviveResults == Spec => ResultsKeepOrders
<1> DEFINE Kept == \A a \in Tasks : task[a].at \in {"skip", "stamp"} /\ task'[a] # task[a] =>
             \A i \in task[a].now \ excused : Orders(row'[i]) = Orders(row[i])
<1>1. RunnerInv /\ [Next]_vars => Kept
  <2> SUFFICES ASSUME RunnerInv, [Next]_vars, NEW a \in Tasks, task[a].at \in {"skip", "stamp"},
                      task'[a] # task[a], NEW i \in task[a].now, i \notin excused
               PROVE  Orders(row'[i]) = Orders(row[i])
    OBVIOUS
  <2>t. task \in [Tasks -> TaskStates] /\ i \in Instructions /\ Holds(a, i)
        /\ task[a].at # "idle"
    BY DEF RunnerInv, Shapes, TypeOK, TaskStates
  <2>1. CASE row' = row
    BY <2>1
  <2>2. CASE \E j \in Instructions : Finish(a, j)
    <3>1. PICK j \in Instructions : Finish(a, j)
      BY <2>2
    <3>2. CASE i # j
      BY <2>t, <3>1, <3>2 DEF Finish, RunnerInv, Shapes, TypeOK
    <3>3. CASE i = j
      <4>1. row'[i] = Result(a, i) /\ task[a].copy[i] \in Rows
        BY <2>t, <3>1, <3>3 DEF Finish, RunnerInv, Shapes, TypeOK, TaskStates
      <4>2. row[i] = task[a].copy[i]
        BY <2>t DEF RunnerInv, CopiesFresh
      <4>3. Orders(Result(a, i)) = Orders(task[a].copy[i])
        <5>1. \A r \in Rows : \A n, d :
                Orders([r EXCEPT !.executions = n, !.last = d]) = Orders(r)
          BY DEF Orders, Rows
        <5> QED BY <4>1, <5>1 DEF Result
      <4> QED BY <4>1, <4>2, <4>3
    <3> QED BY <3>2, <3>3
  <2>3. ~ \E j \in Instructions, k \in Contracts, s \in Dates, e \in BOOLEAN : Create(j, k, s, e)
    BY DEF Create
  <2>4. ~ \E j \in Instructions : Remove(j)
    BY DEF Remove
  <2>5. ~ \E b \in Tasks, j \in Instructions : SaveEdit(b, j)
    <3> SUFFICES ASSUME NEW b \in Tasks, NEW j \in Instructions, SaveEdit(b, j) PROVE FALSE
      OBVIOUS
    <3>1. a # b
      BY DEF SaveEdit
    <3> QED BY <2>t, <3>1 DEF SaveEdit
  <2>6. ASSUME NEW b \in Tasks, NEW j \in Instructions, Finish(b, j), b # a PROVE FALSE
    BY <2>t, <2>6 DEF Finish
  <2>7. \/ row' = row \/ \E j \in Instructions : Finish(a, j)
    BY <2>3, <2>4, <2>5, <2>6 DEF Next, Operate, Run, Execute, vars, Update, Rearm, Edit,
       CloseTrade, RunDue, RunNow, Plan, Insert, Lookup, Book, BookFails, FinishFails,
       WindowOpens, WindowCloses, NewDay, Crash
  <2> QED BY <2>1, <2>2, <2>7
<1>2. [][Kept]_vars <=> ResultsKeepOrders
  BY DEF ResultsKeepOrders
<1> QED BY RunnerInvariant, <1>1, <1>2, PTL DEF Spec
=============================================================================
