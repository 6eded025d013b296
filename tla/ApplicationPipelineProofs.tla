---------------------- MODULE ApplicationPipelineProofs ----------------------
(* Theorems about ApplicationPipeline, for any leads, any number of tasks in   *)
(* flight, of items, of rows, of retries and of faults.                        *)
EXTENDS ApplicationPipeline, TLAPS

\* The numbers a row, an item or a counter may have.
LEMMA Numbers ==
  /\ MaxItems \in Nat /\ MaxApps \in Nat /\ MaxRetries \in Nat /\ MaxFaults \in Nat
  /\ NoLead \notin Leads
  /\ 0 \notin Items /\ 0 \notin Apps
BY PipelineAssumption DEF PipelineAssumption, Items, Apps

LEMMA IdleTyped ==
  /\ \A l \in Leads \cup {NoLead} : Fresh(l) \in AppRows
  /\ Idle \in TaskStates
  /\ Idle.kind = "none" /\ Idle.at = "idle" /\ Idle.result = "none" /\ Idle.seen = "unused"
<1>1. \A l \in Leads \cup {NoLead} : Fresh(l) \in AppRows
  BY Numbers DEF Fresh, AppRows, AppStatus
<1>2. Idle \in TaskStates
  BY <1>1 DEF Idle, TaskStates, Kinds, Steps, Edits, Results, ItemStatus
<1> QED
  BY <1>1, <1>2 DEF Idle

\* Task t becomes a typed state, and the rest of the tasks stay typed.
LEMMA BecomeTyped ==
  ASSUME TypeOK, NEW t \in Tasks, NEW r \in TaskStates, Become(t, r)
  PROVE  /\ task' \in [Tasks -> TaskStates]
         /\ shared' \subseteq Leads
<1>1. LeadsOf(r) \subseteq Leads
  BY DEF LeadsOf, TaskStates, AppRows
<1> QED
  BY <1>1 DEF Become, SharedBy, TypeOK

-----------------------------------------------------------------------------
(* What is true of a task between its awaits.                                  *)

Used(its, i)    == i \in Items /\ its[i].status # "unused" /\ its[i].lead \in Leads
Reached(snt, l) == l \in Leads /\ snt[l] > 0

\* What an item may say sent of: its lead was submitted, or left out for the sandbox.
Claimed(snt, stg, l) == l \in Leads /\ (snt[l] > 0 \/ l \in stg)

Engaged == {"dedupe", "send", "save", "lead", "write"}

\* What it has in hand exists, and belongs together.
InHand(its, r) ==
  /\ r.at = "preparing" => r.lead \in Leads
  /\ r.at \in {"next", "preparing"} => r.seen = "unused" /\ r.row = 0
  /\ r.at \in Engaged => r.lead \in Leads /\ r.app.lead = r.lead
  /\ r.at \in Engaged => r.seen = "unused"
  /\ r.at = "dedupe" => r.kind \notin Edits \cup {"followUp"}
  /\ r.at \in {"match", "matched", "mark"} => r.kind = "sweep" /\ Used(its, r.item)
  /\ r.at = "matched" => r.seen # "unused"
  /\ r.at = "save" => r.result \in Results \ {"killed"}
  /\ r.at = "write" => r.result \in Results
  /\ r.at = "lead" => r.result = "submitted"
  /\ r.kind = "sweep" /\ r.at \in Engaged => Used(its, r.item) /\ its[r.item].lead = r.lead
  /\ r.kind \in Edits => Used(its, r.item) /\ r.seen # "unused"
  /\ r.kind = "followUp" => r.app.status # "unused" /\ r.app.lead \in Leads
  /\ \A i \in r.items : Used(its, i)
  /\ \A e \in r.due : /\ e[2].status = "failed" /\ e[2].lead \in Leads
                      /\ e[2].retries < MaxRetries

\* A success it knows of, or holds a copy of, did happen; what it was told had been left
\* out for the sandbox was left out, unless it was submitted all the same.
Truthful(its, snt, stg, r) ==
  /\ r.at \in {"save", "lead", "write"} /\ r.result = "submitted" => Reached(snt, r.lead)
  /\ r.at = "save" /\ r.result = "sandboxed" => Claimed(snt, stg, r.lead)
  /\ r.at \in {"match", "matched", "mark"} /\ r.result \in {"submitted", "sandboxed"}
       => Claimed(snt, stg, its[r.item].lead)
  /\ r.seen = "sent" => Used(its, r.item) /\ Claimed(snt, stg, its[r.item].lead)
  /\ r.app.status = "submitted" => Reached(snt, r.app.lead)

Sound(its, snt, stg, r) == InHand(its, r) /\ Truthful(its, snt, stg, r)

RowsHaveLeads ==
  /\ \A i \in Items : items[i].status # "unused" => items[i].lead \in Leads
  /\ \A a \in Apps : apps[a].status # "unused" => apps[a].lead \in Leads

PipelineInv ==
  /\ TypeOK
  /\ RowsHaveLeads
  /\ SuccessIsTrue
  /\ \A t \in Tasks : Sound(items, sent, staged, task[t])

\* Items keep their lead, and what was submitted stays submitted.
Grows ==
  /\ \A i \in Items : Used(items, i) => Used(items', i) /\ items'[i].lead = items[i].lead
  /\ \A l \in Leads : Reached(sent, l) => Reached(sent', l)
  /\ \A l \in Leads : Claimed(sent, staged, l) => Claimed(sent', staged', l)

TasksSound == /\ task' \in [Tasks -> TaskStates]
              /\ shared' \subseteq Leads
              /\ \A u \in Tasks : Sound(items', sent', staged', task'[u])

LEMMA IdleSound == ASSUME NEW its, NEW snt, NEW stg PROVE Sound(its, snt, stg, Idle)
BY DEF Sound, InHand, Truthful, Idle, Engaged, Edits, Fresh

LEMMA StaysSound ==
  ASSUME NEW r \in TaskStates, Sound(items, sent, staged, r), Grows
  PROVE  Sound(items', sent', staged', r)
<1>1. /\ \A i : Used(items, i) => Used(items', i) /\ items'[i].lead = items[i].lead
      /\ \A l : Reached(sent, l) => Reached(sent', l)
      /\ \A l : Claimed(sent, staged, l) => Claimed(sent', staged', l)
  BY DEF Grows, Used, Reached, Claimed
<1>2. InHand(items', r)
  BY <1>1 DEF Sound, InHand
<1>3. Truthful(items', sent', staged', r)
  BY <1>1 DEF Sound, InHand, Truthful
<1> QED
  BY <1>2, <1>3 DEF Sound

LEMMA SameRowsGrow == ASSUME UNCHANGED <<items, sent, staged>> PROVE Grows
BY DEF Grows

\* The step of task t leaves every task sound if it leaves t sound.
LEMMA Carried ==
  ASSUME PipelineInv, NEW t \in Tasks, NEW r \in TaskStates, Become(t, r), Grows,
         Sound(items', sent', staged', r)
  PROVE  TasksSound
<1>1. task' \in [Tasks -> TaskStates] /\ shared' \subseteq Leads
  BY BecomeTyped DEF PipelineInv
<1>2. ASSUME NEW u \in Tasks PROVE Sound(items', sent', staged', task'[u])
  <2>1. CASE u = t
    BY <2>1 DEF Become, PipelineInv, TypeOK
  <2>2. CASE u # t
    <3>1. task'[u] = task[u] /\ task[u] \in TaskStates /\ Sound(items, sent, staged, task[u])
      BY <2>2 DEF Become, PipelineInv, TypeOK
    <3> QED
      BY <3>1, StaysSound
  <2> QED
    BY <2>1, <2>2
<1> QED
  BY <1>1, <1>2 DEF TasksSound

\* What the engine makes of a typed task.
LEMMA ReturnTyped ==
  ASSUME NEW me \in TaskStates, NEW r \in Results
  PROVE  Return(me, r) \in TaskStates
<1>1. CASE me.kind = "apply"
  BY <1>1, IdleTyped DEF Return
<1>2. CASE me.kind = "sweep"
  <2>1. /\ "sweep" \in Kinds /\ "match" \in Steps
        /\ me.items \in SUBSET Items /\ me.item \in Items \cup {0}
        /\ r \in Results \cup {"none"}
    BY DEF TaskStates, Kinds, Steps
  <2>2. [Idle EXCEPT !.kind = "sweep", !.at = "match", !.items = me.items,
                     !.item = me.item, !.result = r] \in TaskStates
    BY <2>1, IdleTyped DEF TaskStates
  <2> QED
    BY <1>2, <2>2 DEF Return
<1>3. CASE me.kind \notin {"apply", "sweep"}
  <2>1. [me EXCEPT !.at = "write", !.result = r] \in TaskStates
    BY DEF TaskStates, Steps
  <2> QED
    BY <1>3, <2>1 DEF Return
<1> QED
  BY <1>1, <1>2, <1>3

LEMMA ReturnSound ==
  ASSUME NEW its, NEW snt, NEW stg, NEW me \in TaskStates, NEW r \in Results,
         InHand(its, [me EXCEPT !.at = "send"]), me.app.status = "submitted" => Reached(snt, me.app.lead),
         me.seen # "sent", me.kind \in {"apply", "sweep"} \/ me.app.lead = me.lead,
         me.lead \in Leads, r = "submitted" => Reached(snt, me.lead),
         r = "sandboxed" => Claimed(snt, stg, me.lead)
  PROVE  Sound(its, snt, stg, Return(me, r))
<1>1. CASE me.kind = "apply"
  BY <1>1, IdleSound DEF Return
<1>2. CASE me.kind = "sweep"
  <2>1. Used(its, me.item) /\ its[me.item].lead = me.lead /\ \A i \in me.items : Used(its, i)
    BY <1>2 DEF InHand, Engaged, TaskStates
  <2> DEFINE q == [Idle EXCEPT !.kind = "sweep", !.at = "match", !.items = me.items,
                               !.item = me.item, !.result = r]
  <2>2. /\ q.kind = "sweep" /\ q.at = "match" /\ q.items = me.items /\ q.item = me.item
        /\ q.result = r /\ q.seen = "unused" /\ q.app.status = "unused" /\ q.due = {}
    BY DEF Idle, Fresh
  <2> HIDE DEF q
  <2>3. r \in {"submitted", "sandboxed"} => Claimed(snt, stg, me.lead)
    BY DEF Reached, Claimed
  <2>4. Sound(its, snt, stg, q)
    BY <2>1, <2>2, <2>3 DEF Sound, InHand, Truthful, Engaged, Edits
  <2> QED
    BY <1>2, <2>4 DEF Return, q
<1>3. CASE me.kind \notin {"apply", "sweep"}
  <2> DEFINE q == [me EXCEPT !.at = "write", !.result = r]
  <2>1. Return(me, r) = q
    BY <1>3 DEF Return
  <2>2. /\ q.at = "write" /\ q.result = r /\ q.kind = me.kind /\ q.lead = me.lead
        /\ q.app = me.app /\ q.items = me.items /\ q.item = me.item /\ q.due = me.due
        /\ q.seen = me.seen
    BY DEF TaskStates
  <2> HIDE DEF q
  <2>3. /\ me.kind \in Edits => Used(its, me.item) /\ me.seen # "unused"
        /\ me.kind = "followUp" => me.app.status # "unused" /\ me.app.lead \in Leads
        /\ \A i \in me.items : Used(its, i)
        /\ \A e \in me.due : /\ e[2].status = "failed" /\ e[2].lead \in Leads
                             /\ e[2].retries < MaxRetries
    BY DEF InHand, TaskStates
  <2>4. Sound(its, snt, stg, q)
    BY <1>3, <2>2, <2>3 DEF Sound, InHand, Truthful, Engaged
  <2> QED
    BY <2>1, <2>4
<1> QED
  BY <1>1, <1>2, <1>3

\* What a caller of the engine brings.
Asks(me) ==
  /\ me \in TaskStates /\ me.lead \in Leads
  /\ me.kind \in {"apply", "sweep"} \/ me.app.lead = me.lead
  /\ me.row # 0 => me.app.lead = me.lead
  /\ me.seen = "unused"
  /\ me.kind \notin Edits \cup {"followUp"}
  /\ me.kind = "sweep" => Used(items, me.item) /\ items[me.item].lead = me.lead
  /\ \A i \in me.items : Used(items, i)
  /\ \A e \in me.due : /\ e[2].status = "failed" /\ e[2].lead \in Leads
                       /\ e[2].retries < MaxRetries
  /\ me.app.status = "submitted" => Reached(sent, me.app.lead)

LEMMA AsksSends ==
  ASSUME NEW me, Asks(me), NEW r \in TaskStates,
         r.at = "send", r.app.lead = me.lead,
         r.app.status = "submitted" => Reached(sent, me.lead),
         r.kind = me.kind, r.lead = me.lead, r.items = me.items, r.item = me.item,
         r.due = me.due, r.seen = me.seen
  PROVE  Sound(items, sent, staged, r)
BY DEF Asks, Sound, InHand, Truthful, Engaged

LEMMA EngineSound ==
  ASSUME PipelineInv, NEW t \in Tasks, NEW me, Asks(me), Engine(t, me),
         UNCHANGED <<items, sent, staged>>
  PROVE  TasksSound
<1> USE DEF Asks
<1>1. ASSUME NEW r \in Results \ {"submitted", "sandboxed"}, Become(t, Return(me, r))
      PROVE  TasksSound
  <2>1. Return(me, r) \in TaskStates
    BY ReturnTyped
  <2>2. Sound(items, sent, staged, Return(me, r))
    <3>1. CASE me.kind = "apply"
      BY <3>1, IdleSound DEF Return
    <3>2. CASE me.kind = "sweep"
      <4> DEFINE q == [Idle EXCEPT !.kind = "sweep", !.at = "match", !.items = me.items,
                                   !.item = me.item, !.result = r]
      <4>1. /\ q.kind = "sweep" /\ q.at = "match" /\ q.items = me.items /\ q.item = me.item
            /\ q.result = r /\ q.seen = "unused" /\ q.app.status = "unused" /\ q.due = {}
        BY DEF Idle, Fresh
      <4> HIDE DEF q
      <4>2. Sound(items, sent, staged, q)
        BY <3>2, <4>1 DEF Sound, InHand, Truthful, Engaged, Edits
      <4> QED
        BY <3>2, <4>2 DEF Return, q
    <3>3. CASE me.kind \notin {"apply", "sweep"}
      <4>1. InHand(items, [me EXCEPT !.at = "send"])
        BY <3>3 DEF InHand, TaskStates
      <4> QED
        BY <4>1, ReturnSound
    <3> QED
      BY <3>1, <3>2, <3>3
  <2> QED
    BY <1>1, <2>1, <2>2, Carried, SameRowsGrow
<1>2. ASSUME NEW r \in TaskStates, Become(t, r),
             r.at = "send", r.app.lead = me.lead,
             r.app.status = "submitted" => Reached(sent, me.lead),
             r.kind = me.kind, r.lead = me.lead, r.items = me.items, r.item = me.item,
             r.due = me.due, r.seen = me.seen
      PROVE  TasksSound
  BY <1>2, AsksSends, Carried, SameRowsGrow
<1>3. ASSUME me.row # 0, Become(t, [me EXCEPT !.at = "send"])
      PROVE  TasksSound
  <2>1. [me EXCEPT !.at = "send"] \in TaskStates
    BY DEF TaskStates, Steps
  <2> QED
    BY <1>3, <2>1, <1>2 DEF TaskStates
<1>4. ASSUME NEW a \in Newest(apps, me.lead),
             Become(t, [me EXCEPT !.at = "send", !.row = a, !.app = apps[a]])
      PROVE  TasksSound
  <2>1. a \in Apps /\ apps[a] \in AppRows /\ apps[a].lead = me.lead
    BY DEF Newest, PipelineInv, TypeOK
  <2>2. [me EXCEPT !.at = "send", !.row = a, !.app = apps[a]] \in TaskStates
    BY <2>1 DEF TaskStates, Steps
  <2>3. apps[a].status = "submitted" => Reached(sent, me.lead)
    BY <2>1 DEF PipelineInv, SuccessIsTrue, Reached
  <2> QED
    BY <1>4, <2>1, <2>2, <2>3, <1>2 DEF TaskStates
<1>5. ASSUME Become(t, [me EXCEPT !.at = "send", !.app = Fresh(me.lead)])
      PROVE  TasksSound
  <2>1. Fresh(me.lead) \in AppRows /\ Fresh(me.lead).lead = me.lead
        /\ Fresh(me.lead).status = "unused"
    BY IdleTyped DEF Fresh
  <2>2. [me EXCEPT !.at = "send", !.app = Fresh(me.lead)] \in TaskStates
    BY <2>1 DEF TaskStates, Steps
  <2> QED
    BY <1>5, <2>1, <2>2, <1>2 DEF TaskStates
<1> QED
  BY <1>1, <1>3, <1>4, <1>5 DEF Engine, Results

-----------------------------------------------------------------------------
(* One lemma per group of actions.                                             *)

\* What a step owes besides the tasks.
RowsSound == /\ items' \in [Items -> ItemRows]
             /\ apps' \in [Apps -> AppRows]
             /\ applied' \subseteq Leads /\ running' \in BOOLEAN
             /\ sent' \in [Leads -> 0..2] /\ staged' \subseteq Leads
             /\ RowsHaveLeads'
             /\ SuccessIsTrue'
CountersTyped == /\ attempts' \in [Apps -> 0..(MaxRetries + 1)]
                 /\ consent' \subseteq Items
                 /\ mishap' \subseteq Leads
                 /\ faults' \in 0..MaxFaults

LEMMA Together == ASSUME TasksSound, RowsSound, CountersTyped PROVE PipelineInv'
BY DEF TasksSound, RowsSound, CountersTyped, PipelineInv, TypeOK

LEMMA SameRows ==
  ASSUME PipelineInv, UNCHANGED <<items, apps, applied, sent, staged>>, running' \in BOOLEAN
  PROVE  RowsSound
BY DEF PipelineInv, TypeOK, RowsSound, RowsHaveLeads, SuccessIsTrue

LEMMA SameCounters ==
  ASSUME PipelineInv, UNCHANGED <<attempts, consent, mishap, faults>>
  PROVE  CountersTyped
BY DEF PipelineInv, TypeOK, CountersTyped

\* An application row of a lead is saved; if it claims a submission there was one.
LEMMA Stored ==
  ASSUME PipelineInv, NEW a \in Apps, NEW app \in AppRows, Store(a, app),
         app.status # "unused" => app.lead \in Leads,
         app.status = "submitted" => Reached(sent, app.lead),
         UNCHANGED <<items, applied, running, sent, staged>>
  PROVE  RowsSound
<1>1. /\ apps' \in [Apps -> AppRows] /\ apps'[a] = app
      /\ \A b \in Apps \ {a} : apps'[b] = apps[b]
  BY DEF Store, PipelineInv, TypeOK
<1> QED
  BY <1>1 DEF PipelineInv, TypeOK, RowsSound, RowsHaveLeads, SuccessIsTrue, Reached

\* The status of a used item is saved; if it says sent, its lead was submitted or left out.
LEMMA StatusSaved ==
  ASSUME PipelineInv, NEW i \in Items, Used(items, i),
         NEW st \in ItemStatus \ {"unused"}, items' = [items EXCEPT ![i].status = st],
         st = "sent" => Claimed(sent, staged, items[i].lead),
         UNCHANGED <<apps, applied, running, sent, staged>>
  PROVE  RowsSound /\ Grows
<1>1. /\ items' \in [Items -> ItemRows]
      /\ items'[i].lead = items[i].lead /\ items'[i].status = st
      /\ \A j \in Items \ {i} : items'[j] = items[j]
  BY DEF PipelineInv, TypeOK, ItemRows
<1>2. Grows
  BY <1>1 DEF Grows, Used
<1>3. RowsSound
  BY <1>1 DEF PipelineInv, TypeOK, RowsSound, RowsHaveLeads, SuccessIsTrue, Reached, Claimed, Used
<1> QED
  BY <1>2, <1>3

LEMMA SoundTask ==
  ASSUME PipelineInv, NEW t \in Tasks
  PROVE  task[t] \in TaskStates /\ Sound(items, sent, staged, task[t])
BY DEF PipelineInv, TypeOK

\* Steps that start something, or take the next lead, and touch no row.
LEMMA StartsSound ==
  ASSUME PipelineInv, NEW t \in Tasks,
         \/ \E l \in Leads : StartPrepare(t, l) \/ LoopTakes(t, l)
         \/ \E i \in Items, op \in Edits : StartEdit(t, op, i)
         \/ \E a \in Apps : StartFollowUp(t, a)
         \/ StartLoop(t) \/ StartSweep(t) \/ StartTick(t) \/ LoopEnds(t)
         \/ ReadMatch(t) \/ ReadDue(t)
  PROVE  PipelineInv'
<1>1. ASSUME NEW r \in TaskStates, Become(t, r), Sound(items, sent, staged, r),
             UNCHANGED <<items, apps, applied, history>>, running' \in BOOLEAN
      PROVE  PipelineInv'
  <2>1. Sound(items', sent', staged', r) /\ UNCHANGED <<items, sent, staged>>
    BY <1>1 DEF history
  <2>2. TasksSound
    BY <1>1, <2>1, Carried, SameRowsGrow
  <2> QED
    BY <1>1, <2>2, SameRows, SameCounters, Together DEF history
<1>2. running \in BOOLEAN
  BY DEF PipelineInv, TypeOK
<1>3. ASSUME NEW l \in Leads, StartPrepare(t, l) PROVE PipelineInv'
  <2> DEFINE r == [Idle EXCEPT !.kind = "prepare", !.at = "preparing", !.lead = l]
  <2>1. r \in TaskStates
    BY IdleTyped DEF TaskStates, Kinds, Steps
  <2>2. Sound(items, sent, staged, r)
    BY DEF Idle, Fresh, Sound, InHand, Truthful, Engaged, Edits
  <2> QED
    BY <1>1, <1>2, <1>3, <2>1, <2>2 DEF StartPrepare, rows
<1>4. ASSUME NEW l \in Leads, LoopTakes(t, l) PROVE PipelineInv'
  <2> DEFINE q == [task[t] EXCEPT !.leads = @ \ {l}]
             p == [q EXCEPT !.at = "preparing", !.lead = l]
  <2>1. q \in TaskStates /\ p \in TaskStates
    <3>1. task[t] \in TaskStates
      BY SoundTask
    <3>2. q \in TaskStates
      BY <3>1 DEF TaskStates
    <3> HIDE DEF q
    <3>3. p \in TaskStates
      BY <3>2 DEF TaskStates, Steps
    <3> QED
      BY <3>2, <3>3
  <2>2. Sound(items, sent, staged, q) /\ Sound(items, sent, staged, p)
    <3>1. /\ task[t] \in TaskStates /\ task[t].kind = "loop" /\ task[t].at = "next"
          /\ Sound(items, sent, staged, task[t])
      BY <1>4, SoundTask DEF LoopTakes
    <3>2. ASSUME NEW r, r \in {q, p}
          PROVE  /\ r.kind = task[t].kind /\ r.app = task[t].app /\ r.items = task[t].items
                 /\ r.item = task[t].item /\ r.due = task[t].due /\ r.seen = task[t].seen
                 /\ r.row = task[t].row /\ r.at \in {"next", "preparing"}
                 /\ r.at = "preparing" => r.lead \in Leads
      BY <3>1, <3>2 DEF TaskStates
    <3> HIDE DEF q, p
    <3>3. ASSUME NEW r \in {q, p} PROVE Sound(items, sent, staged, r)
      BY <3>1, <3>2 DEF Sound, InHand, Truthful, Engaged, Edits
    <3> QED
      BY <3>3
  <2>3. Become(t, p) \/ Become(t, q)
    BY <1>4 DEF LoopTakes
  <2> QED
    BY <1>1, <1>2, <1>4, <2>1, <2>2, <2>3 DEF LoopTakes, rows
<1>5. ASSUME NEW i \in Items, NEW op \in Edits, StartEdit(t, op, i) PROVE PipelineInv'
  <2> DEFINE st == Edited(op, items[i].status)
             r  == [Idle EXCEPT !.kind = op, !.at = "saving", !.item = i, !.seen = st]
  <2>1. /\ Used(items, i) /\ items[i].status \in ItemStatus
        /\ items[i].status = "sent" => Claimed(sent, staged, items[i].lead)
    BY <1>5 DEF StartEdit, PipelineInv, TypeOK, ItemRows, RowsHaveLeads, SuccessIsTrue, Used,
                Claimed
  <2>2. /\ st \in ItemStatus /\ st # "unused"
        /\ st = "sent" => Claimed(sent, staged, items[i].lead)
    BY <2>1 DEF Edited, Edits, ItemStatus, Used
  <2> HIDE DEF st
  <2>3. r \in TaskStates
    BY <2>2, IdleTyped DEF TaskStates, Kinds, Steps
  <2>4. Sound(items, sent, staged, r)
    BY <2>1, <2>2 DEF Idle, Fresh, Sound, InHand, Truthful, Engaged, Edits
  <2> QED
    BY <1>1, <1>2, <1>5, <2>3, <2>4 DEF StartEdit, rows, st
<1>6. ASSUME NEW a \in Apps, StartFollowUp(t, a) PROVE PipelineInv'
  <2> DEFINE r == [Idle EXCEPT !.kind = "followUp", !.at = "saving", !.row = a,
                               !.app = apps[a]]
  <2>1. /\ apps[a] \in AppRows /\ apps[a].status # "unused" /\ apps[a].lead \in Leads
        /\ apps[a].status = "submitted" => Reached(sent, apps[a].lead)
    BY <1>6 DEF StartFollowUp, PipelineInv, TypeOK, RowsHaveLeads, SuccessIsTrue, Reached
  <2>2. r \in TaskStates
    BY <2>1, IdleTyped DEF TaskStates, Kinds, Steps
  <2>3. Sound(items, sent, staged, r)
    BY <2>1 DEF Idle, Fresh, Sound, InHand, Truthful, Engaged, Edits
  <2> QED
    BY <1>1, <1>2, <1>6, <2>2, <2>3 DEF StartFollowUp, rows
<1>7. ASSUME StartLoop(t) PROVE PipelineInv'
  <2> DEFINE r == [Idle EXCEPT !.kind = "loop", !.at = "next", !.leads = Leads \ applied]
  <2>1. r \in TaskStates
    BY IdleTyped DEF TaskStates, Kinds, Steps
  <2>2. Sound(items, sent, staged, r)
    BY DEF Idle, Fresh, Sound, InHand, Truthful, Engaged, Edits
  <2> QED
    BY <1>1, <1>7, <2>1, <2>2 DEF StartLoop
<1>8. ASSUME StartSweep(t) PROVE PipelineInv'
  <2> DEFINE approved == {i \in Items : items[i].status = "approved"}
             r == [Idle EXCEPT !.kind = "sweep", !.at = "next", !.items = approved]
  <2>1. r \in TaskStates
    BY IdleTyped DEF TaskStates, Kinds, Steps
  <2>2. \A i \in approved : Used(items, i)
    BY DEF PipelineInv, RowsHaveLeads, Used
  <2> HIDE DEF approved
  <2>3. Sound(items, sent, staged, r)
    BY <2>2 DEF Idle, Fresh, Sound, InHand, Truthful, Engaged, Edits
  <2> QED
    BY <1>1, <1>2, <1>8, <2>1, <2>3 DEF StartSweep, rows, approved
<1>9. ASSUME StartTick(t) PROVE PipelineInv'
  <2> DEFINE r == [Idle EXCEPT !.kind = "tick", !.at = "queue",
                               !.leads = {l \in Leads : Queued(l)}]
  <2>1. r \in TaskStates
    BY IdleTyped DEF TaskStates, Kinds, Steps
  <2>2. Sound(items, sent, staged, r)
    BY DEF Idle, Fresh, Sound, InHand, Truthful, Engaged, Edits
  <2> QED
    BY <1>1, <1>2, <1>9, <2>1, <2>2 DEF StartTick, rows
<1>10. ASSUME LoopEnds(t) PROVE PipelineInv'
  BY <1>1, <1>10, IdleTyped, IdleSound DEF LoopEnds
<1>11. ASSUME ReadMatch(t) PROVE PipelineInv'
  <2> DEFINE st == items[task[t].item].status
             r  == [task[t] EXCEPT !.at = "matched", !.seen = st]
  <2>1. Used(items, task[t].item)
    BY <1>11, SoundTask DEF ReadMatch, Sound, InHand
  <2>2. /\ st \in ItemStatus /\ st # "unused"
        /\ st = "sent" => Claimed(sent, staged, items[task[t].item].lead)
    BY <2>1 DEF PipelineInv, TypeOK, ItemRows, SuccessIsTrue, Used, Claimed
  <2> HIDE DEF st
  <2>3. r \in TaskStates
    <3>1. task[t] \in TaskStates
      BY SoundTask
    <3> QED
      BY <2>2, <3>1 DEF TaskStates, Steps
  <2>4. Sound(items, sent, staged, r)
    BY <1>11, <2>1, <2>2, SoundTask
    DEF ReadMatch, Sound, InHand, Truthful, Engaged, TaskStates
  <2> QED
    BY <1>1, <1>2, <1>11, <2>3, <2>4 DEF ReadMatch, rows, st
<1>12. ASSUME ReadDue(t) PROVE PipelineInv'
  <2>1. PICK due \in SUBSET {a \in Apps : Due(a) /\ apps[a].lead \notin task[t].leads} :
          Become(t, IF due = {} THEN Idle
                    ELSE [Idle EXCEPT !.kind = "tick", !.at = "next",
                                      !.due = {<<a, apps[a]>> : a \in due}])
    BY <1>12 DEF ReadDue
  <2> DEFINE read == {<<a, apps[a]>> : a \in due}
             r    == [Idle EXCEPT !.kind = "tick", !.at = "next", !.due = read]
  <2>2. /\ read \subseteq Apps \X AppRows
        /\ \A e \in read : /\ e[2].status = "failed" /\ e[2].lead \in Leads
                           /\ e[2].retries < MaxRetries
    BY DEF Due, PipelineInv, TypeOK, RowsHaveLeads
  <2> HIDE DEF read
  <2>3. r \in TaskStates
    BY <2>2, IdleTyped DEF TaskStates, Kinds, Steps
  <2>4. Sound(items, sent, staged, r)
    BY <2>2 DEF Idle, Fresh, Sound, InHand, Truthful, Engaged, Edits
  <2>5. Become(t, Idle) \/ Become(t, r)
    BY <2>1 DEF read
  <2> QED
    BY <1>1, <1>2, <1>12, <2>3, <2>4, <2>5, IdleTyped, IdleSound DEF ReadDue, rows
<1> QED
  BY <1>3, <1>4, <1>5, <1>6, <1>7, <1>8, <1>9, <1>10, <1>11, <1>12

LEMMA PreparedSound ==
  ASSUME PipelineInv, NEW t \in Tasks, Prepared(t) PROVE PipelineInv'
<1>1. task[t] \in TaskStates /\ Sound(items, sent, staged, task[t]) /\ task[t].lead \in Leads
  BY SoundTask DEF Prepared, Sound, InHand
<1> DEFINE back == [task[t] EXCEPT !.at = "next", !.lead = NoLead]
           r    == IF task[t].kind = "loop" THEN back ELSE Idle
<1>2. r \in TaskStates
  <2>1. back \in TaskStates
    BY <1>1 DEF TaskStates, Steps
  <2> QED
    BY <2>1, IdleTyped
<1>3. RowsSound /\ Grows
  <2>1. CASE UNCHANGED items
    BY <2>1, SameRows, SameRowsGrow DEF Prepared, history, PipelineInv, TypeOK
  <2>2. ASSUME NEW i \in Free(items),
               items' = [items EXCEPT ![i] = NewItem(task[t].lead)]
        PROVE  RowsSound /\ Grows
    <3>1. i \in Items /\ items[i].status = "unused"
      BY DEF Free, PipelineInv, TypeOK
    <3>2. NewItem(task[t].lead) \in ItemRows
      BY <1>1 DEF NewItem, ItemRows, ItemStatus
    <3>3. /\ items' \in [Items -> ItemRows]
          /\ items'[i].status = "ready" /\ items'[i].lead = task[t].lead
          /\ \A j \in Items \ {i} : items'[j] = items[j]
      BY <2>2, <3>1, <3>2 DEF PipelineInv, TypeOK, NewItem
    <3>4. Grows
      BY <3>1, <3>3 DEF Grows, Used, Prepared, history
    <3>5. RowsSound
      BY <1>1, <3>1, <3>3
      DEF PipelineInv, TypeOK, RowsSound, RowsHaveLeads, SuccessIsTrue, Prepared, history
    <3> QED
      BY <3>4, <3>5
  <2> QED
    BY <2>1, <2>2 DEF Prepared
<1>4. Sound(items', sent', staged', r)
  <2>1. Sound(items, sent, staged, back)
    BY <1>1 DEF Prepared, Sound, InHand, Truthful, Engaged, TaskStates
  <2>2. back \in TaskStates
    BY <1>1 DEF TaskStates, Steps
  <2> HIDE DEF back
  <2> QED
    BY <1>3, <2>1, <2>2, StaysSound, IdleSound
<1>5. TasksSound
  <2> HIDE DEF r
  <2>1. task' = [task EXCEPT ![t] = r]
    BY DEF Prepared, r
  <2>2. shared' \subseteq Leads /\ task' \in [Tasks -> TaskStates]
    BY <1>1, <1>2, <2>1 DEF Prepared, PipelineInv, TypeOK
  <2>3. ASSUME NEW u \in Tasks PROVE Sound(items', sent', staged', task'[u])
    <3>1. CASE u = t
      BY <1>4, <2>1, <3>1 DEF PipelineInv, TypeOK
    <3>2. CASE u # t
      BY <1>3, <2>1, <3>2, SoundTask, StaysSound DEF PipelineInv, TypeOK
    <3> QED
      BY <3>1, <3>2
  <2> QED
    BY <2>2, <2>3 DEF TasksSound
<1>6. CountersTyped
  BY SameCounters DEF Prepared, history
<1> QED
  BY <1>3, <1>5, <1>6, Together

LEMMA SaveEditSound ==
  ASSUME PipelineInv, NEW t \in Tasks, SaveEdit(t) PROVE PipelineInv'
<1>1. /\ task[t] \in TaskStates /\ Used(items, task[t].item)
      /\ task[t].seen \in ItemStatus \ {"unused"}
      /\ task[t].seen = "sent" => Claimed(sent, staged, items[task[t].item].lead)
  BY SoundTask DEF SaveEdit, Sound, InHand, Truthful, TaskStates
<1>2. RowsSound /\ Grows
  BY <1>1, StatusSaved DEF SaveEdit, Used
<1>3. TasksSound
  BY <1>2, IdleTyped, IdleSound, Carried DEF SaveEdit
<1>4. CountersTyped
  <2>1. consent' \subseteq Items
    BY <1>1 DEF SaveEdit, Used, PipelineInv, TypeOK
  <2> QED
    BY <2>1 DEF SaveEdit, CountersTyped, PipelineInv, TypeOK
<1> QED
  BY <1>2, <1>3, <1>4, Together

LEMMA SaveFollowUpSound ==
  ASSUME PipelineInv, NEW t \in Tasks, SaveFollowUp(t) PROVE PipelineInv'
<1>1. /\ task[t] \in TaskStates
      /\ task[t].app \in AppRows /\ task[t].app.lead \in Leads
      /\ task[t].app.status = "submitted" => Reached(sent, task[t].app.lead)
  BY SoundTask DEF SaveFollowUp, Sound, InHand, Truthful, TaskStates
<1>2. RowsSound
  <2>1. CASE task[t].row \in Apps
    BY <1>1, <2>1, Stored DEF SaveFollowUp, history
  <2>2. CASE task[t].row \notin Apps
    <3>1. apps' = apps
      BY <2>2 DEF SaveFollowUp, Store, PipelineInv, TypeOK
    <3> QED
      BY <3>1, SameRows DEF SaveFollowUp, history, PipelineInv, TypeOK
  <2> QED
    BY <2>1, <2>2
<1>3. TasksSound
  BY SameRowsGrow, IdleTyped, IdleSound, Carried DEF SaveFollowUp, history
<1>4. CountersTyped
  BY SameCounters DEF SaveFollowUp, history
<1> QED
  BY <1>2, <1>3, <1>4, Together

LEMMA EngineCallsSound ==
  ASSUME PipelineInv, NEW t \in Tasks,
         \/ \E l \in Leads : StartApply(t, l)
         \/ \E i \in Items : SweepTakes(t, i)
         \/ Retry(t)
  PROVE  PipelineInv'
<1>1. ASSUME TasksSound, UNCHANGED <<rows, history>> PROVE PipelineInv'
  BY <1>1, SameRows, SameCounters, Together DEF rows, history, PipelineInv, TypeOK
<1>2. ASSUME NEW l \in Leads, StartApply(t, l) PROVE PipelineInv'
  <2> DEFINE me == [Idle EXCEPT !.kind = "apply", !.lead = l]
  <2>1. me \in TaskStates
    BY IdleTyped DEF TaskStates, Kinds
  <2>2. Asks(me)
    BY <2>1 DEF Asks, Idle, Fresh, Edits
  <2>3. TasksSound
    <3> HIDE DEF me
    <3>1. Engine(t, me)
      BY <1>2 DEF StartApply, me
    <3> QED
      BY <1>2, <2>2, <3>1, EngineSound DEF StartApply, rows, history
  <2> QED
    BY <1>1, <1>2, <2>3 DEF StartApply
<1>3. ASSUME NEW i \in Items, SweepTakes(t, i) PROVE PipelineInv'
  <2> DEFINE me == [task[t] EXCEPT !.items = @ \ {i}, !.item = i, !.lead = items[i].lead]
             thrown == [Return(me, "failed") EXCEPT !.at = "mark"]
  <2>1. /\ task[t] \in TaskStates /\ Sound(items, sent, staged, task[t])
        /\ task[t].kind = "sweep" /\ task[t].at = "next" /\ i \in task[t].items
        /\ Used(items, i)
    BY <1>3, SoundTask DEF SweepTakes, Sound, InHand
  <2>2. me \in TaskStates
    BY <2>1 DEF TaskStates, Used
  <2>3. /\ me.kind = "sweep" /\ me.item = i /\ me.lead = items[i].lead
        /\ me.items = task[t].items \ {i} /\ me.due = task[t].due /\ me.row = task[t].row
        /\ me.seen = task[t].seen /\ me.app = task[t].app
    BY <2>1 DEF TaskStates
  <2>4. Engine(t, me) \/ Become(t, thrown)
    BY <1>3 DEF SweepTakes
  <2> HIDE DEF me
  <2>5. Asks(me)
    BY <2>1, <2>2, <2>3 DEF Asks, Sound, InHand, Truthful, Used, Edits
  <2>6. CASE Engine(t, me)
    BY <1>1, <1>3, <2>5, <2>6, EngineSound DEF SweepTakes, rows, history
  <2>7. CASE Become(t, thrown)
    <3> DEFINE q == [Idle EXCEPT !.kind = "sweep", !.at = "mark", !.items = me.items,
                                 !.item = i, !.result = "failed"]
    <3>1. thrown = q
      <4>1. Return(me, "failed") = [Idle EXCEPT !.kind = "sweep", !.at = "match",
                                                !.items = me.items, !.item = i,
                                                !.result = "failed"]
        BY <2>3 DEF Return
      <4> QED
        BY <4>1 DEF Idle
    <3>2. me.items \in SUBSET Items /\ i \in Items \cup {0}
      BY <2>2 DEF TaskStates
    <3>3. q \in TaskStates
      BY <3>2, IdleTyped DEF TaskStates, Kinds, Steps, Results
    <3>4. \A j \in me.items : Used(items, j)
      BY <2>5 DEF Asks
    <3>5. /\ q.kind = "sweep" /\ q.at = "mark" /\ q.items = me.items /\ q.item = i
          /\ q.result = "failed" /\ q.seen = "unused" /\ q.due = {}
          /\ q.app.status = "unused"
      BY DEF Idle, Fresh
    <3> HIDE DEF q
    <3>6. Sound(items, sent, staged, q)
      BY <2>1, <3>4, <3>5 DEF Sound, InHand, Truthful, Engaged, Edits
    <3>7. UNCHANGED <<items, sent, staged>>
      BY <1>3 DEF SweepTakes, rows, history
    <3>8. TasksSound
      <4> HIDE DEF thrown
      <4> QED
        BY <2>7, <3>1, <3>3, <3>6, <3>7, Carried, SameRowsGrow
    <3> QED
      BY <1>1, <1>3, <3>8 DEF SweepTakes
  <2> QED
    BY <2>4, <2>6, <2>7
<1>4. ASSUME Retry(t) PROVE PipelineInv'
  <2>1. task[t] \in TaskStates /\ Sound(items, sent, staged, task[t]) /\ task[t].at = "dedupe"
    BY <1>4, SoundTask DEF Retry
  <2>2. Asks(task[t])
    BY <2>1 DEF Asks, Sound, InHand, Truthful, Engaged
  <2> QED
    BY <1>1, <1>4, <2>2, EngineSound DEF Retry, rows, history
<1> QED
  BY <1>2, <1>3, <1>4

\* A fault is counted, and the lead it befell noted.
LEMMA Faulted ==
  ASSUME PipelineInv, NEW l \in Leads, Fault(l)
  PROVE  mishap' \subseteq Leads /\ faults' \in 0..MaxFaults
<1>1. faults \in Nat /\ MaxFaults \in Nat /\ faults < MaxFaults /\ faults' = faults + 1
  BY Numbers DEF Fault, PipelineInv, TypeOK
<1>2. mishap' \subseteq Leads
  BY DEF Fault, PipelineInv, TypeOK
<1> QED
  BY <1>1, <1>2

\* The lead is submitted, and more than it nothing is.
LEMMA GoesOutGrows ==
  ASSUME PipelineInv, NEW l \in Leads, GoesOut(l), UNCHANGED items
  PROVE  /\ Grows /\ Reached(sent', l) /\ sent' \in [Leads -> 0..2]
         /\ staged' \subseteq Leads
         /\ \A k \in Leads : sent[k] > 0 => sent'[k] > 0
<1>1. sent \in [Leads -> 0..2] /\ staged \subseteq Leads
  BY DEF PipelineInv, TypeOK
<1>2. sent' \in [Leads -> 0..2] /\ sent'[l] > 0
      /\ \A k \in Leads : sent[k] > 0 => sent'[k] > 0
  BY <1>1 DEF GoesOut
<1>3. staged' \subseteq Leads /\ \A k \in staged : k \in staged' \/ sent'[k] > 0
  BY <1>1, <1>2 DEF GoesOut
<1> QED
  BY <1>2, <1>3 DEF Grows, Reached, Claimed, Used

\* The submission of the lead is left out, unless it had been made before.
LEMMA LeftOutGrows ==
  ASSUME PipelineInv, NEW l \in Leads, LeftOut(l), UNCHANGED items
  PROVE  Grows /\ Claimed(sent', staged', l) /\ staged' \subseteq Leads /\ sent' = sent
<1>1. sent \in [Leads -> 0..2] /\ staged \subseteq Leads
  BY DEF PipelineInv, TypeOK
<1>2. /\ sent' = sent /\ staged \subseteq staged' /\ staged' \subseteq Leads
      /\ sent[l] = 0 => l \in staged'
  BY <1>1 DEF LeftOut
<1> QED
  BY <1>1, <1>2 DEF Grows, Reached, Claimed, Used

Answer(t, r) == \/ GoesOut(task[t].lead)
                \/ r = "sandboxed" /\ LeftOut(task[t].lead)
                \/ r \notin {"submitted", "sandboxed"} /\ UNCHANGED <<sent, staged>>

\* The answer of the channel, true or not, is what the task goes on with.
LEMMA SendsSound ==
  ASSUME PipelineInv, NEW t \in Tasks, Send(t) \/ SendUnrecorded(t) PROVE PipelineInv'
<1>1. /\ task[t] \in TaskStates /\ Sound(items, sent, staged, task[t]) /\ task[t].at = "send"
      /\ task[t].lead \in Leads
  BY SoundTask DEF Send, SendUnrecorded, Sound, InHand, Engaged
<1>2. \E r \in Results \ {"killed"} :
        /\ Become(t, [task[t] EXCEPT !.at = "save", !.result = r])
        /\ Answer(t, r)
  <2>1. CASE Send(t)
    BY <2>1 DEF Send, Answer
  <2>2. CASE SendUnrecorded(t)
    <3>1. Become(t, [task[t] EXCEPT !.at = "save", !.result = "failed"])
      BY <2>2 DEF SendUnrecorded
    <3>2. Answer(t, "failed") /\ "failed" \in Results \ {"killed"}
      BY <2>2 DEF SendUnrecorded, Results, Answer
    <3> QED
      BY <3>1, <3>2
  <2> QED
    BY <2>1, <2>2
<1> PICK r \in Results \ {"killed"} :
      /\ Become(t, [task[t] EXCEPT !.at = "save", !.result = r])
      /\ Answer(t, r)
  BY <1>2
<1>3. /\ UNCHANGED <<items, apps, applied, running>>
      /\ CountersTyped
  <2>1. mishap' \subseteq Leads /\ faults' \in 0..MaxFaults
    <3>1. CASE Send(t)
      BY <3>1 DEF Send, PipelineInv, TypeOK
    <3>2. CASE SendUnrecorded(t)
      BY <1>1, <3>2, Faulted DEF SendUnrecorded
    <3> QED
      BY <3>1, <3>2
  <2> QED
    BY <2>1 DEF Send, SendUnrecorded, rows, CountersTyped, PipelineInv, TypeOK
<1>4. /\ Grows /\ sent' \in [Leads -> 0..2] /\ staged' \subseteq Leads
      /\ \A k \in Leads : sent[k] > 0 => sent'[k] > 0
      /\ r = "submitted" => Reached(sent', task[t].lead)
      /\ r = "sandboxed" => Claimed(sent', staged', task[t].lead)
  <2>1. CASE GoesOut(task[t].lead)
    BY <1>1, <1>3, <2>1, GoesOutGrows DEF Reached, Claimed
  <2>2. CASE r = "sandboxed" /\ LeftOut(task[t].lead)
    BY <1>1, <1>3, <2>2, LeftOutGrows DEF PipelineInv, TypeOK
  <2>3. CASE r \notin {"submitted", "sandboxed"} /\ UNCHANGED <<sent, staged>>
    BY <1>3, <2>3, SameRowsGrow DEF PipelineInv, TypeOK
  <2> QED
    BY <2>1, <2>2, <2>3 DEF Answer
<1>5. RowsSound
  <2>1. \A i \in Items : items[i].status = "sent" => Claimed(sent', staged', items[i].lead)
    <3>1. \A i \in Items : items[i].status = "sent"
                           => items[i].lead \in Leads /\ Claimed(sent, staged, items[i].lead)
      BY DEF PipelineInv, RowsHaveLeads, SuccessIsTrue, Claimed
    <3> QED
      BY <1>4, <3>1 DEF Grows
  <2> QED
    BY <1>3, <1>4, <2>1 DEF PipelineInv, TypeOK, RowsSound, RowsHaveLeads, SuccessIsTrue,
                            Claimed
<1> DEFINE q == [task[t] EXCEPT !.at = "save", !.result = r]
<1>6. q \in TaskStates
  BY <1>1 DEF TaskStates, Steps
<1>7. /\ q.at = "save" /\ q.result = r /\ q.kind = task[t].kind /\ q.lead = task[t].lead
      /\ q.app = task[t].app /\ q.items = task[t].items /\ q.item = task[t].item
      /\ q.due = task[t].due /\ q.seen = task[t].seen
  BY <1>1 DEF TaskStates
<1>8. Become(t, q)
  OBVIOUS
<1> HIDE DEF q
<1>9. Sound(items', sent', staged', task[t])
  BY <1>1, <1>4, StaysSound
<1>10. Sound(items', sent', staged', q)
  BY <1>1, <1>4, <1>7, <1>9 DEF Sound, InHand, Truthful, Engaged
<1>11. TasksSound
  BY <1>4, <1>6, <1>8, <1>10, Carried
<1> QED
  BY <1>3, <1>5, <1>11, Together

\* The row is written, by the submission or by its catch clause.
LEMMA ResultSaved ==
  ASSUME PipelineInv, NEW t \in Tasks, NEW st \in Results \ {"killed"}, SaveResult(t, st),
         task[t].at \in {"save", "lead"}, st = "submitted" => task[t].result = "submitted",
         st = "sandboxed" => task[t].at = "save" /\ task[t].result = "sandboxed"
  PROVE  TasksSound /\ RowsSound
<1>1. /\ task[t] \in TaskStates /\ Sound(items, sent, staged, task[t])
      /\ task[t].lead \in Leads /\ task[t].app.lead = task[t].lead
  BY SoundTask DEF Sound, InHand, Engaged
<1>2. /\ st = "submitted" => Reached(sent, task[t].lead)
      /\ st = "sandboxed" => Claimed(sent, staged, task[t].lead)
  BY <1>1 DEF Sound, Truthful
<1> DEFINE app == [task[t].app EXCEPT !.status = st, !.final = FALSE]
<1>3. PICK a \in (IF task[t].row = 0 THEN Free(apps) ELSE {task[t].row}) :
        /\ Store(a, app)
        /\ Become(t, IF st = "submitted"
                     THEN [[task[t] EXCEPT !.row = a, !.app = app] EXCEPT !.at = "lead"]
                     ELSE Return([task[t] EXCEPT !.row = a, !.app = app], st))
  BY DEF SaveResult
<1>4. a \in Apps /\ UNCHANGED <<items, applied, running, sent, staged>>
  BY <1>1 DEF Free, SaveResult, PipelineInv, TypeOK, TaskStates
<1>5. /\ app \in AppRows /\ app.status = st /\ app.lead = task[t].lead
  BY <1>1 DEF TaskStates, AppRows, AppStatus, Results
<1>6. RowsSound
  <2> HIDE DEF app
  <2> QED
    BY <1>1, <1>2, <1>3, <1>4, <1>5, Stored
<1> DEFINE me == [task[t] EXCEPT !.row = a, !.app = app]
<1>7. /\ me \in TaskStates /\ me.lead = task[t].lead /\ me.app = app /\ me.kind = task[t].kind
      /\ me.items = task[t].items /\ me.item = task[t].item /\ me.due = task[t].due
      /\ me.seen = task[t].seen /\ me.result = task[t].result /\ me.at = task[t].at
  BY <1>1, <1>4, <1>5 DEF TaskStates
<1> HIDE DEF app
<1>8. TasksSound
  <2>1. CASE st = "submitted"
    <3> DEFINE q == [me EXCEPT !.at = "lead"]
    <3>1. Become(t, q)
      BY <1>3, <2>1
    <3> HIDE DEF me
    <3>2. q \in TaskStates
      BY <1>7 DEF TaskStates, Steps
    <3>3. /\ q.at = "lead" /\ q.lead = me.lead /\ q.app = me.app /\ q.kind = me.kind
          /\ q.items = me.items /\ q.item = me.item /\ q.due = me.due
          /\ q.seen = me.seen /\ q.result = me.result
      BY <1>7 DEF TaskStates
    <3> HIDE DEF q
    <3>4. Sound(items, sent, staged, q)
      BY <1>1, <1>2, <1>5, <1>7, <2>1, <3>3 DEF Sound, InHand, Truthful, Engaged
    <3> QED
      BY <1>4, <3>1, <3>2, <3>4, Carried, SameRowsGrow
  <2>2. CASE st # "submitted"
    <3>1. Become(t, Return(me, st))
      BY <1>3, <2>2
    <3> HIDE DEF me
    <3>2. Return(me, st) \in TaskStates
      BY <1>7, ReturnTyped
    <3>3. Sound(items, sent, staged, Return(me, st))
      <4>1. InHand(items, [me EXCEPT !.at = "send"])
        <5> DEFINE q == [me EXCEPT !.at = "send"]
        <5>1. /\ q.at = "send" /\ q.lead = me.lead /\ q.app = me.app /\ q.kind = me.kind
              /\ q.items = me.items /\ q.item = me.item /\ q.due = me.due
              /\ q.seen = me.seen
          BY <1>7 DEF TaskStates
        <5> HIDE DEF q
        <5>2. InHand(items, q)
          BY <1>1, <1>5, <1>7, <5>1 DEF Sound, InHand, Engaged, Results
        <5> QED
          BY <5>2 DEF q
      <4>2. me.seen # "sent"
        BY <1>1, <1>7 DEF Sound, InHand, Engaged
      <4> QED
        BY <1>1, <1>2, <1>5, <1>7, <2>2, <4>1, <4>2, ReturnSound
    <3> QED
      BY <1>4, <3>1, <3>2, <3>3, Carried, SameRowsGrow
  <2> QED
    BY <2>1, <2>2
<1> QED
  BY <1>6, <1>8

LEMMA RecordsSound ==
  ASSUME PipelineInv, NEW t \in Tasks, SaveApp(t) \/ SaveAppFails(t) \/ SetLeadFails(t)
  PROVE  PipelineInv'
<1>1. /\ task[t] \in TaskStates /\ Sound(items, sent, staged, task[t])
      /\ task[t].at \in {"save", "lead"} /\ task[t].lead \in Leads
  BY SoundTask DEF SaveApp, SaveAppFails, SetLeadFails, Sound, InHand, Engaged
<1>2. CASE SaveApp(t)
  <2>1. task[t].result \in Results \ {"killed"}
    BY <1>1, <1>2 DEF SaveApp, Sound, InHand, TaskStates
  <2>2. TasksSound /\ RowsSound
    BY <1>2, <2>1, ResultSaved DEF SaveApp
  <2>3. CountersTyped
    BY <1>1, <1>2 DEF SaveApp, SaveResult, CountersTyped, PipelineInv, TypeOK
  <2> QED
    BY <2>2, <2>3, Together
<1>3. CASE SaveAppFails(t) \/ SetLeadFails(t)
  <2>1. SaveResult(t, "failed") /\ Fault(task[t].lead) /\ "failed" \in Results \ {"killed"}
    BY <1>3 DEF SaveAppFails, SetLeadFails, Results
  <2>2. TasksSound /\ RowsSound
    BY <1>1, <2>1, ResultSaved
  <2>3. CountersTyped
    BY <1>1, <2>1, Faulted DEF SaveResult, CountersTyped, PipelineInv, TypeOK
  <2> QED
    BY <2>2, <2>3, Together
<1> QED
  BY <1>2, <1>3

LEMMA SetLeadAppliedSound ==
  ASSUME PipelineInv, NEW t \in Tasks, SetLeadApplied(t) PROVE PipelineInv'
<1>1. /\ task[t] \in TaskStates /\ Sound(items, sent, staged, task[t]) /\ task[t].at = "lead"
      /\ Reached(sent, task[t].lead) /\ task[t].app.lead = task[t].lead
      /\ "submitted" \in Results
  BY SoundTask DEF SetLeadApplied, Sound, InHand, Truthful, Engaged, Results
<1>2. RowsSound
  BY <1>1 DEF SetLeadApplied, history, RowsSound, RowsHaveLeads, SuccessIsTrue, Reached,
              PipelineInv, TypeOK
<1> DEFINE q == [task[t] EXCEPT !.at = "send"]
<1>3. /\ q.at = "send" /\ q.lead = task[t].lead /\ q.app = task[t].app
      /\ q.kind = task[t].kind /\ q.items = task[t].items /\ q.item = task[t].item
      /\ q.due = task[t].due /\ q.seen = task[t].seen
  BY <1>1 DEF TaskStates
<1>4. InHand(items, q)
  <2> HIDE DEF q
  <2> QED
    BY <1>1, <1>3 DEF Sound, InHand, Truthful, Engaged
<1>5. Sound(items, sent, staged, Return(task[t], "submitted"))
  <2>1. /\ task[t].seen # "sent" /\ task[t].lead \in Leads
        /\ task[t].app.status = "submitted" => Reached(sent, task[t].app.lead)
    BY <1>1 DEF Sound, InHand, Truthful, Engaged
  <2> QED
    BY <1>1, <1>4, <2>1, ReturnSound
<1>6. TasksSound
  BY <1>1, <1>5, ReturnTyped, Carried, SameRowsGrow DEF SetLeadApplied, history
<1> QED
  BY <1>2, <1>6, SameCounters, Together DEF SetLeadApplied, history

\* The sweep writes the item of the submission that has ended.
LEMMA SweepWritesSound ==
  ASSUME PipelineInv, NEW t \in Tasks, SaveMatch(t) \/ MatchFails(t) \/ Mark(t)
  PROVE  PipelineInv'
<1>1. /\ task[t] \in TaskStates /\ Sound(items, sent, staged, task[t])
      /\ task[t].at \in {"match", "matched", "mark"}
      /\ Used(items, task[t].item)
      /\ task[t].result \in {"submitted", "sandboxed"}
           => Claimed(sent, staged, items[task[t].item].lead)
      /\ \A i \in task[t].items : Used(items, i)
  BY SoundTask DEF SaveMatch, MatchFails, Mark, Sound, InHand, Truthful
<1>2. CASE SaveMatch(t)
  <2>1. /\ task[t].seen \in ItemStatus \ {"unused"}
        /\ task[t].seen = "sent" => Claimed(sent, staged, items[task[t].item].lead)
        /\ items' = [items EXCEPT ![task[t].item].status = task[t].seen]
    BY <1>1, <1>2 DEF SaveMatch, Sound, InHand, Truthful, TaskStates
  <2>2. RowsSound /\ Grows
    BY <1>1, <1>2, <2>1, StatusSaved DEF SaveMatch, Used, history
  <2> DEFINE q == [task[t] EXCEPT !.at = "mark", !.seen = "unused"]
  <2>3. q \in TaskStates
    BY <1>1 DEF TaskStates, Steps, ItemStatus
  <2>4. /\ q.at = "mark" /\ q.seen = "unused" /\ q.kind = task[t].kind
        /\ q.app = task[t].app /\ q.items = task[t].items /\ q.item = task[t].item
        /\ q.due = task[t].due /\ q.result = task[t].result
    BY <1>1 DEF TaskStates
  <2>5. Become(t, q)
    BY <1>2 DEF SaveMatch
  <2>6. task[t].kind \notin Edits
    BY <1>1, <1>2 DEF SaveMatch, Sound, InHand, Edits
  <2> HIDE DEF q
  <2>7. Sound(items, sent, staged, q)
    BY <1>1, <2>4, <2>6 DEF Sound, InHand, Truthful, Engaged
  <2>8. TasksSound
    BY <2>2, <2>3, <2>5, <2>7, StaysSound, Carried
  <2> QED
    BY <1>2, <2>2, <2>8, SameCounters, Together DEF SaveMatch, history
<1>3. CASE MatchFails(t)
  <2> DEFINE q == [task[t] EXCEPT !.at = "mark", !.result = "failed"]
  <2>1. q \in TaskStates
    BY <1>1 DEF TaskStates, Steps, Results
  <2>2. /\ q.at = "mark" /\ q.seen = task[t].seen /\ q.kind = task[t].kind
        /\ q.app = task[t].app /\ q.items = task[t].items /\ q.item = task[t].item
        /\ q.due = task[t].due /\ q.result = "failed"
    BY <1>1 DEF TaskStates
  <2>3. Become(t, q)
    BY <1>3 DEF MatchFails
  <2> HIDE DEF q
  <2>4. Sound(items, sent, staged, q)
    BY <1>1, <2>2 DEF Sound, InHand, Truthful, Engaged
  <2>5. UNCHANGED <<items, apps, applied, running, sent, staged>>
    BY <1>3 DEF MatchFails, rows
  <2>6. TasksSound
    BY <2>1, <2>3, <2>4, <2>5, Carried, SameRowsGrow
  <2>7. CountersTyped
    BY <1>1, <1>3, Faulted DEF MatchFails, Used, CountersTyped, PipelineInv, TypeOK
  <2>8. RowsSound
    BY <2>5, SameRows DEF PipelineInv, TypeOK
  <2> QED
    BY <2>6, <2>7, <2>8, Together
<1>4. CASE Mark(t)
  <2> DEFINE st == IF task[t].result \in {"submitted", "sandboxed"} THEN "sent" ELSE "failed"
             q  == [Idle EXCEPT !.kind = "sweep", !.at = "next", !.items = task[t].items]
  <2>1. /\ st \in ItemStatus \ {"unused"}
        /\ st = "sent" => Claimed(sent, staged, items[task[t].item].lead)
        /\ items' = [items EXCEPT ![task[t].item].status = st]
    BY <1>1, <1>4 DEF Mark, ItemStatus
  <2>2. RowsSound /\ Grows
    <3> HIDE DEF st
    <3> QED
      BY <1>1, <1>4, <2>1, StatusSaved DEF Mark, Used, history
  <2>3. q \in TaskStates
    BY <1>1, IdleTyped DEF TaskStates, Kinds, Steps
  <2>4. Sound(items, sent, staged, q)
    BY <1>1 DEF Idle, Fresh, Sound, InHand, Truthful, Engaged, Edits
  <2>5. Become(t, Idle) \/ Become(t, q)
    BY <1>4 DEF Mark
  <2> HIDE DEF q
  <2>6. TasksSound
    BY <2>2, <2>3, <2>4, <2>5, IdleTyped, IdleSound, StaysSound, Carried
  <2> QED
    BY <1>4, <2>2, <2>6, SameCounters, Together DEF Mark, history
<1> QED
  BY <1>2, <1>3, <1>4

LEMMA CountRetrySound ==
  ASSUME PipelineInv, NEW t \in Tasks, NEW a, NEW read, CountRetry(t, a, read)
  PROVE  PipelineInv'
<1>1. /\ task[t] \in TaskStates /\ Sound(items, sent, staged, task[t])
      /\ task[t].kind = "tick" /\ task[t].at = "next" /\ <<a, read>> \in task[t].due
  BY SoundTask DEF CountRetry
<1>2. /\ a \in Apps /\ read \in AppRows
      /\ read.status = "failed" /\ read.lead \in Leads /\ read.retries < MaxRetries
  <2>1. <<a, read>> \in Apps \X AppRows
    BY <1>1 DEF TaskStates
  <2> QED
    BY <1>1, <2>1 DEF Sound, InHand
<1> DEFINE app == [read EXCEPT !.retries = @ + 1]
           q   == [task[t] EXCEPT !.at = "dedupe", !.due = @ \ {<<a, read>>},
                                  !.lead = app.lead, !.row = a, !.app = app]
<1>3. app \in AppRows /\ app.status = "failed" /\ app.lead = read.lead
  BY <1>2, Numbers DEF AppRows
<1>4. Store(a, app) /\ Become(t, q)
  BY DEF CountRetry
<1> HIDE DEF app
<1>5. RowsSound
  BY <1>2, <1>3, <1>4, Stored DEF CountRetry
<1>6. q \in TaskStates
  BY <1>1, <1>2, <1>3 DEF TaskStates, Steps
<1>7. /\ q.at = "dedupe" /\ q.kind = "tick" /\ q.lead = app.lead /\ q.app = app
      /\ q.items = task[t].items /\ q.item = task[t].item /\ q.seen = task[t].seen
      /\ q.due = task[t].due \ {<<a, read>>}
  BY <1>1 DEF TaskStates
<1> HIDE DEF q
<1>8. Sound(items, sent, staged, q)
  BY <1>1, <1>2, <1>3, <1>7 DEF Sound, InHand, Truthful, Engaged, Edits
<1>9. TasksSound
  BY <1>4, <1>6, <1>8, Carried, SameRowsGrow DEF CountRetry
<1>10. CountersTyped
  <2>1. attempts' \in [Apps -> 0..(MaxRetries + 1)]
    BY <1>2, Numbers DEF CountRetry, PipelineInv, TypeOK
  <2> QED
    BY <2>1 DEF CountRetry, CountersTyped, PipelineInv, TypeOK
<1> QED
  BY <1>5, <1>9, <1>10, Together

LEMMA SaveRetrySound ==
  ASSUME PipelineInv, NEW t \in Tasks, SaveRetry(t) PROVE PipelineInv'
<1>1. /\ task[t] \in TaskStates /\ Sound(items, sent, staged, task[t]) /\ task[t].at = "write"
      /\ task[t].lead \in Leads /\ task[t].app.lead = task[t].lead
      /\ task[t].result = "submitted" => Reached(sent, task[t].lead)
  BY SoundTask DEF SaveRetry, Sound, InHand, Truthful, Engaged
<1> DEFINE st  == IF task[t].result = "killed" THEN "failed" ELSE task[t].result
           app == [task[t].app EXCEPT !.status = st, !.final = task[t].result = "killed"]
           q   == [Idle EXCEPT !.kind = "tick", !.at = "next", !.due = task[t].due]
<1>2. task[t].result \in Results
  BY <1>1 DEF Sound, InHand
<1>3. /\ app \in AppRows /\ app.lead = task[t].lead
      /\ app.status = "submitted" => Reached(sent, app.lead)
  BY <1>1, <1>2 DEF TaskStates, AppRows, AppStatus, Results
<1>4. Store(task[t].row, app) /\ (Become(t, Idle) \/ Become(t, q))
  BY DEF SaveRetry
<1> HIDE DEF st, app
<1>5. RowsSound
  <2>1. CASE task[t].row \in Apps
    BY <1>1, <1>3, <1>4, <2>1, Stored DEF SaveRetry, history
  <2>2. CASE task[t].row \notin Apps
    <3>1. apps' = apps
      BY <1>4, <2>2 DEF Store, PipelineInv, TypeOK
    <3> QED
      BY <3>1, SameRows DEF SaveRetry, history, PipelineInv, TypeOK
  <2> QED
    BY <2>1, <2>2
<1>6. q \in TaskStates
  BY <1>1, IdleTyped DEF TaskStates, Kinds, Steps
<1>7. \A e \in task[t].due : /\ e[2].status = "failed" /\ e[2].lead \in Leads
                             /\ e[2].retries < MaxRetries
  BY <1>1 DEF Sound, InHand
<1>8. Sound(items, sent, staged, q)
  BY <1>7 DEF Idle, Fresh, Sound, InHand, Truthful, Engaged, Edits
<1> HIDE DEF q
<1>9. TasksSound
  BY <1>4, <1>6, <1>8, IdleTyped, IdleSound, Carried, SameRowsGrow DEF SaveRetry, history
<1> QED
  BY <1>5, <1>9, SameCounters, Together DEF SaveRetry, history

\* Nobody's task is at stake.
LEMMA OtherStepsSound ==
  ASSUME PipelineInv, Crash \/ \E a \in Apps : MarkSuccess(a)
  PROVE  PipelineInv'
<1>1. ASSUME Crash PROVE PipelineInv'
  <2>1. TasksSound
    BY <1>1, IdleTyped, IdleSound DEF Crash, TasksSound, PipelineInv, TypeOK
  <2>2. RowsSound
    BY <1>1, SameRows DEF Crash
  <2>3. CountersTyped
    <3>1. \A t \in Tasks : {task[t].lead} \ {NoLead} \subseteq Leads
      BY DEF PipelineInv, TypeOK, TaskStates
    <3>2. mishap' \subseteq Leads
      BY <1>1, <3>1 DEF Crash, PipelineInv, TypeOK
    <3>3. faults' \in 0..MaxFaults
      BY <1>1, Numbers DEF Crash, PipelineInv, TypeOK
    <3> QED
      BY <1>1, <3>2, <3>3 DEF Crash, CountersTyped, PipelineInv, TypeOK
  <2> QED
    BY <2>1, <2>2, <2>3, Together
<1>2. ASSUME NEW a \in Apps, MarkSuccess(a) PROVE PipelineInv'
  <2> DEFINE app == [apps[a] EXCEPT !.status = "applied"]
  <2>1. /\ apps[a].lead \in Leads /\ app \in AppRows /\ app.status = "applied"
        /\ app.lead = apps[a].lead
    BY <1>2 DEF MarkSuccess, PipelineInv, TypeOK, RowsHaveLeads, AppRows, AppStatus
  <2>2. RowsSound
    <3> HIDE DEF app
    <3>1. Store(a, app)
      BY <1>2 DEF MarkSuccess, app
    <3> QED
      BY <1>2, <2>1, <3>1, Stored DEF MarkSuccess
  <2>3. TasksSound
    BY <1>2, SoundTask, StaysSound, SameRowsGrow
    DEF MarkSuccess, TasksSound, PipelineInv, TypeOK
  <2>4. CountersTyped
    BY <1>2, <2>1 DEF MarkSuccess, CountersTyped, PipelineInv, TypeOK
  <2> QED
    BY <2>2, <2>3, <2>4, Together
<1> QED
  BY <1>1, <1>2

LEMMA PipelineInvStep == PipelineInv /\ [Next]_vars => PipelineInv'
<1> SUFFICES ASSUME PipelineInv, [Next]_vars PROVE PipelineInv'
  OBVIOUS
<1>1. CASE UNCHANGED vars
  BY <1>1 DEF vars, rows, history, PipelineInv, TypeOK, RowsHaveLeads, SuccessIsTrue
<1>2. ASSUME NEW t \in Tasks, Proceed(t) PROVE PipelineInv'
  <2>1. ASSUME NEW e \in task[t].due, CountRetry(t, e[1], e[2]) PROVE PipelineInv'
    BY <2>1, CountRetrySound
  <2> QED
    BY <1>2, <2>1, StartsSound, PreparedSound, SaveEditSound, SaveFollowUpSound,
       EngineCallsSound, SendsSound, RecordsSound, SetLeadAppliedSound, SweepWritesSound,
       SaveRetrySound
    DEF Proceed
<1>3. ASSUME NEW t \in Tasks,
             \/ \E l \in Leads : StartPrepare(t, l) \/ StartApply(t, l)
             \/ \E i \in Items, op \in Edits : StartEdit(t, op, i)
             \/ \E a \in Apps : StartFollowUp(t, a)
             \/ StartLoop(t) \/ StartSweep(t) \/ StartTick(t)
      PROVE  PipelineInv'
  BY <1>3, StartsSound, EngineCallsSound
<1>4. ASSUME NEW t \in Tasks,
             SendUnrecorded(t) \/ SaveAppFails(t) \/ SetLeadFails(t) \/ MatchFails(t)
      PROVE  PipelineInv'
  BY <1>4, SendsSound, RecordsSound, SweepWritesSound
<1> QED
  BY <1>1, <1>2, <1>3, <1>4, OtherStepsSound DEF Next

LEMMA PipelineInvInit == Init => PipelineInv
<1> SUFFICES ASSUME Init PROVE PipelineInv
  OBVIOUS
<1>1. TypeOK
  <2>1. [lead |-> NoLead, status |-> "unused"] \in ItemRows
    BY DEF ItemRows, ItemStatus
  <2>2. Fresh(NoLead) \in AppRows
    BY IdleTyped
  <2>3. items \in [Items -> ItemRows] /\ apps \in [Apps -> AppRows]
    BY <2>1, <2>2 DEF Init
  <2>4. task \in [Tasks -> TaskStates]
    BY IdleTyped DEF Init
  <2>5. /\ sent \in [Leads -> 0..2] /\ attempts \in [Apps -> 0..(MaxRetries + 1)]
        /\ faults \in 0..MaxFaults
    BY Numbers DEF Init
  <2> QED
    BY <2>3, <2>4, <2>5 DEF Init, TypeOK
<1>2. RowsHaveLeads /\ SuccessIsTrue
  BY DEF Init, RowsHaveLeads, SuccessIsTrue, Fresh
<1>3. \A t \in Tasks : Sound(items, sent, staged, task[t])
  BY IdleSound DEF Init
<1> QED
  BY <1>1, <1>2, <1>3 DEF PipelineInv

(***************************************************************************)
(* The variables keep their kinds, for any number of tasks, items, rows and  *)
(* faults: a row is never retried past the last step of the backoff table.   *)
(***************************************************************************)
THEOREM PipelineWellTyped == Spec => []TypeOK
<1>1. PipelineInv => TypeOK
  BY DEF PipelineInv
<1> QED
  BY PipelineInvInit, PipelineInvStep, <1>1, PTL DEF Spec

(***************************************************************************)
(* No success is claimed that did not happen, whatever overlaps and whatever *)
(* fails: a row submitted and a lead applied were submitted, and an item sent *)
(* was submitted or left out for the sandbox.  PipelineInv adds what the     *)
(* tasks know: a copy that says submitted tells the truth, a result sandboxed *)
(* comes from a submission left out, and the item of a sweep is of the lead   *)
(* the engine was asked to submit.                                           *)
(***************************************************************************)
THEOREM NoFalseSuccess == Spec => []SuccessIsTrue
<1>1. PipelineInv => SuccessIsTrue
  BY DEF PipelineInv
<1> QED
  BY PipelineInvInit, PipelineInvStep, <1>1, PTL DEF Spec

-----------------------------------------------------------------------------
(* A lead in one pair of hands: what its copies are worth, and its counts.     *)

Clean(l) == l \notin shared \cup mishap

\* No lead that was never shared is in two hands.
Exclusive ==
  \A t, u \in Tasks : t # u => LeadsOf(task[t]) \cap LeadsOf(task[u]) \subseteq shared

\* A copy of a row: it is of the same lead, it counts every retry unless the lead was
\* shared, and it is the row unless something else happened to the lead.
Backs(a, app) ==
  /\ apps[a].status # "unused" /\ apps[a].lead = app.lead
  /\ app.lead \notin shared => attempts[a] <= app.retries
  /\ Clean(app.lead) => apps[a] = app

KeepsCopies(r) ==
  /\ r.row # 0 => Backs(r.row, r.app)
  /\ \A e \in r.due : Backs(e[1], e[2]) /\ e[1] # r.row
  /\ \A e, f \in r.due : e[1] = f[1] => e = f
  /\ r.kind = "followUp" => r.at = "saving"
  /\ r.due # {} => r.kind = "tick"

\* Whoever is past the engine's deduplication, and has no success yet, has a lead that
\* never went out.
Unsent(r) ==
  /\ Clean(r.lead)
  /\ \/ r.at \in {"dedupe", "send"}
     \/ r.at \in {"save", "write"} /\ r.result # "submitted"
  => sent[r.lead] = 0

RowsCounted ==
  \A a \in Apps :
    /\ apps[a].status = "unused" => apps[a].lead = NoLead /\ attempts[a] = 0
    /\ apps[a].lead \notin shared => attempts[a] <= apps[a].retries

OneRow ==
  \A a, b \in Apps :
    /\ apps[a].lead = apps[b].lead
    /\ apps[a].lead \in Leads /\ Clean(apps[a].lead)
    => a = b

\* What went out is on record, or about to be.
Told ==
  \A l \in Leads : Clean(l) /\ sent[l] > 0 =>
    \/ \E a \in Apps : apps[a].lead = l /\ apps[a].status = "submitted"
    \/ \E t \in Tasks : /\ task[t].lead = l
                        /\ task[t].at = "save" /\ task[t].result = "submitted"

HandInv ==
  /\ Exclusive /\ RowsCounted /\ OneRow /\ Told /\ NeverReapply
  /\ \A t \in Tasks : KeepsCopies(task[t]) /\ Unsent(task[t])

LEMMA HandBounds == PipelineInv /\ HandInv => RetriesBounded /\ NeverReapply
<1> SUFFICES ASSUME PipelineInv, HandInv, NEW a \in Apps, apps[a].lead \notin shared
             PROVE  attempts[a] <= MaxRetries
  BY DEF HandInv, RetriesBounded
<1>1. attempts[a] <= apps[a].retries
  BY DEF HandInv, RowsCounted
<1>2. apps[a].retries \in 0..MaxRetries /\ attempts[a] \in 0..(MaxRetries + 1)
  BY DEF PipelineInv, TypeOK, AppRows
<1> QED
  BY <1>1, <1>2, Numbers

\* The leads of a task that are leads.
LEMMA InItsHands ==
  ASSUME NEW r
  PROVE  /\ r.lead # NoLead => r.lead \in LeadsOf(r)
         /\ r.app.lead # NoLead => r.app.lead \in LeadsOf(r)
         /\ \A e \in r.due : e[2].lead # NoLead => e[2].lead \in LeadsOf(r)
BY DEF LeadsOf

\* Only the task itself changes, and it names the leads it shares.
Turn(t) ==
  /\ \A u \in Tasks \ {t} : task'[u] = task[u]
  /\ shared \subseteq shared' /\ mishap \subseteq mishap'
  /\ Exclusive'

LEMMA BecomeTurns ==
  ASSUME PipelineInv, HandInv, NEW t \in Tasks, NEW r, Become(t, r), mishap \subseteq mishap'
  PROVE  Turn(t) /\ task'[t] = r
<1>1. /\ \A u \in Tasks \ {t} : task'[u] = task[u]
      /\ task'[t] = r
      /\ shared' = shared \cup SharedBy(t, r)
  BY DEF Become, PipelineInv, TypeOK
<1>2. ASSUME NEW u \in Tasks, NEW v \in Tasks, u # v, NEW l, 
             l \in LeadsOf(task[u])', l \in LeadsOf(task[v])'
      PROVE  l \in shared'
  <2>1. CASE u = t
    BY <1>1, <1>2, <2>1 DEF SharedBy, LeadsOf
  <2>2. CASE v = t
    BY <1>1, <1>2, <2>2 DEF SharedBy, LeadsOf
  <2>3. CASE u # t /\ v # t
    BY <1>1, <1>2, <2>3 DEF HandInv, Exclusive, LeadsOf
  <2> QED
    BY <2>1, <2>2, <2>3
<1> QED
  BY <1>1, <1>2 DEF Turn, Exclusive

\* The rows, counts and submissions of leads that task t does not have stay the same, and
\* no row changes its lead.
Confined(t) ==
  /\ \A b \in Apps : apps[b].status # "unused" =>
       /\ apps'[b].status # "unused" /\ apps'[b].lead = apps[b].lead
       /\ apps[b].lead \notin LeadsOf(task[t]) =>
            apps'[b] = apps[b] /\ attempts'[b] = attempts[b]
  /\ \A l \in Leads : l \notin LeadsOf(task[t]) => sent'[l] = sent[l]

LEMMA NothingChanged ==
  ASSUME UNCHANGED <<apps, attempts, sent>>, NEW t PROVE Confined(t)
BY DEF Confined

\* Then the copies of the other tasks are worth what they were.
LEMMA CopyKept ==
  ASSUME PipelineInv, HandInv, NEW t \in Tasks, Turn(t), Confined(t),
         NEW u \in Tasks \ {t}, NEW b \in Apps, NEW x, Backs(b, x),
         x.lead # NoLead => x.lead \in LeadsOf(task[u])
  PROVE  Backs(b, x)'
<1>1. apps[b].status # "unused" /\ apps[b].lead = x.lead /\ x.lead \in Leads
  BY DEF Backs, PipelineInv, RowsHaveLeads
<1>2. x.lead \in LeadsOf(task[u])
  BY <1>1, Numbers
<1>3. x.lead \notin shared => x.lead \notin LeadsOf(task[t])
  BY <1>2 DEF HandInv, Exclusive
<1>4. /\ apps'[b].status # "unused" /\ apps'[b].lead = x.lead
      /\ x.lead \notin shared' => apps'[b] = apps[b] /\ attempts'[b] = attempts[b]
  BY <1>1, <1>3 DEF Confined, Turn
<1> QED
  BY <1>4 DEF Backs, Clean, Turn

LEMMA OthersKept ==
  ASSUME PipelineInv, HandInv, NEW t \in Tasks, Turn(t), Confined(t),
         NEW u \in Tasks \ {t}
  PROVE  KeepsCopies(task[u])' /\ Unsent(task[u])'
<1>1. /\ task'[u] = task[u] /\ task[u] \in TaskStates
      /\ KeepsCopies(task[u]) /\ Unsent(task[u])
  BY DEF Turn, PipelineInv, TypeOK, HandInv
<1>2. task[u].row # 0 => Backs(task[u].row, task[u].app)'
  <2> SUFFICES ASSUME task[u].row # 0 PROVE Backs(task[u].row, task[u].app)'
    OBVIOUS
  <2> PICK b \in Apps, x \in AppRows : b = task[u].row /\ x = task[u].app
    BY <1>1 DEF TaskStates
  <2>1. Backs(b, x) /\ (x.lead # NoLead => x.lead \in LeadsOf(task[u]))
    BY <1>1, InItsHands DEF KeepsCopies
  <2>2. Backs(b, x)'
    BY <2>1, CopyKept
  <2> QED
    BY <1>1, <2>2 DEF Backs, Clean
<1>3. ASSUME NEW e \in task[u].due PROVE Backs(e[1], e[2])'
  <2>1. e[1] \in Apps /\ e \in Apps \X AppRows
    BY <1>1 DEF TaskStates
  <2>2. Backs(e[1], e[2]) /\ (e[2].lead # NoLead => e[2].lead \in LeadsOf(task[u]))
    BY <1>1, InItsHands DEF KeepsCopies
  <2> QED
    BY <2>1, <2>2, CopyKept
<1>4. KeepsCopies(task[u])'
  BY <1>1, <1>2, <1>3 DEF KeepsCopies
<1>5. Unsent(task[u])'
  <2> SUFFICES ASSUME Clean(task[u].lead)',
                      \/ task[u].at \in {"dedupe", "send"}
                      \/ task[u].at \in {"save", "write"} /\ task[u].result # "submitted"
               PROVE  sent'[task[u].lead] = 0
    BY <1>1 DEF Unsent, Clean
  <2>1. Clean(task[u].lead) /\ task[u].lead \notin shared
    BY <1>1 DEF Clean, Turn
  <2>2. task[u].lead \in Leads
    BY SoundTask DEF Sound, InHand, Engaged
  <2>3. task[u].lead \in LeadsOf(task[u])
    BY <2>2, InItsHands, Numbers
  <2>4. task[u].lead \notin LeadsOf(task[t])
    BY <2>1, <2>3 DEF HandInv, Exclusive
  <2> QED
    BY <1>1, <2>1, <2>2, <2>4 DEF Confined, Unsent
<1> QED
  BY <1>4, <1>5

\* Together: a step of task t that keeps its own copies, the counts and the record.
LEMMA HandTogether ==
  ASSUME PipelineInv, HandInv, NEW t \in Tasks, Turn(t), Confined(t),
         KeepsCopies(task[t])', Unsent(task[t])',
         RowsCounted', OneRow', Told', NeverReapply'
  PROVE  HandInv'
<1>1. \A u \in Tasks : KeepsCopies(task[u])' /\ Unsent(task[u])'
  BY OthersKept
<1> QED
  BY <1>1 DEF HandInv, Turn

\* A step that writes no application row and submits nothing.
LEMMA QuietStep ==
  ASSUME PipelineInv, HandInv, NEW t \in Tasks, Turn(t),
         UNCHANGED <<apps, attempts, sent>>,
         task[t].at # "save", KeepsCopies(task[t])', Unsent(task[t])'
  PROVE  HandInv'
<1>1. RowsCounted'
  BY DEF HandInv, RowsCounted, Turn
<1>2. OneRow'
  BY DEF HandInv, OneRow, Clean, Turn
<1>3. Told'
  BY DEF HandInv, Told, Clean, Turn
<1>4. NeverReapply'
  BY DEF HandInv, NeverReapply, Turn
<1> QED
  BY <1>1, <1>2, <1>3, <1>4, NothingChanged, HandTogether

\* A task without a copy, before or after the engine, owes nothing.
LEMMA EmptyHanded ==
  ASSUME NEW t \in Tasks, task'[t].row = 0, task'[t].due = {},
         task'[t].kind # "followUp", task'[t].at \notin {"dedupe", "send", "save", "write"}
  PROVE  KeepsCopies(task[t])' /\ Unsent(task[t])'
BY DEF KeepsCopies, Unsent

\* A task that keeps its copies while no row is written.
LEMMA CopiesCarried ==
  ASSUME PipelineInv, HandInv, NEW t \in Tasks, Turn(t), UNCHANGED <<apps, attempts>>,
         task'[t].row = task[t].row, task'[t].app = task[t].app, task'[t].due = task[t].due,
         task'[t].kind = task[t].kind, task[t].at # "saving"
  PROVE  KeepsCopies(task[t])'
<1>1. KeepsCopies(task[t])
  BY DEF HandInv
<1>2. ASSUME NEW b, NEW x, Backs(b, x) PROVE Backs(b, x)'
  BY <1>2 DEF Backs, Clean, Turn
<1> QED
  BY <1>1, <1>2 DEF KeepsCopies, Backs, Clean, Turn

LEMMA NotSaving ==
  ASSUME PipelineInv, HandInv, NEW t \in Tasks,
         task[t] = Idle \/ task[t].kind \in Edits \cup {"followUp"}
  PROVE  task[t].at # "save"
<1>1. CASE task[t] = Idle
  BY <1>1, IdleTyped
<1>2. CASE task[t].kind \in Edits
  BY <1>2, SoundTask DEF Sound, InHand, Engaged
<1>3. CASE task[t].kind = "followUp"
  BY <1>3 DEF HandInv, KeepsCopies
<1> QED
  BY <1>1, <1>2, <1>3

LEMMA StartsKeepHands ==
  ASSUME PipelineInv, HandInv, NEW t \in Tasks,
         \/ \E l \in Leads : StartPrepare(t, l) \/ LoopTakes(t, l)
         \/ \E i \in Items, op \in Edits : StartEdit(t, op, i)
         \/ \E a \in Apps : StartFollowUp(t, a)
         \/ StartLoop(t) \/ StartSweep(t) \/ StartTick(t) \/ LoopEnds(t)
         \/ ReadMatch(t) \/ ReadDue(t)
  PROVE  HandInv'
<1>1. UNCHANGED <<apps, attempts, sent, mishap>>
  BY DEF StartPrepare, LoopTakes, StartEdit, StartFollowUp, StartLoop, StartSweep, StartTick,
         LoopEnds, ReadMatch, ReadDue, rows, history
<1>2. task[t].at # "save"
  BY NotSaving DEF StartPrepare, LoopTakes, StartEdit, StartFollowUp, StartLoop, StartSweep,
                   StartTick, LoopEnds, ReadMatch, ReadDue
<1>3. ASSUME NEW r, Become(t, r), r.row = 0, r.due = {},
             r.kind # "followUp", r.at \notin {"dedupe", "send", "save", "write"}
      PROVE  HandInv'
  <2>1. Turn(t) /\ task'[t] = r
    BY <1>1, <1>3, BecomeTurns
  <2> QED
    BY <1>1, <1>2, <1>3, <2>1, EmptyHanded, QuietStep
<1>4. ASSUME NEW r, Become(t, r), r.row = task[t].row, r.due = task[t].due,
             r.app = task[t].app, r.kind = task[t].kind, task[t].at # "saving",
             r.at \notin {"dedupe", "send", "save", "write"}
      PROVE  HandInv'
  <2>1. Turn(t) /\ task'[t] = r
    BY <1>1, <1>4, BecomeTurns
  <2>2. KeepsCopies(task[t])'
    BY <1>1, <1>4, <2>1, CopiesCarried
  <2>3. Unsent(task[t])'
    BY <1>4, <2>1 DEF Unsent
  <2> QED
    BY <1>1, <1>2, <2>1, <2>2, <2>3, QuietStep
<1>5. ASSUME \/ \E l \in Leads : StartPrepare(t, l)
             \/ \E i \in Items, op \in Edits : StartEdit(t, op, i)
             \/ StartLoop(t) \/ StartSweep(t) \/ StartTick(t) \/ LoopEnds(t)
      PROVE  HandInv'
  <2>1. ASSUME NEW l \in Leads, StartPrepare(t, l) PROVE HandInv'
    <3> DEFINE r == [Idle EXCEPT !.kind = "prepare", !.at = "preparing", !.lead = l]
    <3>1. Become(t, r) /\ r.row = 0 /\ r.due = {} /\ r.at = "preparing" /\ r.kind = "prepare"
      BY <2>1 DEF StartPrepare, Idle
    <3> QED
      BY <1>3, <3>1
  <2>2. ASSUME NEW i \in Items, NEW op \in Edits, StartEdit(t, op, i) PROVE HandInv'
    <3> DEFINE r == [Idle EXCEPT !.kind = op, !.at = "saving", !.item = i,
                                 !.seen = Edited(op, items[i].status)]
    <3>1. Become(t, r) /\ r.row = 0 /\ r.due = {} /\ r.at = "saving" /\ r.kind # "followUp"
      BY <2>2 DEF StartEdit, Idle, Edits
    <3> QED
      BY <1>3, <3>1
  <2>3. ASSUME StartLoop(t) PROVE HandInv'
    <3> DEFINE r == [Idle EXCEPT !.kind = "loop", !.at = "next", !.leads = Leads \ applied]
    <3>1. Become(t, r) /\ r.row = 0 /\ r.due = {} /\ r.at = "next" /\ r.kind = "loop"
      BY <2>3 DEF StartLoop, Idle
    <3> QED
      BY <1>3, <3>1
  <2>4. ASSUME StartSweep(t) PROVE HandInv'
    <3> DEFINE approved == {i \in Items : items[i].status = "approved"}
               r == [Idle EXCEPT !.kind = "sweep", !.at = "next", !.items = approved]
    <3>1. Become(t, r) /\ r.row = 0 /\ r.due = {} /\ r.at = "next" /\ r.kind = "sweep"
      BY <2>4 DEF StartSweep, Idle
    <3> QED
      BY <1>3, <3>1
  <2>5. ASSUME StartTick(t) PROVE HandInv'
    <3> DEFINE r == [Idle EXCEPT !.kind = "tick", !.at = "queue",
                                 !.leads = {l \in Leads : Queued(l)}]
    <3>1. Become(t, r) /\ r.row = 0 /\ r.due = {} /\ r.at = "queue" /\ r.kind = "tick"
      BY <2>5 DEF StartTick, Idle
    <3> QED
      BY <1>3, <3>1
  <2>6. ASSUME LoopEnds(t) PROVE HandInv'
    BY <1>3, <2>6 DEF LoopEnds, Idle
  <2> QED
    BY <1>5, <2>1, <2>2, <2>3, <2>4, <2>5, <2>6
<1>6. ASSUME (\E l \in Leads : LoopTakes(t, l)) \/ ReadMatch(t) PROVE HandInv'
  <2>1. ASSUME NEW l \in Leads, LoopTakes(t, l) PROVE HandInv'
    <3> DEFINE q == [task[t] EXCEPT !.leads = @ \ {l}]
               p == [q EXCEPT !.at = "preparing", !.lead = l]
    <3>1. Become(t, q) \/ Become(t, p)
      BY <2>1 DEF LoopTakes
    <3>2. /\ q.row = task[t].row /\ q.due = task[t].due /\ q.app = task[t].app
          /\ q.kind = task[t].kind /\ q.at = "next" /\ task[t].at = "next"
          /\ p.row = task[t].row /\ p.due = task[t].due /\ p.app = task[t].app
          /\ p.kind = task[t].kind /\ p.at = "preparing"
      BY <2>1, SoundTask DEF LoopTakes, TaskStates
    <3> QED
      BY <1>4, <3>1, <3>2
  <2>2. ASSUME ReadMatch(t) PROVE HandInv'
    <3> DEFINE q == [task[t] EXCEPT !.at = "matched", !.seen = items[task[t].item].status]
    <3>1. /\ Become(t, q) /\ q.row = task[t].row /\ q.due = task[t].due /\ q.app = task[t].app
          /\ q.kind = task[t].kind /\ q.at = "matched" /\ task[t].at = "match"
      BY <2>2, SoundTask DEF ReadMatch, TaskStates
    <3> QED
      BY <1>4, <3>1
  <2> QED
    BY <1>6, <2>1, <2>2
<1>7. ASSUME NEW a \in Apps, StartFollowUp(t, a) PROVE HandInv'
  <2> DEFINE q == [Idle EXCEPT !.kind = "followUp", !.at = "saving", !.row = a,
                               !.app = apps[a]]
  <2> PICK r : r = q
    OBVIOUS
  <2>1. /\ Become(t, r) /\ r.row = a /\ r.due = {} /\ r.app = apps[a]
        /\ r.at = "saving" /\ r.kind = "followUp"
    BY <1>7 DEF StartFollowUp, Idle
  <2>2. Turn(t) /\ task'[t] = r
    BY <1>1, <2>1, BecomeTurns
  <2>3. KeepsCopies(task[t])'
    <3>1. UNCHANGED <<apps, attempts>> /\ apps[a].status # "unused"
      BY <1>7 DEF StartFollowUp, rows, history
    <3>2. RowsCounted
      BY DEF HandInv
    <3> QED
      BY <2>1, <2>2, <3>1, <3>2 DEF KeepsCopies, Backs, RowsCounted, Turn
  <2>4. Unsent(task[t])'
    BY <2>1, <2>2 DEF Unsent
  <2> QED
    BY <1>1, <1>2, <2>2, <2>3, <2>4, QuietStep
<1>8. ASSUME ReadDue(t) PROVE HandInv'
  <2>1. PICK due \in SUBSET {a \in Apps : Due(a) /\ apps[a].lead \notin task[t].leads} :
          Become(t, IF due = {} THEN Idle
                    ELSE [Idle EXCEPT !.kind = "tick", !.at = "next",
                                      !.due = {<<a, apps[a]>> : a \in due}])
    BY <1>8 DEF ReadDue
  <2>2. CASE due = {}
    BY <1>3, <2>1, <2>2 DEF Idle
  <2>3. CASE due # {}
    <3> DEFINE q == [Idle EXCEPT !.kind = "tick", !.at = "next",
                                 !.due = {<<a, apps[a]>> : a \in due}]
    <3> PICK r : r = q
      OBVIOUS
    <3>1. /\ Become(t, r) /\ r.row = 0 /\ r.at = "next" /\ r.kind = "tick"
          /\ r.due = {<<a, apps[a]>> : a \in due}
      BY <2>1, <2>3 DEF Idle
    <3>2. Turn(t) /\ task'[t] = r
      BY <1>1, <3>1, BecomeTurns
    <3>3. \A e \in r.due : e[1] \in due /\ e[2] = apps[e[1]]
      BY <3>1
    <3>4. \A a \in due : a \in Apps /\ a # 0 /\ apps[a].status # "unused"
      BY Numbers DEF Due
    <3>5. KeepsCopies(task[t])'
      <4>1. ASSUME NEW e \in r.due PROVE Backs(e[1], e[2])' /\ e[1] # 0
        BY <1>1, <3>2, <3>3, <3>4 DEF Backs, HandInv, RowsCounted, Turn
      <4>2. ASSUME NEW e \in r.due, NEW f \in r.due, e[1] = f[1] PROVE e = f
        BY <3>1, <4>2
      <4> QED
        BY <3>1, <3>2, <4>1, <4>2 DEF KeepsCopies
    <3>6. Unsent(task[t])'
      BY <3>1, <3>2 DEF Unsent
    <3> QED
      BY <1>1, <1>2, <3>2, <3>5, <3>6, QuietStep
  <2> QED
    BY <2>2, <2>3
<1> QED
  BY <1>5, <1>6, <1>7, <1>8

\* A quiet step after which the task has nothing in hand, or what it had.
LEMMA QuietlyEmpty ==
  ASSUME PipelineInv, HandInv, NEW t \in Tasks, NEW r, Become(t, r), mishap \subseteq mishap',
         UNCHANGED <<apps, attempts, sent>>, task[t].at # "save",
         r.row = 0, r.due = {}, r.kind # "followUp",
         r.at \notin {"dedupe", "send", "save", "write"}
  PROVE  HandInv'
BY BecomeTurns, EmptyHanded, QuietStep

LEMMA QuietlyCarried ==
  ASSUME PipelineInv, HandInv, NEW t \in Tasks, NEW r, Become(t, r), mishap \subseteq mishap',
         UNCHANGED <<apps, attempts, sent>>, task[t].at \notin {"save", "saving"},
         r.row = task[t].row, r.due = task[t].due, r.app = task[t].app,
         r.kind = task[t].kind, r.at \notin {"dedupe", "send", "save", "write"}
  PROVE  HandInv'
<1>1. Turn(t) /\ task'[t] = r
  BY BecomeTurns
<1>2. KeepsCopies(task[t])'
  BY <1>1, CopiesCarried
<1>3. Unsent(task[t])'
  BY <1>1 DEF Unsent
<1> QED
  BY <1>1, <1>2, <1>3, QuietStep

\* The end of a preparation is a step without Become: the task only lets go of a lead.
LEMMA PreparedKeepsHands ==
  ASSUME PipelineInv, HandInv, NEW t \in Tasks, Prepared(t) PROVE HandInv'
<1>1. UNCHANGED <<apps, attempts, sent, mishap>> /\ task[t].at = "preparing"
      /\ shared \subseteq shared'
  BY DEF Prepared, history
<1> DEFINE q == IF task[t].kind = "loop"
                THEN [task[t] EXCEPT !.at = "next", !.lead = NoLead] ELSE Idle
<1>2. /\ \A u \in Tasks \ {t} : task'[u] = task[u]
      /\ task'[t] = q
  BY DEF Prepared, PipelineInv, TypeOK
<1>3. /\ task[t].row = 0 /\ task[t] \in TaskStates /\ KeepsCopies(task[t])
  BY <1>1, SoundTask DEF Sound, InHand, HandInv
<1>4. \/ q = Idle
      \/ /\ q.lead = NoLead /\ q.app = task[t].app /\ q.due = task[t].due /\ q.row = 0
         /\ q.at = "next" /\ q.kind = "loop" /\ task[t].kind = "loop"
  BY <1>3 DEF TaskStates
<1> HIDE DEF q
<1>5. LeadsOf(q) \subseteq LeadsOf(task[t])
  BY <1>4 DEF LeadsOf, Idle, Fresh
<1>6. Turn(t)
  <2>1. ASSUME NEW u \in Tasks, NEW v \in Tasks, u # v, NEW l,
               l \in LeadsOf(task[u])', l \in LeadsOf(task[v])'
        PROVE  l \in shared'
    <3>1. \A w \in Tasks : \A m : m \in LeadsOf(task[w])' => m \in LeadsOf(task[w])
      BY <1>2, <1>5 DEF LeadsOf
    <3> QED
      BY <2>1, <3>1, <1>1 DEF HandInv, Exclusive
  <2> QED
    BY <1>1, <1>2, <2>1 DEF Turn, Exclusive
<1>7. KeepsCopies(task[t])' /\ Unsent(task[t])'
  <2>1. CASE q = Idle
    BY <1>2, <2>1, EmptyHanded DEF Idle
  <2>2. CASE q # Idle
    BY <1>1, <1>2, <1>3, <1>4, <1>6, <2>2, CopiesCarried DEF Unsent
  <2> QED
    BY <2>1, <2>2
<1> QED
  BY <1>1, <1>6, <1>7, QuietStep

LEMMA WorkKeepsHands ==
  ASSUME PipelineInv, HandInv, NEW t \in Tasks,
         SaveEdit(t) \/ SaveMatch(t) \/ Mark(t) \/ MatchFails(t)
  PROVE  HandInv'
<1>1. UNCHANGED <<apps, attempts, sent>> /\ mishap \subseteq mishap'
  BY DEF SaveEdit, SaveMatch, Mark, MatchFails, Fault, rows, history
<1>2. ASSUME SaveEdit(t) PROVE HandInv'
  <2>1. task[t].at # "save" /\ Become(t, Idle)
    BY <1>2, NotSaving DEF SaveEdit
  <2> QED
    BY <1>1, <2>1, QuietlyEmpty DEF Idle
<1>3. ASSUME SaveMatch(t) PROVE HandInv'
  <2> DEFINE q == [task[t] EXCEPT !.at = "mark", !.seen = "unused"]
  <2>1. /\ Become(t, q) /\ task[t].at = "matched"
        /\ q.row = task[t].row /\ q.due = task[t].due /\ q.app = task[t].app
        /\ q.kind = task[t].kind /\ q.at = "mark"
    BY <1>3, SoundTask DEF SaveMatch, TaskStates
  <2> QED
    BY <1>1, <2>1, QuietlyCarried
<1>4. ASSUME MatchFails(t) PROVE HandInv'
  <2> DEFINE q == [task[t] EXCEPT !.at = "mark", !.result = "failed"]
  <2>1. /\ Become(t, q) /\ task[t].at = "match"
        /\ q.row = task[t].row /\ q.due = task[t].due /\ q.app = task[t].app
        /\ q.kind = task[t].kind /\ q.at = "mark"
    BY <1>4, SoundTask DEF MatchFails, TaskStates
  <2> QED
    BY <1>1, <2>1, QuietlyCarried
<1>5. ASSUME Mark(t) PROVE HandInv'
  <2> DEFINE q == [Idle EXCEPT !.kind = "sweep", !.at = "next", !.items = task[t].items]
  <2>1. (Become(t, Idle) \/ Become(t, q)) /\ task[t].at = "mark"
    BY <1>5 DEF Mark
  <2>2. /\ q.row = 0 /\ q.due = {} /\ q.kind = "sweep" /\ q.at = "next"
        /\ Idle.row = 0 /\ Idle.due = {} /\ Idle.kind = "none" /\ Idle.at = "idle"
    BY DEF Idle
  <2> HIDE DEF q
  <2> QED
    BY <1>1, <2>1, <2>2, QuietlyEmpty
<1> QED
  BY <1>2, <1>3, <1>4, <1>5

\* What a task becomes when the engine has answered: a retry keeps its copies, the others
\* forget them.
LEMMA ReturnHands ==
  ASSUME NEW me \in TaskStates, NEW res
  PROVE  \/ /\ me.kind \in {"apply", "sweep"}
            /\ Return(me, res).row = 0 /\ Return(me, res).due = {}
            /\ Return(me, res).kind \in {"none", "sweep"}
            /\ Return(me, res).at \in {"idle", "match"}
         \/ /\ me.kind \notin {"apply", "sweep"}
            /\ Return(me, res).row = me.row /\ Return(me, res).due = me.due
            /\ Return(me, res).app = me.app /\ Return(me, res).lead = me.lead
            /\ Return(me, res).kind = me.kind
            /\ Return(me, res).at = "write" /\ Return(me, res).result = res
<1>1. CASE me.kind = "apply"
  BY <1>1 DEF Return, Idle
<1>2. CASE me.kind = "sweep"
  BY <1>2 DEF Return, Idle
<1>3. CASE me.kind \notin {"apply", "sweep"}
  BY <1>3 DEF Return, TaskStates
<1> QED
  BY <1>1, <1>2, <1>3

LEMMA SetLeadKeepsHands ==
  ASSUME PipelineInv, HandInv, NEW t \in Tasks, SetLeadApplied(t) PROVE HandInv'
<1>1. /\ UNCHANGED <<apps, attempts, sent, mishap>> /\ task[t].at = "lead"
      /\ Become(t, Return(task[t], "submitted")) /\ task[t] \in TaskStates
  BY SoundTask DEF SetLeadApplied, history
<1>2. Turn(t) /\ task'[t] = Return(task[t], "submitted")
  BY <1>1, BecomeTurns
<1>3. KeepsCopies(task[t])' /\ Unsent(task[t])'
  <2>1. CASE task[t].kind \in {"apply", "sweep"}
    BY <1>1, <1>2, <2>1, ReturnHands, EmptyHanded
  <2>2. CASE task[t].kind \notin {"apply", "sweep"}
    BY <1>1, <1>2, <2>2, ReturnHands, CopiesCarried DEF Unsent
  <2> QED
    BY <2>1, <2>2
<1> QED
  BY <1>1, <1>2, <1>3, QuietStep

-----------------------------------------------------------------------------
(* The engine: what passes its deduplication never went out.                   *)

\* With one row, one pair of hands and no success on record, nothing was sent.
LEMMA NotTold ==
  ASSUME PipelineInv, HandInv, NEW t \in Tasks, Turn(t), task[t].at # "save",
         NEW l \in Leads, l \in LeadsOf(task[t]) \/ l \in LeadsOf(task[t])', Clean(l)',
         \A a \in Apps : apps[a].lead = l => apps[a].status # "submitted"
  PROVE  sent[l] = 0
<1>1. Clean(l)
  BY DEF Clean, Turn
<1>2. ASSUME NEW u \in Tasks, task[u].lead = l, task[u].at = "save" PROVE FALSE
  <2>1. u # t /\ l \in LeadsOf(task[u])
    BY <1>2, InItsHands, Numbers
  <2>2. task'[u] = task[u]
    BY <2>1 DEF Turn
  <2>3. l \in LeadsOf(task[u])'
    BY <2>1, <2>2 DEF LeadsOf
  <2> QED
    BY <1>1, <2>1, <2>3 DEF HandInv, Exclusive, Turn, Clean
<1>3. ~(sent[l] > 0)
  BY <1>1, <1>2 DEF HandInv, Told
<1> QED
  BY <1>3 DEF PipelineInv, TypeOK

\* What a caller brings besides: its copies, and the word that a retried lead is unsent.
HandsIn(t, me) ==
  /\ KeepsCopies(me)
  /\ task[t].at # "save" /\ me.kind # "followUp"
  /\ me.kind \notin {"apply", "sweep"} /\ Clean(me.lead) => sent[me.lead] = 0

\* Copies are worth the same after a step that writes no row.
LEMMA CopiesStay ==
  ASSUME NEW t, Turn(t), UNCHANGED <<apps, attempts>>, NEW b, NEW x, Backs(b, x)
  PROVE  Backs(b, x)'
BY DEF Turn, Backs, Clean

LEMMA EngineKeepsHands ==
  ASSUME PipelineInv, HandInv, NEW t \in Tasks, NEW me, Asks(me), HandsIn(t, me),
         Engine(t, me), UNCHANGED <<apps, attempts, sent, mishap>>
  PROVE  HandInv'
<1>1. me \in TaskStates /\ me.lead \in Leads /\ task[t].at # "save"
  BY DEF Asks, HandsIn
<1>2. ASSUME NEW res, res # "submitted", Become(t, Return(me, res))
      PROVE  HandInv'
  <2>1. Turn(t) /\ task'[t] = Return(me, res)
    BY <1>2, BecomeTurns
  <2>2. CASE me.kind \in {"apply", "sweep"}
    BY <1>1, <2>1, <2>2, ReturnHands, EmptyHanded, QuietStep
  <2>3. CASE me.kind \notin {"apply", "sweep"}
    <3> PICK r : r = Return(me, res)
      OBVIOUS
    <3>1. /\ task'[t] = r /\ r.row = me.row /\ r.due = me.due /\ r.app = me.app
          /\ r.lead = me.lead /\ r.kind = me.kind /\ r.at = "write"
      BY <1>1, <2>1, <2>3, ReturnHands
    <3>2. KeepsCopies(r)
      BY <3>1 DEF HandsIn, KeepsCopies
    <3>3. KeepsCopies(task[t])'
      BY <2>1, <3>1, <3>2, CopiesStay DEF KeepsCopies, HandsIn
    <3>4. Unsent(task[t])'
      BY <2>1, <2>3, <3>1 DEF Unsent, HandsIn, Clean, Turn
    <3> QED
      BY <1>1, <2>1, <3>3, <3>4, QuietStep
  <2> QED
    BY <2>2, <2>3
<1>3. ASSUME ~\E a \in Newest(apps, me.lead) : Blocks(me.kind, apps[a].status),
             NEW r, Become(t, r), r.lead = me.lead, r.at = "send", r.due = me.due,
             r.kind = me.kind, KeepsCopies(r)
      PROVE  HandInv'
  <2>1. Turn(t) /\ task'[t] = r
    BY <1>3, BecomeTurns
  <2>2. KeepsCopies(task[t])'
    BY <1>3, <2>1, CopiesStay DEF KeepsCopies, HandsIn
  <2>3. ASSUME Clean(me.lead)' PROVE sent[me.lead] = 0
    <3>1. Clean(me.lead)
      BY <2>1, <2>3 DEF Clean, Turn
    <3>2. ASSUME NEW a \in Apps, apps[a].lead = me.lead, apps[a].status = "submitted"
          PROVE  FALSE
      <4>1. \A b \in Apps : apps[b].lead = me.lead => b = a
        BY <1>1, <3>1, <3>2 DEF HandInv, OneRow
      <4>2. DOMAIN apps = Apps /\ a <= a
        BY DEF PipelineInv, TypeOK, Apps
      <4>3. a \in Newest(apps, me.lead)
        BY <3>2, <4>1, <4>2 DEF Newest
      <4>4. Blocks(me.kind, "submitted")
        BY DEF Blocks
      <4> QED
        BY <1>3, <3>2, <4>3, <4>4
    <3>3. me.lead \in LeadsOf(task[t])'
      BY <1>1, <1>3, <2>1, Numbers DEF LeadsOf
    <3> QED
      BY <1>1, <2>1, <2>3, <3>2, <3>3, NotTold
  <2>4. Unsent(task[t])'
    BY <1>3, <2>1, <2>3 DEF Unsent, Clean
  <2> QED
    BY <1>1, <2>1, <2>2, <2>4, QuietStep
<1>4. ASSUME ~\E a \in Newest(apps, me.lead) : Blocks(me.kind, apps[a].status),
             Become(t, [me EXCEPT !.at = "send"])
      PROVE  HandInv'
  <2> PICK r : r = [me EXCEPT !.at = "send"]
    OBVIOUS
  <2>1. /\ r.lead = me.lead /\ r.at = "send" /\ r.due = me.due /\ r.kind = me.kind
        /\ r.row = me.row /\ r.app = me.app
    BY <1>1 DEF TaskStates
  <2>2. KeepsCopies(r)
    BY <2>1 DEF KeepsCopies, HandsIn
  <2> QED
    BY <1>3, <1>4, <2>1, <2>2
<1>5. ASSUME ~\E b \in Newest(apps, me.lead) : Blocks(me.kind, apps[b].status),
             NEW a \in Newest(apps, me.lead), Reusable(me.kind, apps[a].status),
             Become(t, [me EXCEPT !.at = "send", !.row = a, !.app = apps[a]])
      PROVE  HandInv'
  <2>0. me.due = {}
    BY <1>5 DEF Reusable, HandsIn, KeepsCopies
  <2> PICK r : r = [me EXCEPT !.at = "send", !.row = a, !.app = apps[a]]
    OBVIOUS
  <2>1. /\ r.lead = me.lead /\ r.at = "send" /\ r.due = me.due /\ r.kind = me.kind
        /\ r.row = a /\ r.app = apps[a]
    BY <1>1 DEF TaskStates
  <2>2. a \in Apps /\ apps[a].status # "unused"
    BY <1>5 DEF Newest, Reusable, PipelineInv, TypeOK
  <2>3. KeepsCopies(r)
    BY <1>5, <2>0, <2>1, <2>2 DEF KeepsCopies, HandsIn, Backs, HandInv, RowsCounted
  <2> QED
    BY <1>3, <1>5, <2>1, <2>3
<1>6. ASSUME ~\E b \in Newest(apps, me.lead) : Blocks(me.kind, apps[b].status), me.row = 0,
             Become(t, [me EXCEPT !.at = "send", !.app = Fresh(me.lead)])
      PROVE  HandInv'
  <2> PICK r : r = [me EXCEPT !.at = "send", !.app = Fresh(me.lead)]
    OBVIOUS
  <2>1. /\ r.lead = me.lead /\ r.at = "send" /\ r.due = me.due /\ r.kind = me.kind
        /\ r.row = 0
    BY <1>1, <1>6 DEF TaskStates
  <2>2. KeepsCopies(r)
    BY <1>6, <2>1 DEF KeepsCopies, HandsIn
  <2> QED
    BY <1>3, <1>6, <2>1, <2>2
<1> QED
  BY <1>2, <1>4, <1>5, <1>6 DEF Engine

LEMMA EngineCallsKeepHands ==
  ASSUME PipelineInv, HandInv, NEW t \in Tasks,
         \/ \E l \in Leads : StartApply(t, l)
         \/ \E i \in Items : SweepTakes(t, i)
         \/ Retry(t)
  PROVE  HandInv'
<1>1. UNCHANGED <<apps, attempts, sent, mishap>>
  BY DEF StartApply, SweepTakes, Retry, rows, history
<1>2. ASSUME NEW l \in Leads, StartApply(t, l) PROVE HandInv'
  <2> DEFINE me == [Idle EXCEPT !.kind = "apply", !.lead = l]
  <2>1. me \in TaskStates /\ me.kind = "apply" /\ me.row = 0 /\ me.due = {}
    BY IdleTyped DEF TaskStates, Kinds, Idle
  <2>2. Asks(me)
    BY <2>1 DEF Asks, Idle, Fresh, Edits
  <2>3. task[t].at # "save"
    BY <1>2, NotSaving DEF StartApply
  <2>4. Engine(t, me)
    BY <1>2 DEF StartApply
  <2> HIDE DEF me
  <2>5. HandsIn(t, me)
    BY <2>1, <2>3 DEF HandsIn, KeepsCopies
  <2> QED
    BY <1>1, <2>2, <2>4, <2>5, EngineKeepsHands
<1>3. ASSUME NEW i \in Items, SweepTakes(t, i) PROVE HandInv'
  <2> DEFINE me == [task[t] EXCEPT !.items = @ \ {i}, !.item = i, !.lead = items[i].lead]
             thrown == [Return(me, "failed") EXCEPT !.at = "mark"]
  <2>1. /\ task[t] \in TaskStates /\ Sound(items, sent, staged, task[t])
        /\ task[t].kind = "sweep" /\ task[t].at = "next" /\ i \in task[t].items
        /\ Used(items, i)
    BY <1>3, SoundTask DEF SweepTakes, Sound, InHand
  <2>2. me \in TaskStates
    BY <2>1 DEF TaskStates, Used
  <2>3. /\ me.kind = "sweep" /\ me.item = i /\ me.lead = items[i].lead
        /\ me.items = task[t].items \ {i} /\ me.due = task[t].due /\ me.row = task[t].row
        /\ me.seen = task[t].seen /\ me.app = task[t].app
    BY <2>1 DEF TaskStates
  <2>4. Engine(t, me) \/ Become(t, thrown)
    BY <1>3 DEF SweepTakes
  <2> HIDE DEF me
  <2>5. Asks(me)
    BY <2>1, <2>2, <2>3 DEF Asks, Sound, InHand, Truthful, Used, Edits
  <2>6. HandsIn(t, me)
    BY <2>1, <2>3 DEF HandsIn, HandInv, KeepsCopies
  <2>7. /\ thrown.row = 0 /\ thrown.due = {} /\ thrown.kind = "sweep" /\ thrown.at = "mark"
    BY <2>3 DEF Return, Idle
  <2> HIDE DEF thrown
  <2> QED
    BY <1>1, <2>1, <2>4, <2>5, <2>6, <2>7, EngineKeepsHands, QuietlyEmpty
<1>4. ASSUME Retry(t) PROVE HandInv'
  <2>1. task[t] \in TaskStates /\ Sound(items, sent, staged, task[t]) /\ task[t].at = "dedupe"
        /\ Engine(t, task[t])
    BY <1>4, SoundTask DEF Retry
  <2>2. Asks(task[t])
    BY <2>1 DEF Asks, Sound, InHand, Truthful, Engaged
  <2>3. HandsIn(t, task[t])
    BY <2>1 DEF HandsIn, HandInv, Unsent, KeepsCopies
  <2> QED
    BY <1>1, <2>1, <2>2, <2>3, EngineKeepsHands
<1> QED
  BY <1>2, <1>3, <1>4

\* What went out once was unsent before; what is reported as sent is about to be recorded.
LEMMA SendsKeepHands ==
  ASSUME PipelineInv, HandInv, NEW t \in Tasks, Send(t) \/ SendUnrecorded(t)
  PROVE  HandInv'
<1>1. /\ UNCHANGED <<apps, attempts>> /\ task[t].at = "send" /\ task[t] \in TaskStates
      /\ task[t].lead \in Leads /\ mishap \subseteq mishap'
      /\ task[t].lead \in LeadsOf(task[t])
  <2>1. /\ UNCHANGED <<apps, attempts>> /\ task[t].at = "send" /\ mishap \subseteq mishap'
    BY DEF Send, SendUnrecorded, Fault, rows
  <2>2. task[t] \in TaskStates /\ task[t].lead \in Leads
    BY <2>1, SoundTask DEF Sound, InHand, Engaged
  <2> QED
    BY <2>1, <2>2, InItsHands, Numbers
<1>2. PICK res \in Results \ {"killed"} :
        /\ Become(t, [task[t] EXCEPT !.at = "save", !.result = res])
        /\ \/ res = "submitted" /\ GoesOut(task[t].lead)
           \/ res # "submitted" /\ UNCHANGED sent
           \/ GoesOut(task[t].lead) /\ task[t].lead \in mishap'
  <2>1. CASE Send(t)
    BY <2>1 DEF Send, LeftOut
  <2>2. CASE SendUnrecorded(t)
    <3>1. Become(t, [task[t] EXCEPT !.at = "save", !.result = "failed"])
      BY <2>2 DEF SendUnrecorded
    <3>2. GoesOut(task[t].lead) /\ task[t].lead \in mishap'
      BY <2>2 DEF SendUnrecorded, Fault
    <3> QED
      BY <3>1, <3>2 DEF Results
  <2> QED
    BY <2>1, <2>2
<1> DEFINE q == [task[t] EXCEPT !.at = "save", !.result = res]
<1>3. /\ q.row = task[t].row /\ q.due = task[t].due /\ q.app = task[t].app
      /\ q.kind = task[t].kind /\ q.lead = task[t].lead /\ q.at = "save" /\ q.result = res
  BY <1>1 DEF TaskStates
<1>4. Turn(t) /\ task'[t] = q
  BY <1>1, <1>2, BecomeTurns
<1> HIDE DEF q
<1>5. /\ \A l \in Leads \ {task[t].lead} : sent'[l] = sent[l]
      /\ sent'[task[t].lead] \in {sent[task[t].lead], sent[task[t].lead] + 1}
      /\ res # "submitted" /\ task[t].lead \notin mishap' => sent' = sent
  BY <1>1, <1>2 DEF GoesOut, PipelineInv, TypeOK
<1>6. task[t].lead \notin shared' \cup mishap' => sent[task[t].lead] = 0
  BY <1>1, <1>4 DEF HandInv, Unsent, Clean, Turn
<1>7. Confined(t)
  BY <1>1, <1>5 DEF Confined
<1>8. KeepsCopies(task[t])'
  BY <1>1, <1>3, <1>4, CopiesCarried
<1>9. Unsent(task[t])'
  BY <1>3, <1>4, <1>5, <1>6 DEF Unsent, Clean
<1>10. RowsCounted' /\ OneRow'
  BY <1>1, <1>4 DEF HandInv, RowsCounted, OneRow, Clean, Turn
<1>11. Told'
  <2> SUFFICES ASSUME NEW l \in Leads, Clean(l)', sent'[l] > 0
               PROVE  \/ \E a \in Apps : apps'[a].lead = l /\ apps'[a].status = "submitted"
                      \/ \E u \in Tasks : /\ task'[u].lead = l /\ task'[u].at = "save"
                                          /\ task'[u].result = "submitted"
    BY DEF Told, Clean
  <2>1. CASE l = task[t].lead
    <3>1. res = "submitted"
      <4>1. l \notin mishap' /\ sent[l] = 0
        BY <1>6, <2>1 DEF Clean
      <4> QED
        BY <1>5, <2>1, <4>1
    <3> QED
      BY <1>3, <1>4, <2>1, <3>1
  <2>2. CASE l # task[t].lead
    <3>1. Clean(l) /\ sent[l] > 0
      BY <1>4, <1>5, <2>2 DEF Clean, Turn
    <3> QED
      BY <1>1, <1>4, <2>2, <3>1 DEF HandInv, Told, Turn
  <2> QED
    BY <2>1, <2>2
<1>12. NeverReapply'
  <2> SUFFICES ASSUME NEW l \in Leads, Clean(l)' PROVE sent'[l] <= 1
    BY DEF NeverReapply, Clean
  <2>1. CASE l = task[t].lead
    <3>1. sent[l] = 0
      BY <1>6, <2>1 DEF Clean
    <3> QED
      BY <1>5, <2>1, <3>1
  <2>2. CASE l # task[t].lead
    BY <1>4, <1>5, <2>2 DEF HandInv, NeverReapply, Clean, Turn
  <2> QED
    BY <2>1, <2>2
<1> QED
  BY <1>4, <1>7, <1>8, <1>9, <1>10, <1>11, <1>12, HandTogether

-----------------------------------------------------------------------------
(* The steps that write a row.                                                *)

\* The rows after row a of a lead that task t has was written, and what they still count.
Wrote(t, a, app) ==
  /\ a \in Apps /\ app \in AppRows /\ Store(a, app) /\ app.status # "unused"
  /\ app.lead \in Leads /\ app.lead \in LeadsOf(task[t])
  /\ apps[a].status = "unused" \/ apps[a].lead = app.lead
  /\ \A b \in Apps \ {a} : attempts'[b] = attempts[b]
  /\ app.lead \notin shared => attempts'[a] <= app.retries
  /\ apps[a].status = "unused" /\ app.lead \notin shared' \cup mishap' =>
       \A b \in Apps : apps[b].lead # app.lead
  /\ UNCHANGED sent

LEMMA RowsAfter ==
  ASSUME PipelineInv, HandInv, NEW t \in Tasks, Turn(t), NEW a, NEW app, Wrote(t, a, app)
  PROVE  /\ Confined(t) /\ RowsCounted' /\ OneRow' /\ NeverReapply'
         /\ apps'[a] = app /\ \A b \in Apps \ {a} : apps'[b] = apps[b]
<1>1. /\ apps'[a] = app /\ \A b \in Apps \ {a} : apps'[b] = apps[b]
      /\ a \in Apps
  BY DEF Wrote, Store, PipelineInv, TypeOK
<1>2. Confined(t)
  BY <1>1 DEF Wrote, Confined
<1>3. RowsCounted'
  <2> SUFFICES ASSUME NEW b \in Apps
               PROVE  /\ apps'[b].status = "unused" => apps'[b].lead = NoLead /\ attempts'[b] = 0
                      /\ apps'[b].lead \notin shared' => attempts'[b] <= apps'[b].retries
    BY DEF RowsCounted
  <2>1. CASE b = a
    BY <1>1, <2>1 DEF Wrote, Turn
  <2>2. CASE b # a
    BY <1>1, <2>2 DEF Wrote, Turn, HandInv, RowsCounted
  <2> QED
    BY <2>1, <2>2
<1>4. OneRow'
  <2> SUFFICES ASSUME NEW b \in Apps, NEW c \in Apps, apps'[b].lead = apps'[c].lead,
                      apps'[b].lead \in Leads, Clean(apps[b].lead)'
               PROVE  b = c
    BY DEF OneRow, Clean
  <2>1. apps'[b].lead \notin shared \cup mishap
    BY DEF Clean, Turn
  <2>2. CASE b # a /\ c # a
    BY <1>1, <2>1, <2>2 DEF HandInv, OneRow, Clean
  <2>3. ASSUME NEW d \in Apps, d # a, apps[d].lead = app.lead,
               app.lead \notin shared' \cup mishap'
        PROVE  FALSE
    <3>1. apps[a].lead = app.lead
      BY <2>3 DEF Wrote
    <3> QED
      BY <1>1, <2>3, <3>1 DEF HandInv, OneRow, Clean, Wrote, Turn
  <2>4. CASE b = a \/ c = a
    BY <1>1, <2>3, <2>4 DEF Clean
  <2> QED
    BY <2>2, <2>4
<1>5. NeverReapply'
  BY DEF HandInv, NeverReapply, Wrote, Turn
<1> QED
  BY <1>1, <1>2, <1>3, <1>4, <1>5

\* Submissions stay on record, if the row just written is about none, or records it.
LEMMA ToldAfter ==
  ASSUME PipelineInv, HandInv, NEW t \in Tasks, Turn(t), NEW a, NEW app, Wrote(t, a, app),
         \/ app.status = "submitted"
         \/ app.lead \notin shared' \cup mishap' => sent[app.lead] = 0,
         task[t].at = "save" => task[t].lead = app.lead
  PROVE  Told'
<1>1. /\ apps'[a] = app /\ \A b \in Apps \ {a} : apps'[b] = apps[b]
      /\ a \in Apps
  BY RowsAfter DEF Wrote
<1> SUFFICES ASSUME NEW l \in Leads, Clean(l)', sent'[l] > 0
             PROVE  \/ \E b \in Apps : apps'[b].lead = l /\ apps'[b].status = "submitted"
                    \/ \E u \in Tasks : /\ task'[u].lead = l /\ task'[u].at = "save"
                                        /\ task'[u].result = "submitted"
  BY DEF Told, Clean
<1>2. CASE l = app.lead
  BY <1>1, <1>2 DEF Wrote, Clean
<1>3. CASE l # app.lead
  <2>1. Clean(l) /\ sent[l] > 0
    BY DEF Wrote, Clean, Turn
  <2>2. CASE \E b \in Apps : apps[b].lead = l /\ apps[b].status = "submitted"
    BY <1>1, <1>3, <2>2 DEF Wrote
  <2>3. CASE \E u \in Tasks : /\ task[u].lead = l /\ task[u].at = "save"
                              /\ task[u].result = "submitted"
    BY <1>3, <2>3 DEF Turn
  <2> QED
    BY <2>1, <2>2, <2>3 DEF HandInv, Told
<1> QED
  BY <1>2, <1>3

\* The copies of the task that wrote row a: of that row the one just written, of the others
\* what they were.
LEMMA CopiesAfter ==
  ASSUME PipelineInv, HandInv, NEW t \in Tasks, Turn(t), NEW a, NEW app, Wrote(t, a, app),
         task'[t].row = 0 \/ (task'[t].row = a /\ task'[t].app = app),
         task'[t].due \subseteq task[t].due,
         \A e \in task'[t].due : e[1] # a /\ task'[t].kind = "tick",
         task'[t].kind # "followUp"
  PROVE  KeepsCopies(task[t])'
<1>1. /\ apps'[a] = app /\ \A b \in Apps \ {a} : apps'[b] = apps[b]
      /\ a \in Apps /\ a # 0
  BY RowsAfter, Numbers DEF Wrote
<1>2. Backs(a, app)'
  BY <1>1 DEF Wrote, Backs, Turn
<1>3. ASSUME NEW e \in task'[t].due PROVE Backs(e[1], e[2])' /\ e[1] # 0
  <2>1. e[1] \in Apps /\ e \in Apps \X AppRows /\ Backs(e[1], e[2]) /\ e[1] # a
    BY <1>3, SoundTask DEF TaskStates, HandInv, KeepsCopies
  <2> QED
    BY <1>1, <2>1, Numbers DEF Backs, Clean, Turn, Wrote
<1>4. \A e, f \in task'[t].due : e[1] = f[1] => e = f
  BY DEF HandInv, KeepsCopies
<1> QED
  BY <1>1, <1>2, <1>3, <1>4 DEF KeepsCopies, Backs, Clean

\* The engine's result is written, into a new row or the task's own.
LEMMA ResultKeepsHands ==
  ASSUME PipelineInv, HandInv, NEW t \in Tasks, NEW status \in Results \ {"killed"},
         task[t].at \in {"save", "lead"}, SaveResult(t, status),
         mishap \subseteq mishap',
         \/ task[t].lead \in mishap'
         \/ /\ task[t].at = "save" /\ status = task[t].result
            /\ ~SecondRow(t)
  PROVE  HandInv'
<1>1. /\ task[t] \in TaskStates /\ task[t].lead \in Leads /\ task[t].app.lead = task[t].lead
      /\ KeepsCopies(task[t]) /\ task[t].app \in AppRows
      /\ task[t].lead \in LeadsOf(task[t])
      /\ task[t].kind # "followUp"
  <2>1. /\ task[t] \in TaskStates /\ task[t].lead \in Leads /\ task[t].app.lead = task[t].lead
        /\ KeepsCopies(task[t])
    BY SoundTask DEF Sound, InHand, Engaged, HandInv
  <2> QED
    BY <2>1, InItsHands, Numbers DEF TaskStates, KeepsCopies
<1>2. PICK a \in IF task[t].row = 0 THEN Free(apps) ELSE {task[t].row} :
        LET app == [task[t].app EXCEPT !.status = status, !.final = FALSE]
            me  == [task[t] EXCEPT !.row = a, !.app = app]
        IN  /\ Store(a, app)
            /\ Become(t, IF status = "submitted" THEN [me EXCEPT !.at = "lead"]
                         ELSE Return(me, status))
  BY DEF SaveResult
<1> DEFINE app == [task[t].app EXCEPT !.status = status, !.final = FALSE]
           me  == [task[t] EXCEPT !.row = a, !.app = app]
           r   == IF status = "submitted" THEN [me EXCEPT !.at = "lead"]
                  ELSE Return(me, status)
<1>3. /\ app \in AppRows /\ app.lead = task[t].lead /\ app.retries = task[t].app.retries
      /\ app.status = status
  BY <1>1 DEF AppRows, AppStatus, Results
<1>4. Store(a, app) /\ Become(t, r)
  BY <1>2
<1>5. /\ a \in Apps
      /\ \/ task[t].row = 0 /\ apps[a].status = "unused"
         \/ task[t].row = a /\ Backs(a, task[t].app)
  BY <1>1 DEF Free, PipelineInv, TypeOK, TaskStates, KeepsCopies
<1> HIDE DEF app
<1>6. /\ me \in TaskStates /\ me.row = a /\ me.app = app /\ me.due = task[t].due
      /\ me.kind = task[t].kind /\ me.lead = task[t].lead
  BY <1>1, <1>3, <1>5 DEF TaskStates
<1> HIDE DEF me
<1>7. \/ /\ r.row = 0 /\ r.due = {} /\ r.kind \in {"none", "sweep"}
         /\ r.at \in {"idle", "match"}
      \/ /\ r.row = a /\ r.app = app /\ r.due = task[t].due /\ r.lead = task[t].lead
         /\ r.kind = task[t].kind
         /\ r.at = "lead" \/ (r.at = "write" /\ r.result = status)
  <2>1. CASE status = "submitted"
    BY <1>6, <2>1 DEF TaskStates
  <2>2. CASE status # "submitted"
    BY <1>6, <2>2, ReturnHands
  <2> QED
    BY <2>1, <2>2
<1> HIDE DEF r
<1>8. Turn(t) /\ task'[t] = r
  BY <1>4, BecomeTurns
<1>9. UNCHANGED <<sent, attempts>>
  BY DEF SaveResult
<1>10. Wrote(t, a, app)
  <2>1. app.lead \notin shared => attempts'[a] <= app.retries
    <3>1. CASE apps[a].status = "unused"
      BY <1>1, <1>3, <1>5, <1>9, <3>1 DEF HandInv, RowsCounted, AppRows
    <3>2. CASE apps[a].status # "unused"
      BY <1>1, <1>3, <1>5, <1>9, <3>2 DEF Backs
    <3> QED
      BY <3>1, <3>2
  <2>2. apps[a].status = "unused" /\ app.lead \notin shared' \cup mishap' =>
          \A b \in Apps : apps[b].lead # app.lead
    <3> SUFFICES ASSUME apps[a].status = "unused", app.lead \notin mishap'
                 PROVE  \A b \in Apps : apps[b].lead # app.lead
      OBVIOUS
    <3>1. task[t].row = 0 /\ ~SecondRow(t)
      BY <1>3, <1>5 DEF Backs
    <3> QED
      BY <1>3, <3>1 DEF SecondRow
  <2>3. app.status # "unused"
    BY <1>3 DEF Results
  <2>4. apps[a].status = "unused" \/ apps[a].lead = app.lead
    BY <1>1, <1>3, <1>5 DEF Backs
  <2> QED
    BY <1>1, <1>3, <1>4, <1>5, <1>9, <2>1, <2>2, <2>3, <2>4 DEF Wrote
<1>11. app.lead \notin shared' \cup mishap' /\ status # "submitted" => sent[app.lead] = 0
  <2> SUFFICES ASSUME app.lead \notin shared' \cup mishap', status # "submitted"
               PROVE  sent[app.lead] = 0
    OBVIOUS
  <2>1. task[t].at = "save" /\ status = task[t].result /\ Clean(task[t].lead)
    BY <1>3, <1>8 DEF Clean, Turn
  <2> QED
    BY <1>3, <2>1 DEF HandInv, Unsent
<1>12. Told'
  BY <1>3, <1>8, <1>10, <1>11, ToldAfter
<1>13. KeepsCopies(task[t])'
  <2>1. \A e \in task[t].due : e[1] # a /\ task[t].kind = "tick"
    <3> SUFFICES ASSUME NEW e \in task[t].due PROVE e[1] # a /\ task[t].kind = "tick"
      OBVIOUS
    <3> QED
      BY <1>1, <1>5 DEF KeepsCopies, Backs
  <2> QED
    BY <1>1, <1>7, <1>8, <1>10, <2>1, CopiesAfter
<1>14. Unsent(task[t])'
  BY <1>3, <1>7, <1>8, <1>9, <1>11 DEF Unsent, Clean
<1> QED
  BY <1>8, <1>10, <1>12, <1>13, <1>14, RowsAfter, HandTogether

LEMMA RecordsKeepHands ==
  ASSUME PipelineInv, HandInv, NEW t \in Tasks, SaveApp(t) \/ SaveAppFails(t) \/ SetLeadFails(t)
  PROVE  HandInv'
<1>1. ASSUME SaveApp(t) PROVE HandInv'
  <2>1. /\ task[t].at = "save" /\ SaveResult(t, task[t].result)
        /\ mishap' = IF SecondRow(t) THEN mishap \cup {task[t].lead} ELSE mishap
    BY <1>1 DEF SaveApp
  <2>2. task[t].result \in Results \ {"killed"}
    BY <2>1, SoundTask DEF Sound, InHand
  <2> QED
    BY <2>1, <2>2, ResultKeepsHands
<1>2. ASSUME SaveAppFails(t) \/ SetLeadFails(t) PROVE HandInv'
  <2>1. /\ task[t].at \in {"save", "lead"} /\ SaveResult(t, "failed")
        /\ mishap' = mishap \cup {task[t].lead}
    BY <1>2 DEF SaveAppFails, SetLeadFails, Fault
  <2>2. "failed" \in Results \ {"killed"}
    BY DEF Results
  <2> QED
    BY <2>1, <2>2, ResultKeepsHands
<1> QED
  BY <1>1, <1>2

LEMMA CountRetryKeepsHands ==
  ASSUME PipelineInv, HandInv, NEW t \in Tasks, NEW a, NEW read, CountRetry(t, a, read)
  PROVE  HandInv'
<1>1. /\ task[t] \in TaskStates /\ Sound(items, sent, staged, task[t])
      /\ task[t].kind = "tick" /\ task[t].at = "next" /\ <<a, read>> \in task[t].due
      /\ KeepsCopies(task[t])
  BY SoundTask DEF CountRetry, HandInv
<1>2. /\ a \in Apps /\ read \in AppRows
      /\ read.status = "failed" /\ read.lead \in Leads /\ read.retries < MaxRetries
      /\ Backs(a, read)
  <2>1. <<a, read>> \in Apps \X AppRows
    BY <1>1 DEF TaskStates
  <2> QED
    BY <1>1, <2>1 DEF Sound, InHand, KeepsCopies
<1> DEFINE app == [read EXCEPT !.retries = @ + 1]
           q   == [task[t] EXCEPT !.at = "dedupe", !.due = @ \ {<<a, read>>},
                                  !.lead = app.lead, !.row = a, !.app = app]
<1>3. /\ app \in AppRows /\ app.status = "failed" /\ app.lead = read.lead
      /\ app.retries = read.retries + 1
  BY <1>2, Numbers DEF AppRows
<1>4. /\ Store(a, app) /\ Become(t, q) /\ UNCHANGED <<sent, mishap>>
      /\ attempts' = [attempts EXCEPT ![a] = IF @ <= MaxRetries THEN @ + 1 ELSE @]
  BY DEF CountRetry
<1> HIDE DEF app
<1>5. /\ q.at = "dedupe" /\ q.kind = "tick" /\ q.lead = app.lead /\ q.app = app /\ q.row = a
      /\ q.due = task[t].due \ {<<a, read>>}
  BY <1>1 DEF TaskStates
<1> HIDE DEF q
<1>6. Turn(t) /\ task'[t] = q
  BY <1>4, BecomeTurns
<1>7. read.lead \in LeadsOf(task[t])
  <2>1. <<a, read>>[2] = read
    OBVIOUS
  <2> QED
    BY <1>1, <1>2, <2>1, InItsHands, Numbers
<1>8. Wrote(t, a, app)
  <2>1. attempts \in [Apps -> 0..(MaxRetries + 1)]
    BY DEF PipelineInv, TypeOK
  <2>2. app.lead \notin shared => attempts'[a] <= app.retries
    BY <1>2, <1>3, <1>4, <2>1, Numbers DEF Backs, AppRows
  <2>3. \A b \in Apps \ {a} : attempts'[b] = attempts[b]
    BY <1>4, <2>1
  <2> QED
    BY <1>2, <1>3, <1>4, <1>7, <2>2, <2>3 DEF Wrote, Backs
<1>9. app.lead \notin shared' \cup mishap' => sent[app.lead] = 0
  <2> SUFFICES ASSUME app.lead \notin shared' \cup mishap' PROVE sent[app.lead] = 0
    OBVIOUS
  <2>1. Clean(app.lead) /\ apps[a] = read
    BY <1>2, <1>3, <1>6 DEF Clean, Turn, Backs
  <2>2. \A b \in Apps : apps[b].lead = app.lead => b = a
    BY <1>2, <1>3, <2>1 DEF HandInv, OneRow
  <2>3. \A b \in Apps : apps[b].lead = app.lead => apps[b].status # "submitted"
    BY <1>2, <2>1, <2>2
  <2> PICK l \in Leads : l = app.lead
    BY <1>2, <1>3
  <2>4. Clean(l)'
    BY DEF Clean
  <2> QED
    BY <1>1, <1>3, <1>6, <1>7, <2>3, <2>4, NotTold
<1>10. Told'
  BY <1>1, <1>6, <1>8, <1>9, ToldAfter
<1>11. KeepsCopies(task[t])'
  <2>1. \A e \in task[t].due \ {<<a, read>>} : e[1] # a
    <3>1. <<a, read>>[1] = a
      OBVIOUS
    <3> QED
      BY <1>1, <3>1 DEF KeepsCopies
  <2> QED
    BY <1>5, <1>6, <1>8, <2>1, CopiesAfter
<1>12. Unsent(task[t])'
  BY <1>4, <1>5, <1>6, <1>9 DEF Unsent, Clean
<1> QED
  BY <1>6, <1>8, <1>10, <1>11, <1>12, RowsAfter, HandTogether

LEMMA SaveRetryKeepsHands ==
  ASSUME PipelineInv, HandInv, NEW t \in Tasks, SaveRetry(t) PROVE HandInv'
<1>1. /\ task[t] \in TaskStates /\ Sound(items, sent, staged, task[t]) /\ task[t].at = "write"
      /\ task[t].lead \in Leads /\ task[t].app.lead = task[t].lead
      /\ task[t].result \in Results
      /\ KeepsCopies(task[t]) /\ Unsent(task[t])
      /\ task[t].lead \in LeadsOf(task[t])
  <2>1. /\ task[t] \in TaskStates /\ Sound(items, sent, staged, task[t]) /\ task[t].at = "write"
        /\ task[t].lead \in Leads /\ task[t].app.lead = task[t].lead
        /\ task[t].result \in Results
        /\ KeepsCopies(task[t]) /\ Unsent(task[t])
    BY SoundTask DEF SaveRetry, Sound, InHand, Engaged, HandInv
  <2> QED
    BY <2>1, InItsHands, Numbers
<1> DEFINE st == IF task[t].result = "killed" THEN "failed" ELSE task[t].result
           q  == [Idle EXCEPT !.kind = "tick", !.at = "next", !.due = task[t].due]
<1> PICK app : app = [task[t].app EXCEPT !.status = st, !.final = task[t].result = "killed"]
  OBVIOUS
<1>2. /\ app \in AppRows /\ app.lead = task[t].lead /\ app.retries = task[t].app.retries
      /\ app.status = st /\ app.status # "unused"
  BY <1>1 DEF TaskStates, AppRows, AppStatus, Results
<1>3. Store(task[t].row, app) /\ UNCHANGED <<sent, attempts, mishap>>
  BY DEF SaveRetry, history
<1>4. PICK r : Become(t, r) /\ r \in {Idle, q}
  BY DEF SaveRetry
<1>5. /\ r.row = 0 /\ r.at \in {"idle", "next"} /\ r.kind \in {"none", "tick"}
      /\ r.due = {} \/ (r.due = task[t].due /\ r.kind = "tick")
  <2>1. /\ q.row = 0 /\ q.at = "next" /\ q.kind = "tick" /\ q.due = task[t].due
        /\ Idle.row = 0 /\ Idle.at = "idle" /\ Idle.kind = "none" /\ Idle.due = {}
    BY DEF Idle
  <2> HIDE DEF q
  <2> QED
    BY <1>4, <2>1
<1>6. Turn(t) /\ task'[t] = r
  BY <1>3, <1>4, BecomeTurns
<1>7. Unsent(task[t])'
  BY <1>5, <1>6 DEF Unsent
<1>8. CASE task[t].row = 0
  <2>1. apps' = apps
    BY <1>3, <1>8, Numbers DEF Store, PipelineInv, TypeOK
  <2>2. KeepsCopies(task[t])'
    <3>1. ASSUME NEW e \in r.due PROVE Backs(e[1], e[2])' /\ e[1] # 0
      BY <1>1, <1>3, <1>5, <1>6, <1>8, <2>1, <3>1, CopiesStay DEF KeepsCopies
    <3>2. \A e, f \in r.due : e[1] = f[1] => e = f
      BY <1>1, <1>5 DEF KeepsCopies
    <3> QED
      BY <1>5, <1>6, <3>1, <3>2 DEF KeepsCopies
  <2> QED
    BY <1>1, <1>3, <1>6, <1>7, <2>1, <2>2, QuietStep
<1>9. CASE task[t].row # 0
  <2> PICK a \in Apps : a = task[t].row
    BY <1>1, <1>9 DEF TaskStates
  <2>1. Backs(a, task[t].app)
    BY <1>1, <1>9 DEF KeepsCopies
  <2>2. Wrote(t, a, app)
    BY <1>1, <1>2, <1>3, <2>1 DEF Wrote, Backs
  <2>3. app.status = "submitted" \/ (app.lead \notin shared' \cup mishap' => sent[app.lead] = 0)
    <3>1. app.status # "submitted" => task[t].result # "submitted"
      BY <1>2
    <3> QED
      BY <1>1, <1>2, <1>6, <3>1 DEF Unsent, Clean, Turn
  <2>4. Told'
    BY <1>1, <1>6, <2>2, <2>3, ToldAfter
  <2>5. KeepsCopies(task[t])'
    BY <1>1, <1>5, <1>6, <2>2, CopiesAfter DEF KeepsCopies
  <2> QED
    BY <1>6, <1>7, <2>2, <2>4, <2>5, RowsAfter, HandTogether
<1> QED
  BY <1>8, <1>9

LEMMA SaveFollowUpKeepsHands ==
  ASSUME PipelineInv, HandInv, NEW t \in Tasks, SaveFollowUp(t) PROVE HandInv'
<1>1. /\ task[t] \in TaskStates /\ Sound(items, sent, staged, task[t]) /\ task[t].kind = "followUp"
      /\ task[t].at # "save" /\ KeepsCopies(task[t])
      /\ Store(task[t].row, task[t].app) /\ Become(t, Idle)
      /\ UNCHANGED <<sent, attempts, mishap>>
  BY SoundTask, NotSaving DEF SaveFollowUp, HandInv, history
<1>2. Turn(t) /\ task'[t] = Idle
  BY <1>1, BecomeTurns
<1>3. KeepsCopies(task[t])' /\ Unsent(task[t])'
  BY <1>2, EmptyHanded DEF Idle
<1> PICK app : app = task[t].app
  OBVIOUS
<1>4. /\ app \in AppRows /\ app.status # "unused" /\ app.lead \in Leads
      /\ app.lead \in LeadsOf(task[t])
  <2>1. app \in AppRows /\ app.status # "unused" /\ app.lead \in Leads
    BY <1>1 DEF TaskStates, Sound, InHand
  <2> QED
    BY <2>1, InItsHands, Numbers
<1>5. CASE task[t].row = 0
  <2>1. apps' = apps
    BY <1>1, <1>5, Numbers DEF Store, PipelineInv, TypeOK
  <2> QED
    BY <1>1, <1>2, <1>3, <2>1, QuietStep
<1>6. CASE task[t].row # 0
  <2> PICK a \in Apps : a = task[t].row
    BY <1>1, <1>6 DEF TaskStates
  <2>1. Backs(a, app)
    BY <1>1, <1>6 DEF KeepsCopies
  <2>2. Wrote(t, a, app)
    BY <1>1, <1>4, <2>1 DEF Wrote, Backs
  <2>3. CASE Clean(app.lead)
    <3>1. apps' = apps
      BY <1>1, <2>1, <2>3 DEF Backs, Store, PipelineInv, TypeOK
    <3> QED
      BY <1>1, <1>2, <1>3, <3>1, QuietStep
  <2>4. CASE ~Clean(app.lead)
    <3>1. Told'
      BY <1>1, <1>2, <2>2, <2>4, ToldAfter DEF Clean, Turn
    <3> QED
      BY <1>2, <1>3, <2>2, <3>1, RowsAfter, HandTogether
  <2> QED
    BY <2>3, <2>4
<1> QED
  BY <1>5, <1>6

\* A row marked by hand spoils its lead, and a crash those under way.
LEMMA OtherStepsKeepHands ==
  ASSUME PipelineInv, HandInv, Crash \/ \E a \in Apps : MarkSuccess(a)
  PROVE  HandInv'
<1>1. ASSUME Crash PROVE HandInv'
  <2>1. /\ UNCHANGED <<apps, attempts, sent, shared>> /\ mishap \subseteq mishap'
        /\ \A t \in Tasks : task'[t] = Idle
    BY <1>1 DEF Crash
  <2>2. ASSUME NEW t \in Tasks PROVE KeepsCopies(task[t])' /\ Unsent(task[t])'
    BY <2>1, EmptyHanded DEF Idle
  <2>3. Exclusive'
    BY <2>1 DEF Exclusive, LeadsOf, Idle, Fresh
  <2>4. RowsCounted' /\ OneRow' /\ NeverReapply'
    BY <2>1 DEF HandInv, RowsCounted, OneRow, NeverReapply, Clean
  <2>5. Told'
    <3> SUFFICES ASSUME NEW l \in Leads, Clean(l)', sent'[l] > 0
                 PROVE  \E a \in Apps : apps'[a].lead = l /\ apps'[a].status = "submitted"
      BY DEF Told, Clean
    <3>1. Clean(l) /\ sent[l] > 0
      BY <2>1 DEF Clean
    <3>2. ~\E t \in Tasks : task[t].lead = l
      BY <1>1, Numbers DEF Crash, Clean
    <3> QED
      BY <2>1, <3>1, <3>2 DEF HandInv, Told
  <2> QED
    BY <2>2, <2>3, <2>4, <2>5 DEF HandInv
<1>2. ASSUME NEW a \in Apps, MarkSuccess(a) PROVE HandInv'
  <2>1. /\ UNCHANGED <<task, shared, sent, attempts>>
        /\ mishap' = mishap \cup {apps[a].lead}
        /\ apps[a].status # "unused"
        /\ apps'[a].lead = apps[a].lead /\ apps'[a].retries = apps[a].retries
        /\ apps'[a].status = "applied"
        /\ \A b \in Apps \ {a} : apps'[b] = apps[b]
    BY <1>2 DEF MarkSuccess, Store, PipelineInv, TypeOK, AppRows
  <2>2. ASSUME NEW b \in Apps, NEW x, Backs(b, x) PROVE Backs(b, x)'
    BY <2>1, <2>2 DEF Backs, Clean
  <2>3. ASSUME NEW t \in Tasks PROVE KeepsCopies(task[t])' /\ Unsent(task[t])'
    <3> PICK r \in TaskStates : r = task[t]
      BY SoundTask
    <3>1. KeepsCopies(r) /\ Unsent(r) /\ task'[t] = r
      BY <2>1 DEF HandInv
    <3>2. r.row # 0 => r.row \in Apps
      BY DEF TaskStates
    <3>3. ASSUME NEW e \in r.due PROVE e[1] \in Apps
      BY DEF TaskStates
    <3>4. KeepsCopies(task[t])'
      BY <2>2, <3>1, <3>2, <3>3 DEF KeepsCopies
    <3> QED
      BY <2>1, <3>1, <3>4 DEF Unsent, Clean
  <2>4. Exclusive' /\ NeverReapply'
    BY <2>1 DEF HandInv, Exclusive, NeverReapply, LeadsOf
  <2>5. RowsCounted'
    <3> SUFFICES ASSUME NEW b \in Apps
                 PROVE  /\ apps'[b].status = "unused" => apps'[b].lead = NoLead /\ attempts'[b] = 0
                        /\ apps'[b].lead \notin shared' => attempts'[b] <= apps'[b].retries
      BY DEF RowsCounted
    <3> QED
      BY <2>1 DEF HandInv, RowsCounted
  <2>6. OneRow'
    BY <2>1 DEF HandInv, OneRow, Clean
  <2>7. Told'
    <3> SUFFICES ASSUME NEW l \in Leads, Clean(l)', sent'[l] > 0
                 PROVE  \/ \E b \in Apps : apps'[b].lead = l /\ apps'[b].status = "submitted"
                        \/ \E u \in Tasks : /\ task'[u].lead = l /\ task'[u].at = "save"
                                            /\ task'[u].result = "submitted"
      BY DEF Told, Clean
    <3>1. Clean(l) /\ sent[l] > 0 /\ l # apps[a].lead
      BY <2>1 DEF Clean
    <3> QED
      BY <2>1, <3>1 DEF HandInv, Told
  <2> QED
    BY <2>3, <2>4, <2>5, <2>6, <2>7 DEF HandInv
<1> QED
  BY <1>1, <1>2

LEMMA HandInvStep == PipelineInv /\ HandInv /\ [Next]_vars => HandInv'
<1> SUFFICES ASSUME PipelineInv, HandInv, [Next]_vars PROVE HandInv'
  OBVIOUS
<1>1. CASE UNCHANGED vars
  <2>1. UNCHANGED <<apps, task, sent, attempts, shared, mishap>>
    BY <1>1 DEF vars, rows, history
  <2>2. Exclusive' /\ RowsCounted' /\ OneRow' /\ Told' /\ NeverReapply'
    BY <2>1 DEF HandInv, Exclusive, RowsCounted, OneRow, Told, NeverReapply, LeadsOf, Clean
  <2>3. ASSUME NEW t \in Tasks PROVE KeepsCopies(task[t])' /\ Unsent(task[t])'
    BY <2>1 DEF HandInv, KeepsCopies, Backs, Unsent, Clean
  <2> QED
    BY <2>2, <2>3 DEF HandInv
<1>2. ASSUME NEW t \in Tasks, Proceed(t) PROVE HandInv'
  <2>1. ASSUME NEW e \in task[t].due, CountRetry(t, e[1], e[2]) PROVE HandInv'
    BY <2>1, CountRetryKeepsHands
  <2> QED
    BY <1>2, <2>1, StartsKeepHands, PreparedKeepsHands, WorkKeepsHands,
       SaveFollowUpKeepsHands, EngineCallsKeepHands, SendsKeepHands, RecordsKeepHands,
       SetLeadKeepsHands, SaveRetryKeepsHands
    DEF Proceed
<1>3. ASSUME NEW t \in Tasks,
             \/ \E l \in Leads : StartPrepare(t, l) \/ StartApply(t, l)
             \/ \E i \in Items, op \in Edits : StartEdit(t, op, i)
             \/ \E a \in Apps : StartFollowUp(t, a)
             \/ StartLoop(t) \/ StartSweep(t) \/ StartTick(t)
      PROVE  HandInv'
  BY <1>3, StartsKeepHands, EngineCallsKeepHands
<1>4. ASSUME NEW t \in Tasks,
             SendUnrecorded(t) \/ SaveAppFails(t) \/ SetLeadFails(t) \/ MatchFails(t)
      PROVE  HandInv'
  BY <1>4, SendsKeepHands, RecordsKeepHands, WorkKeepsHands
<1> QED
  BY <1>1, <1>2, <1>3, <1>4, OtherStepsKeepHands DEF Next

LEMMA HandInvInit == Init => HandInv
<1> SUFFICES ASSUME Init PROVE HandInv
  OBVIOUS
<1>1. Exclusive
  BY DEF Init, Exclusive, LeadsOf, Idle, Fresh
<1>2. RowsCounted /\ OneRow
  BY Numbers DEF Init, RowsCounted, OneRow, Fresh
<1>3. Told /\ NeverReapply
  BY DEF Init, Told, NeverReapply
<1>4. ASSUME NEW t \in Tasks PROVE KeepsCopies(task[t]) /\ Unsent(task[t])
  BY DEF Init, KeepsCopies, Unsent, Idle
<1> QED
  BY <1>1, <1>2, <1>3, <1>4 DEF HandInv

(***************************************************************************)
(* A lead goes out once, however often the sweep, the tick, the endpoint and *)
(* the user take it up, unless it was in two hands, a fault fell into its     *)
(* submission, it got a second row, or a row of it was marked by hand.        *)
(* HandInv says why: whoever is past the deduplication has a lead that never  *)
(* went out (Unsent), because what went out is on record or about to be       *)
(* (Told), the lead has one row (OneRow), and its copies are that row         *)
(* (KeepsCopies).                                                            *)
(***************************************************************************)
THEOREM NoSecondSubmission == Spec => []NeverReapply
<1>1. PipelineInv /\ HandInv => NeverReapply
  BY HandBounds
<1> QED
  BY PipelineInvInit, PipelineInvStep, HandInvInit, HandInvStep, <1>1, PTL DEF Spec

(***************************************************************************)
(* A row is retried at most MaxRetries times, after crashes and failed saves *)
(* too, unless its lead was in two hands: every copy of the row counts the    *)
(* retries that were made (KeepsCopies), and so does the row (RowsCounted).   *)
(***************************************************************************)
THEOREM RetriesEnd == Spec => []RetriesBounded
<1>1. PipelineInv /\ HandInv => RetriesBounded
  BY HandBounds
<1> QED
  BY PipelineInvInit, PipelineInvStep, HandInvInit, HandInvStep, <1>1, PTL DEF Spec

-----------------------------------------------------------------------------
(* Consent: what a sweep has in hand was approved, what a tick has is not      *)
(* in the queue.                                                              *)

Consented(r) ==
  /\ r.kind = "sweep" => ItemsOf(r) \subseteq consent
  /\ r.seen = "approved" /\ r.kind # "approve" => r.item \in consent
  /\ r.kind = "hold" => r.seen # "approved"

OffQueue(r) ==
  /\ r.at = "queue" => \A l \in Leads \ shared : Queued(l) => l \in r.leads
  /\ r.kind = "tick" => \A l \in LeadsOf(r) \ shared : ~Queued(l)

ConsentInv ==
  /\ \A i \in Items : items[i].status = "approved" => i \in consent
  /\ \A t \in Tasks : Consented(task[t]) /\ OffQueue(task[t])

\* The items keep their leads, and an approved one has consent.
SameQueue ==
  /\ \A i \in Items : /\ items'[i].lead = items[i].lead
                      /\ items'[i].status = "approved" => i \in consent'

LEMMA ConsentTogether ==
  ASSUME PipelineInv, ConsentInv, NEW t \in Tasks, SameQueue,
         \A u \in Tasks \ {t} : task'[u] = task[u], shared \subseteq shared',
         \A u \in Tasks \ {t} : \A i \in ItemsOf(task[u]) : i \in consent => i \in consent',
         Consented(task[t])', OffQueue(task[t])'
  PROVE  ConsentInv'
<1>1. \A l : Queued(l)' <=> Queued(l)
  BY DEF SameQueue, Queued
<1>2. ASSUME NEW u \in Tasks \ {t} PROVE Consented(task[u])' /\ OffQueue(task[u])'
  <2>1. /\ task'[u] = task[u] /\ Consented(task[u]) /\ OffQueue(task[u])
        /\ Sound(items, sent, staged, task[u])
    BY SoundTask DEF ConsentInv
  <2>2. task[u].seen = "approved" => task[u].item \in ItemsOf(task[u])
    <3>1. task[u].seen = "approved" /\ task[u].kind # "approve" => task[u].item \in consent
      BY <2>1 DEF Consented
    <3>2. consent \subseteq Items
      BY DEF PipelineInv, TypeOK
    <3>3. task[u].kind = "approve" => task[u].item \in Items
      BY <2>1 DEF Sound, InHand, Used, Edits
    <3> QED
      BY <3>1, <3>2, <3>3, Numbers DEF ItemsOf
  <2>3. Consented(task[u])'
    BY <2>1, <2>2 DEF Consented, ItemsOf
  <2>4. OffQueue(task[u])'
    BY <1>1, <2>1 DEF OffQueue, LeadsOf, Queued
  <2> QED
    BY <2>3, <2>4
<1> QED
  BY <1>2 DEF ConsentInv, SameQueue

\* A task that goes on with no more than it had.
Narrower(s, r) ==
  /\ r.at # "queue"
  /\ r.kind = "sweep" => s.kind = "sweep" /\ ItemsOf(r) \subseteq ItemsOf(s)
  /\ r.kind = "tick" => s.kind = "tick" /\ LeadsOf(r) \subseteq LeadsOf(s)
  /\ r.seen = "approved" => s.seen = "approved" /\ r.kind = s.kind /\ r.item = s.item

LEMMA GoesOn ==
  ASSUME PipelineInv, ConsentInv, NEW t \in Tasks, NEW r, Become(t, r),
         Narrower(task[t], r), UNCHANGED <<items, consent>>
  PROVE  ConsentInv'
<1>1. /\ task'[t] = r /\ \A u \in Tasks \ {t} : task'[u] = task[u]
      /\ shared \subseteq shared'
  BY DEF Become, PipelineInv, TypeOK
<1>2. Consented(task[t]) /\ OffQueue(task[t])
  BY DEF ConsentInv
<1>3. Consented(task[t])'
  BY <1>1, <1>2 DEF Narrower, Consented, ItemsOf
<1>4. OffQueue(task[t])'
  BY <1>1, <1>2 DEF Narrower, OffQueue, LeadsOf, Queued
<1>5. SameQueue
  BY DEF SameQueue, ConsentInv
<1> QED
  BY <1>1, <1>3, <1>4, <1>5, ConsentTogether

\* Nothing in hand that needs a consent.
LEMMA NeedsNone ==
  ASSUME NEW s, NEW r, r.kind \notin {"sweep", "tick"}, r.at # "queue", r.seen # "approved"
  PROVE  Narrower(s, r)
BY DEF Narrower

LEMMA FreshStarts ==
  ASSUME PipelineInv, ConsentInv, NEW t \in Tasks,
         \/ \E l \in Leads : StartPrepare(t, l) \/ LoopTakes(t, l)
         \/ \E a \in Apps : StartFollowUp(t, a)
         \/ StartLoop(t) \/ LoopEnds(t)
  PROVE  ConsentInv'
<1>1. UNCHANGED <<items, consent>>
  BY DEF StartPrepare, LoopTakes, StartFollowUp, StartLoop, LoopEnds, rows, history
<1>2. ASSUME NEW r, Become(t, r), r.kind \notin {"sweep", "tick"}, r.at # "queue",
             r.seen # "approved"
      PROVE  ConsentInv'
  BY <1>1, <1>2, NeedsNone, GoesOn
<1>3. ASSUME NEW l \in Leads, StartPrepare(t, l) PROVE ConsentInv'
  <2> DEFINE r == [Idle EXCEPT !.kind = "prepare", !.at = "preparing", !.lead = l]
  <2>1. Become(t, r) /\ r.at = "preparing" /\ r.kind = "prepare" /\ r.seen = "unused"
    BY <1>3 DEF StartPrepare, Idle
  <2> QED
    BY <1>2, <2>1
<1>4. ASSUME NEW l \in Leads, LoopTakes(t, l) PROVE ConsentInv'
  <2> DEFINE q == [task[t] EXCEPT !.leads = @ \ {l}]
             p == [q EXCEPT !.at = "preparing", !.lead = l]
  <2>1. Become(t, q) \/ Become(t, p)
    BY <1>4 DEF LoopTakes
  <2>2. /\ q.kind = "loop" /\ q.at = "next" /\ q.seen = "unused"
        /\ p.kind = "loop" /\ p.at = "preparing" /\ p.seen = "unused"
    BY <1>4, SoundTask DEF LoopTakes, TaskStates, Sound, InHand
  <2> QED
    BY <1>2, <2>1, <2>2
<1>5. ASSUME NEW a \in Apps, StartFollowUp(t, a) PROVE ConsentInv'
  <2> DEFINE r == [Idle EXCEPT !.kind = "followUp", !.at = "saving", !.row = a,
                               !.app = apps[a]]
  <2>1. Become(t, r) /\ r.at = "saving" /\ r.kind = "followUp" /\ r.seen = "unused"
    BY <1>5 DEF StartFollowUp, Idle
  <2> QED
    BY <1>2, <2>1
<1>6. ASSUME StartLoop(t) PROVE ConsentInv'
  <2> DEFINE r == [Idle EXCEPT !.kind = "loop", !.at = "next", !.leads = Leads \ applied]
  <2>1. Become(t, r) /\ r.at = "next" /\ r.kind = "loop" /\ r.seen = "unused"
    BY <1>6 DEF StartLoop, Idle
  <2> QED
    BY <1>2, <2>1
<1>7. ASSUME LoopEnds(t) PROVE ConsentInv'
  BY <1>2, <1>7 DEF LoopEnds, Idle
<1> QED
  BY <1>3, <1>4, <1>5, <1>6, <1>7

\* A sweep starts with what is approved, a tick with what is queued, an edit with what it
\* has read.
LEMMA ConsentStarts ==
  ASSUME PipelineInv, ConsentInv, NEW t \in Tasks,
         \/ \E i \in Items, op \in Edits : StartEdit(t, op, i)
         \/ StartSweep(t) \/ StartTick(t) \/ ReadDue(t) \/ ReadMatch(t)
  PROVE  ConsentInv'
<1>1. UNCHANGED <<items, consent>>
  BY DEF StartEdit, StartSweep, StartTick, ReadDue, ReadMatch, rows, history
<1>2. ASSUME NEW r, Become(t, r), r.kind = "sweep" => ItemsOf(r) \subseteq consent,
             r.seen = "approved" /\ r.kind # "approve" => r.item \in consent,
             r.kind = "hold" => r.seen # "approved",
             r.at = "queue" => \A l \in Leads : Queued(l) => l \in r.leads,
             r.kind = "tick" => \A l \in LeadsOf(r) \ shared : ~Queued(l)
      PROVE  ConsentInv'
  <2>1. /\ task'[t] = r /\ \A u \in Tasks \ {t} : task'[u] = task[u]
        /\ shared \subseteq shared'
    BY <1>2 DEF Become, PipelineInv, TypeOK
  <2>2. Consented(task[t])'
    BY <1>1, <1>2, <2>1 DEF Consented, ItemsOf
  <2>3. OffQueue(task[t])'
    BY <1>1, <1>2, <2>1 DEF OffQueue, LeadsOf, Queued
  <2>4. SameQueue
    BY <1>1 DEF SameQueue, ConsentInv
  <2> QED
    BY <1>1, <2>1, <2>2, <2>3, <2>4, ConsentTogether
<1>3. ASSUME NEW i \in Items, NEW op \in Edits, StartEdit(t, op, i) PROVE ConsentInv'
  <2> DEFINE st == Edited(op, items[i].status)
             r  == [Idle EXCEPT !.kind = op, !.at = "saving", !.item = i, !.seen = st]
  <2>1. /\ Become(t, r) /\ r.kind = op /\ r.at = "saving" /\ r.item = i /\ r.seen = st
    BY <1>3 DEF StartEdit, Idle
  <2>2. op \notin {"sweep", "tick"} /\ (st = "approved" /\ op # "approve" => i \in consent)
        /\ (op = "hold" => st # "approved")
    BY DEF Edits, Edited, ConsentInv
  <2> HIDE DEF r, st
  <2> QED
    BY <1>2, <2>1, <2>2
<1>4. ASSUME StartSweep(t) PROVE ConsentInv'
  <2> DEFINE approved == {i \in Items : items[i].status = "approved"}
             r == [Idle EXCEPT !.kind = "sweep", !.at = "next", !.items = approved]
  <2>1. /\ Become(t, r) /\ r.kind = "sweep" /\ r.at = "next" /\ r.items = approved
        /\ r.item = 0 /\ r.seen = "unused"
    BY <1>4 DEF StartSweep, Idle
  <2>2. ItemsOf(r) \subseteq consent
    BY <2>1 DEF ItemsOf, ConsentInv
  <2> HIDE DEF r
  <2> QED
    BY <1>2, <2>1, <2>2
<1>5. ASSUME StartTick(t) PROVE ConsentInv'
  <2> DEFINE r == [Idle EXCEPT !.kind = "tick", !.at = "queue",
                               !.leads = {l \in Leads : Queued(l)}]
  <2>1. /\ Become(t, r) /\ r.kind = "tick" /\ r.at = "queue" /\ r.seen = "unused"
        /\ r.leads = {l \in Leads : Queued(l)} /\ LeadsOf(r) = {}
    BY <1>5 DEF StartTick, Idle, LeadsOf, Fresh
  <2> HIDE DEF r
  <2> QED
    BY <1>2, <2>1
<1>6. ASSUME ReadDue(t) PROVE ConsentInv'
  <2>1. PICK due \in SUBSET {a \in Apps : Due(a) /\ apps[a].lead \notin task[t].leads} :
          Become(t, IF due = {} THEN Idle
                    ELSE [Idle EXCEPT !.kind = "tick", !.at = "next",
                                      !.due = {<<a, apps[a]>> : a \in due}])
    BY <1>6 DEF ReadDue
  <2>2. CASE due = {}
    BY <1>2, <2>1, <2>2 DEF Idle
  <2>3. CASE due # {}
    <3> DEFINE r == [Idle EXCEPT !.kind = "tick", !.at = "next",
                                 !.due = {<<a, apps[a]>> : a \in due}]
    <3>1. /\ Become(t, r) /\ r.kind = "tick" /\ r.at = "next" /\ r.seen = "unused"
          /\ r.lead = NoLead /\ r.app.lead = NoLead
          /\ r.due = {<<a, apps[a]>> : a \in due}
      BY <2>1, <2>3 DEF Idle, Fresh
    <3> HIDE DEF r
    <3>2. ASSUME NEW l \in LeadsOf(r) \ shared PROVE ~Queued(l)
      <4>1. PICK a \in due : l = apps[a].lead
        BY <3>1 DEF LeadsOf
      <4>2. l \in Leads /\ l \notin task[t].leads
        BY <4>1 DEF Due, PipelineInv, RowsHaveLeads
      <4> QED
        BY <1>6, <3>2, <4>2 DEF ReadDue, ConsentInv, OffQueue
    <3> QED
      BY <1>2, <3>1, <3>2
  <2> QED
    BY <2>2, <2>3
<1>7. ASSUME ReadMatch(t) PROVE ConsentInv'
  <2> DEFINE r == [task[t] EXCEPT !.at = "matched", !.seen = items[task[t].item].status]
  <2>1. /\ Become(t, r) /\ task[t].kind = "sweep" /\ r.kind = "sweep" /\ r.at = "matched"
        /\ r.item = task[t].item /\ r.items = task[t].items
        /\ task[t].item \in Items
    BY <1>7, SoundTask DEF ReadMatch, TaskStates, Sound, InHand, Used
  <2>2. ItemsOf(r) \subseteq consent /\ r.item \in consent
    BY <2>1, Numbers DEF ItemsOf, ConsentInv, Consented
  <2> HIDE DEF r
  <2> QED
    BY <1>2, <2>1, <2>2
<1> QED
  BY <1>3, <1>4, <1>5, <1>6, <1>7

\* A lead enters the queue: a tick that has it in hand shares it, and so does one that has
\* not yet read what is due.
LEMMA PreparedConsent ==
  ASSUME PipelineInv, HandInv, ConsentInv, NEW t \in Tasks, Prepared(t) PROVE ConsentInv'
<1>1. /\ task[t].at = "preparing" /\ task[t] \in TaskStates
      /\ task[t].lead \in Leads /\ task[t].seen = "unused" /\ UNCHANGED consent
      /\ shared' = shared \cup {task[t].lead : u \in {v \in Tasks : task[v].at = "queue"}}
      /\ \A u \in Tasks \ {t} : task'[u] = task[u]
  BY SoundTask DEF Prepared, Sound, InHand, history, PipelineInv, TypeOK
<1> PICK l \in Leads : l = task[t].lead
  BY <1>1
<1> DEFINE q == IF task[t].kind = "loop"
                THEN [task[t] EXCEPT !.at = "next", !.lead = NoLead] ELSE Idle
<1>2. /\ task'[t] = q /\ q.kind \in {"loop", "none"} /\ q.at \in {"next", "idle"}
      /\ q.seen = "unused"
  BY <1>1 DEF Prepared, Idle, PipelineInv, TypeOK, TaskStates
<1> HIDE DEF q
<1>3. \A k \in Leads \ {l} : Queued(k)' => Queued(k)
  BY <1>1 DEF Prepared, Queued, NewItem, PipelineInv, TypeOK
<1>4. ASSUME NEW i \in Items, items'[i].status = "approved" PROVE i \in consent'
  BY <1>1, <1>4 DEF Prepared, NewItem, PipelineInv, TypeOK, ConsentInv
<1>5. ASSUME NEW u \in Tasks PROVE Consented(task[u])'
  <2>1. CASE u = t
    BY <1>2, <2>1 DEF Consented
  <2>2. CASE u # t
    BY <1>1, <2>2 DEF Consented, ConsentInv, ItemsOf
  <2> QED
    BY <2>1, <2>2
<1>6. ASSUME NEW u \in Tasks PROVE OffQueue(task[u])'
  <2>1. CASE u = t
    BY <1>2, <2>1 DEF OffQueue
  <2>2. CASE u # t
    <3>1. task'[u] = task[u] /\ OffQueue(task[u]) /\ shared \subseteq shared'
      BY <1>1, <2>2 DEF ConsentInv
    <3>2. task[u].at = "queue" => l \in shared'
      BY <1>1
    <3>3. l \in LeadsOf(task[u]) => l \in shared
      <4>1. l \in LeadsOf(task[t])
        BY InItsHands, Numbers
      <4> QED
        BY <2>2, <4>1 DEF HandInv, Exclusive
    <3>4. task[u].at = "queue" => \A k \in Leads \ shared' : Queued(k)' => k \in task[u].leads
      BY <1>3, <3>1, <3>2 DEF OffQueue
    <3>5. task[u].kind = "tick" => \A k \in LeadsOf(task[u]) \ shared' : ~Queued(k)'
      <4>1. LeadsOf(task[u]) \subseteq Leads
        BY SoundTask DEF LeadsOf, TaskStates, AppRows
      <4> QED
        BY <1>3, <3>1, <3>3, <4>1 DEF OffQueue
    <3> QED
      BY <3>1, <3>4, <3>5 DEF OffQueue, LeadsOf, Queued
  <2> QED
    BY <2>1, <2>2
<1> QED
  BY <1>4, <1>5, <1>6 DEF ConsentInv

\* A hold takes a consent back only from an item that nobody else has in hand.
LEMMA SaveEditConsent ==
  ASSUME PipelineInv, ConsentInv, NEW t \in Tasks, SaveEdit(t) PROVE ConsentInv'
<1> PICK i, st, k : i = task[t].item /\ st = task[t].seen /\ k = task[t].kind
  OBVIOUS
<1>1. /\ k \in Edits /\ i \in Items /\ Become(t, Idle)
      /\ items' = [items EXCEPT ![i].status = st]
      /\ consent' = CASE k = "approve" -> consent \cup {i}
                      [] k = "hold"    -> consent \ {j \in {i} :
                           \A u \in Tasks \ {t} : j \notin ItemsOf(task[u])}
                      [] OTHER         -> consent
  BY SoundTask DEF SaveEdit, Sound, InHand, Used
<1>2. /\ task'[t] = Idle /\ \A u \in Tasks \ {t} : task'[u] = task[u]
      /\ shared \subseteq shared'
  BY <1>1 DEF Become, PipelineInv, TypeOK
<1>3. /\ items'[i].status = st /\ items'[i].lead = items[i].lead
      /\ \A j \in Items \ {i} : items'[j] = items[j]
      /\ \A j : j # i /\ j \in consent => j \in consent'
  BY <1>1 DEF PipelineInv, TypeOK, ItemRows
<1>4. st = "approved" => k # "hold" /\ i \in consent'
  <2>1. st = "approved" /\ k # "approve" => i \in consent
    BY DEF ConsentInv, Consented
  <2>2. k = "hold" => st # "approved"
    BY DEF ConsentInv, Consented
  <2> QED
    BY <1>1, <2>1, <2>2
<1>5. SameQueue
  BY <1>3, <1>4 DEF SameQueue, ConsentInv
<1>6. \A u \in Tasks \ {t} : \A j \in ItemsOf(task[u]) : j \in consent => j \in consent'
  BY <1>1
<1>7. Consented(task[t])' /\ OffQueue(task[t])'
  BY <1>2 DEF Consented, OffQueue, Idle
<1> QED
  BY <1>2, <1>5, <1>6, <1>7, ConsentTogether

\* The sweep's own writes approve nothing that has no consent.
LEMMA SweepConsent ==
  ASSUME PipelineInv, ConsentInv, NEW t \in Tasks, SaveMatch(t) \/ Mark(t) PROVE ConsentInv'
<1>1. task[t] \in TaskStates /\ task[t].kind = "sweep" /\ task[t].item \in Items
      /\ Consented(task[t]) /\ UNCHANGED consent
  BY SoundTask DEF SaveMatch, Mark, Sound, InHand, Used, ConsentInv, history
<1> PICK i \in Items : i = task[t].item
  BY <1>1
<1>2. i \in consent
  BY <1>1, Numbers DEF Consented, ItemsOf
<1>3. PICK st : items' = [items EXCEPT ![i].status = st]
  BY DEF SaveMatch, Mark
<1>4. SameQueue
  <2>1. /\ items'[i].lead = items[i].lead /\ \A j \in Items \ {i} : items'[j] = items[j]
    BY <1>3 DEF PipelineInv, TypeOK, ItemRows
  <2> QED
    BY <1>1, <1>2, <2>1 DEF SameQueue, ConsentInv
<1> DEFINE p == [task[t] EXCEPT !.at = "mark", !.seen = "unused"]
           q == [Idle EXCEPT !.kind = "sweep", !.at = "next", !.items = task[t].items]
<1>5. PICK r : Become(t, r) /\ r \in {Idle, p, q}
  BY DEF SaveMatch, Mark
<1>6. /\ r.kind \in {"sweep", "none"} /\ ItemsOf(r) \subseteq ItemsOf(task[t])
      /\ r.seen = "unused" /\ r.at # "queue"
  <2>1. /\ p.kind = "sweep" /\ p.at = "mark" /\ p.seen = "unused"
        /\ p.items = task[t].items /\ p.item = task[t].item
    BY <1>1 DEF TaskStates
  <2>2. /\ q.kind = "sweep" /\ q.at = "next" /\ q.seen = "unused"
        /\ q.items = task[t].items /\ q.item = 0
        /\ Idle.kind = "none" /\ Idle.at = "idle" /\ Idle.seen = "unused"
        /\ Idle.items = {} /\ Idle.item = 0
    BY DEF Idle
  <2> HIDE DEF p, q
  <2> QED
    BY <1>5, <2>1, <2>2 DEF ItemsOf
<1>7. /\ task'[t] = r /\ \A u \in Tasks \ {t} : task'[u] = task[u]
      /\ shared \subseteq shared'
  BY <1>5 DEF Become, PipelineInv, TypeOK
<1>8. Consented(task[t])' /\ OffQueue(task[t])'
  BY <1>1, <1>6, <1>7 DEF Consented, OffQueue, ItemsOf
<1> QED
  BY <1>1, <1>4, <1>7, <1>8, ConsentTogether

\* What the engine makes of a task is no more than the task.
LEMMA ReturnNarrower ==
  ASSUME NEW me \in TaskStates, me.seen = "unused", NEW res PROVE Narrower(me, Return(me, res))
<1>1. CASE me.kind = "apply"
  BY <1>1 DEF Return, Narrower, Idle
<1>2. CASE me.kind = "sweep"
  <2> DEFINE q == [Idle EXCEPT !.kind = "sweep", !.at = "match", !.items = me.items,
                               !.item = me.item, !.result = res]
  <2>1. /\ q.kind = "sweep" /\ q.at = "match" /\ q.items = me.items /\ q.item = me.item
        /\ q.seen = "unused"
    BY DEF Idle
  <2> HIDE DEF q
  <2>2. Narrower(me, q)
    BY <1>2, <2>1 DEF Narrower, ItemsOf
  <2> QED
    BY <1>2, <2>2 DEF Return, q
<1>3. CASE me.kind \notin {"apply", "sweep"}
  <2> DEFINE q == [me EXCEPT !.at = "write", !.result = res]
  <2>1. /\ q.kind = me.kind /\ q.at = "write" /\ q.items = me.items /\ q.item = me.item
        /\ q.seen = me.seen /\ q.lead = me.lead /\ q.app = me.app /\ q.due = me.due
    BY DEF TaskStates
  <2>2. Return(me, res) = q
    BY <1>3 DEF Return
  <2> HIDE DEF q
  <2> QED
    BY <2>1, <2>2 DEF Narrower, ItemsOf, LeadsOf
<1> QED
  BY <1>1, <1>2, <1>3

LEMMA NarrowerYet ==
  ASSUME NEW s, NEW r, NEW q, Narrower(s, r), Narrower(r, q) PROVE Narrower(s, q)
BY DEF Narrower

LEMMA EngineConsent ==
  ASSUME PipelineInv, ConsentInv, NEW t \in Tasks, NEW me, Asks(me), Narrower(task[t], me),
         Engine(t, me), UNCHANGED <<items, consent>>
  PROVE  ConsentInv'
<1>1. me \in TaskStates /\ me.seen = "unused"
  BY DEF Asks
<1>2. ASSUME NEW r, Become(t, r), Narrower(me, r) PROVE ConsentInv'
  BY <1>2, NarrowerYet, GoesOn
<1>3. ASSUME NEW res, Become(t, Return(me, res)) PROVE ConsentInv'
  BY <1>1, <1>2, <1>3, ReturnNarrower
<1>4. ASSUME Become(t, [me EXCEPT !.at = "send"]) PROVE ConsentInv'
  <2> DEFINE r == [me EXCEPT !.at = "send"]
  <2>1. /\ r.kind = me.kind /\ r.at = "send" /\ r.items = me.items /\ r.item = me.item
        /\ r.seen = me.seen /\ r.lead = me.lead /\ r.app = me.app /\ r.due = me.due
    BY <1>1 DEF TaskStates
  <2> HIDE DEF r
  <2>2. Narrower(me, r)
    BY <2>1 DEF Narrower, ItemsOf, LeadsOf
  <2> QED
    BY <1>2, <1>4, <2>2 DEF r
<1>5. ASSUME NEW a, Reusable(me.kind, apps[a].status),
             Become(t, [me EXCEPT !.at = "send", !.row = a, !.app = apps[a]])
      PROVE  ConsentInv'
  <2> DEFINE r == [me EXCEPT !.at = "send", !.row = a, !.app = apps[a]]
  <2>1. /\ r.kind = "sweep" /\ me.kind = "sweep" /\ r.at = "send" /\ r.items = me.items
        /\ r.item = me.item /\ r.seen = me.seen
    BY <1>1, <1>5 DEF TaskStates, Reusable
  <2> HIDE DEF r
  <2>2. Narrower(me, r)
    BY <1>1, <2>1 DEF Narrower, ItemsOf
  <2> QED
    BY <1>2, <1>5, <2>2 DEF r
<1>6. ASSUME Become(t, [me EXCEPT !.at = "send", !.app = Fresh(me.lead)]) PROVE ConsentInv'
  <2> DEFINE r == [me EXCEPT !.at = "send", !.app = Fresh(me.lead)]
  <2>1. /\ r.kind = me.kind /\ r.at = "send" /\ r.items = me.items /\ r.item = me.item
        /\ r.seen = me.seen /\ r.lead = me.lead /\ r.app.lead = me.lead /\ r.due = me.due
    BY <1>1 DEF TaskStates, Fresh
  <2> HIDE DEF r
  <2>2. Narrower(me, r)
    BY <2>1 DEF Narrower, ItemsOf, LeadsOf
  <2> QED
    BY <1>2, <1>6, <2>2 DEF r
<1> QED
  BY <1>3, <1>4, <1>5, <1>6 DEF Engine

LEMMA EngineCallsConsent ==
  ASSUME PipelineInv, ConsentInv, NEW t \in Tasks,
         \/ \E l \in Leads : StartApply(t, l)
         \/ \E i \in Items : SweepTakes(t, i)
         \/ Retry(t)
  PROVE  ConsentInv'
<1>1. UNCHANGED <<items, consent>>
  BY DEF StartApply, SweepTakes, Retry, rows, history
<1>2. ASSUME NEW l \in Leads, StartApply(t, l) PROVE ConsentInv'
  <2> DEFINE me == [Idle EXCEPT !.kind = "apply", !.lead = l]
  <2>1. me \in TaskStates /\ me.kind = "apply" /\ me.at = "idle" /\ me.seen = "unused"
    BY IdleTyped DEF TaskStates, Kinds, Idle
  <2>2. Asks(me)
    BY <2>1 DEF Asks, Idle, Fresh, Edits
  <2>3. Engine(t, me)
    BY <1>2 DEF StartApply
  <2> HIDE DEF me
  <2> QED
    BY <1>1, <2>1, <2>2, <2>3, NeedsNone, EngineConsent
<1>3. ASSUME NEW i \in Items, SweepTakes(t, i) PROVE ConsentInv'
  <2> DEFINE me == [task[t] EXCEPT !.items = @ \ {i}, !.item = i, !.lead = items[i].lead]
             thrown == [Return(me, "failed") EXCEPT !.at = "mark"]
  <2>1. /\ task[t] \in TaskStates /\ Sound(items, sent, staged, task[t])
        /\ task[t].kind = "sweep" /\ task[t].at = "next" /\ i \in task[t].items
        /\ Used(items, i)
    BY <1>3, SoundTask DEF SweepTakes, Sound, InHand
  <2>2. me \in TaskStates
    BY <2>1 DEF TaskStates, Used
  <2>3. /\ me.kind = "sweep" /\ me.item = i /\ me.lead = items[i].lead /\ me.at = "next"
        /\ me.items = task[t].items \ {i} /\ me.due = task[t].due /\ me.row = task[t].row
        /\ me.seen = task[t].seen /\ me.app = task[t].app
    BY <2>1 DEF TaskStates
  <2>4. Engine(t, me) \/ Become(t, thrown)
    BY <1>3 DEF SweepTakes
  <2> HIDE DEF me
  <2>5. Asks(me) /\ me.seen = "unused"
    BY <2>1, <2>2, <2>3 DEF Asks, Sound, InHand, Truthful, Used, Edits
  <2>6. Narrower(task[t], me)
    BY <2>1, <2>3, <2>5 DEF Narrower, ItemsOf
  <2>7. /\ thrown.kind = "sweep" /\ thrown.at = "mark" /\ thrown.items = me.items
        /\ thrown.item = me.item /\ thrown.seen = "unused"
    BY <2>3 DEF Return, Idle
  <2> HIDE DEF thrown
  <2>8. Narrower(me, thrown)
    BY <2>3, <2>7 DEF Narrower, ItemsOf
  <2> QED
    BY <1>1, <2>4, <2>5, <2>6, <2>8, NarrowerYet, EngineConsent, GoesOn
<1>4. ASSUME Retry(t) PROVE ConsentInv'
  <2>1. /\ task[t].at = "dedupe" /\ Engine(t, task[t])
        /\ Sound(items, sent, staged, task[t]) /\ task[t] \in TaskStates
    BY <1>4, SoundTask DEF Retry
  <2>2. Asks(task[t])
    BY <2>1 DEF Asks, Sound, InHand, Truthful, Engaged
  <2>3. Narrower(task[t], task[t])
    BY <2>1 DEF Narrower
  <2> QED
    BY <1>1, <2>1, <2>2, <2>3, EngineConsent
<1> QED
  BY <1>2, <1>3, <1>4

\* The steps of a submission, of a retry and of a follow-up touch neither items nor consent.
LEMMA SubmissionConsent ==
  ASSUME PipelineInv, HandInv, ConsentInv, NEW t \in Tasks,
         \/ Send(t) \/ SendUnrecorded(t) \/ SaveApp(t) \/ SaveAppFails(t)
         \/ SetLeadApplied(t) \/ SetLeadFails(t) \/ MatchFails(t)
         \/ SaveFollowUp(t) \/ SaveRetry(t)
         \/ \E e \in task[t].due : CountRetry(t, e[1], e[2])
  PROVE  ConsentInv'
<1>1. UNCHANGED <<items, consent>>
  BY DEF Send, SendUnrecorded, SaveApp, SaveAppFails, SaveResult, SetLeadApplied, SetLeadFails,
         MatchFails, SaveFollowUp, SaveRetry, CountRetry, rows, history
<1>2. task[t] \in TaskStates /\ Sound(items, sent, staged, task[t])
  BY SoundTask
<1>3. ASSUME NEW r, Become(t, r), r.kind = task[t].kind, r.at # "queue", r.items = task[t].items,
             r.item = task[t].item, r.seen = task[t].seen, LeadsOf(r) \subseteq LeadsOf(task[t])
      PROVE  ConsentInv'
  BY <1>1, <1>3, GoesOn DEF Narrower, ItemsOf
<1>4. ASSUME Send(t) \/ SendUnrecorded(t) PROVE ConsentInv'
  <2>1. PICK res : Become(t, [task[t] EXCEPT !.at = "save", !.result = res])
    BY <1>4 DEF Send, SendUnrecorded
  <2> DEFINE r == [task[t] EXCEPT !.at = "save", !.result = res]
  <2>2. /\ r.kind = task[t].kind /\ r.at = "save" /\ r.items = task[t].items
        /\ r.item = task[t].item /\ r.seen = task[t].seen /\ r.lead = task[t].lead
        /\ r.app = task[t].app /\ r.due = task[t].due
    BY <1>2 DEF TaskStates
  <2>3. Become(t, r)
    BY <2>1
  <2> HIDE DEF r
  <2> QED
    BY <1>3, <2>2, <2>3 DEF LeadsOf
<1>5. ASSUME NEW st \in Results \ {"killed"}, SaveResult(t, st), task[t].at \in {"save", "lead"}
      PROVE  ConsentInv'
  <2>1. PICK a \in IF task[t].row = 0 THEN Free(apps) ELSE {task[t].row} :
          LET app == [task[t].app EXCEPT !.status = st, !.final = FALSE]
              me  == [task[t] EXCEPT !.row = a, !.app = app]
          IN  Become(t, IF st = "submitted" THEN [me EXCEPT !.at = "lead"] ELSE Return(me, st))
    BY <1>5 DEF SaveResult
  <2> DEFINE app == [task[t].app EXCEPT !.status = st, !.final = FALSE]
             me  == [task[t] EXCEPT !.row = a, !.app = app]
             r   == [me EXCEPT !.at = "lead"]
  <2>2. task[t].seen = "unused"
    BY <1>2, <1>5 DEF Sound, InHand, Engaged
  <2>3. app \in AppRows /\ app.lead = task[t].app.lead
    BY <1>2 DEF TaskStates, AppRows, AppStatus, Results
  <2>4. a \in Apps
    BY <1>2 DEF Free, PipelineInv, TypeOK, TaskStates
  <2>5. Become(t, r) \/ Become(t, Return(me, st))
    BY <2>1
  <2> HIDE DEF app
  <2>6. /\ me \in TaskStates /\ me.kind = task[t].kind /\ me.items = task[t].items
        /\ me.item = task[t].item /\ me.seen = "unused" /\ me.lead = task[t].lead
        /\ me.app = app /\ me.due = task[t].due /\ me.at = task[t].at
    BY <1>2, <2>2, <2>3, <2>4 DEF TaskStates
  <2> HIDE DEF me
  <2>7. /\ r.kind = me.kind /\ r.items = me.items /\ r.item = me.item /\ r.at = "lead"
        /\ r.seen = me.seen /\ r.lead = me.lead /\ r.app = me.app /\ r.due = me.due
    BY <2>6 DEF TaskStates
  <2> HIDE DEF r
  <2>8. Narrower(task[t], me) /\ Narrower(me, r)
    BY <1>5, <2>2, <2>3, <2>6, <2>7 DEF Narrower, ItemsOf, LeadsOf
  <2>9. Narrower(me, Return(me, st))
    BY <2>6, ReturnNarrower
  <2> QED
    BY <1>1, <2>5, <2>8, <2>9, NarrowerYet, GoesOn
<1>6. ASSUME SaveApp(t) PROVE ConsentInv'
  <2>1. task[t].result \in Results \ {"killed"}
    BY <1>2, <1>6 DEF SaveApp, Sound, InHand
  <2> QED
    BY <1>5, <1>6, <2>1 DEF SaveApp
<1>7. ASSUME SaveAppFails(t) \/ SetLeadFails(t) PROVE ConsentInv'
  <2>1. "failed" \in Results \ {"killed"}
    BY DEF Results
  <2> QED
    BY <1>5, <1>7, <2>1 DEF SaveAppFails, SetLeadFails
<1>8. ASSUME SetLeadApplied(t) PROVE ConsentInv'
  <2>1. task[t].seen = "unused" /\ Become(t, Return(task[t], "submitted"))
    BY <1>2, <1>8 DEF SetLeadApplied, Sound, InHand, Engaged
  <2> QED
    BY <1>1, <1>2, <2>1, ReturnNarrower, GoesOn
<1>9. ASSUME MatchFails(t) PROVE ConsentInv'
  <2> DEFINE r == [task[t] EXCEPT !.at = "mark", !.result = "failed"]
  <2>1. /\ r.kind = task[t].kind /\ r.at = "mark" /\ r.items = task[t].items
        /\ r.item = task[t].item /\ r.seen = task[t].seen /\ r.lead = task[t].lead
        /\ r.app = task[t].app /\ r.due = task[t].due
    BY <1>2 DEF TaskStates
  <2>2. Become(t, r)
    BY <1>9 DEF MatchFails
  <2> HIDE DEF r
  <2> QED
    BY <1>3, <2>1, <2>2 DEF LeadsOf
<1>10. ASSUME SaveFollowUp(t) PROVE ConsentInv'
  <2>1. Become(t, Idle) /\ Narrower(task[t], Idle)
    BY <1>10 DEF SaveFollowUp, Narrower, Idle
  <2> QED
    BY <1>1, <2>1, GoesOn
<1>11. ASSUME SaveRetry(t) PROVE ConsentInv'
  <2> DEFINE q == [Idle EXCEPT !.kind = "tick", !.at = "next", !.due = task[t].due]
  <2>1. \/ Become(t, Idle)
        \/ task[t].due # {} /\ Become(t, q)
    BY <1>11 DEF SaveRetry
  <2>2. Narrower(task[t], Idle)
    BY DEF Narrower, Idle
  <2>3. ASSUME task[t].due # {} PROVE Narrower(task[t], q)
    <3>1. task[t].kind = "tick"
      BY <2>3 DEF HandInv, KeepsCopies
    <3>2. /\ q.kind = "tick" /\ q.at = "next" /\ q.seen = "unused" /\ q.due = task[t].due
          /\ q.lead = NoLead /\ q.app.lead = NoLead
      BY DEF Idle, Fresh
    <3> HIDE DEF q
    <3>3. LeadsOf(q) \subseteq LeadsOf(task[t])
      BY <3>2 DEF LeadsOf
    <3> QED
      BY <3>1, <3>2, <3>3 DEF Narrower
  <2> HIDE DEF q
  <2> QED
    BY <1>1, <2>1, <2>2, <2>3, GoesOn
<1>12. ASSUME NEW a, NEW read, CountRetry(t, a, read) PROVE ConsentInv'
  <2> DEFINE app == [read EXCEPT !.retries = @ + 1]
             r   == [task[t] EXCEPT !.at = "dedupe", !.due = @ \ {<<a, read>>},
                                    !.lead = app.lead, !.row = a, !.app = app]
  <2>1. <<a, read>> \in task[t].due /\ read \in AppRows
    <3>1. <<a, read>> \in task[t].due
      BY <1>12 DEF CountRetry
    <3>2. <<a, read>> \in Apps \X AppRows
      BY <1>2, <3>1 DEF TaskStates
    <3> QED
      BY <3>1, <3>2
  <2>2. app.lead = read.lead
    BY <2>1 DEF AppRows
  <2>3. Become(t, r)
    BY <1>12 DEF CountRetry
  <2> HIDE DEF app
  <2>4. /\ r.kind = task[t].kind /\ r.at = "dedupe" /\ r.items = task[t].items
        /\ r.item = task[t].item /\ r.seen = task[t].seen /\ r.lead = read.lead
        /\ r.app.lead = read.lead /\ r.due = task[t].due \ {<<a, read>>}
    BY <1>2, <2>2 DEF TaskStates
  <2> HIDE DEF r
  <2>5. LeadsOf(r) \subseteq LeadsOf(task[t])
    <3>1. <<a, read>>[2] = read
      OBVIOUS
    <3> QED
      BY <2>1, <2>4, <3>1 DEF LeadsOf
  <2> QED
    BY <1>3, <2>3, <2>4, <2>5
<1>13. ASSUME NEW e \in task[t].due, CountRetry(t, e[1], e[2]) PROVE ConsentInv'
  BY <1>12, <1>13
<1> QED
  BY <1>4, <1>6, <1>7, <1>8, <1>9, <1>10, <1>11, <1>13

LEMMA ConsentInvStep == PipelineInv /\ HandInv /\ ConsentInv /\ [Next]_vars => ConsentInv'
<1> SUFFICES ASSUME PipelineInv, HandInv, ConsentInv, [Next]_vars PROVE ConsentInv'
  OBVIOUS
<1>1. CASE UNCHANGED vars
  <2>1. UNCHANGED <<items, task, consent, shared>>
    BY <1>1 DEF vars, rows, history
  <2> QED
    BY <2>1 DEF ConsentInv, Consented, OffQueue, ItemsOf, LeadsOf, Queued
<1>2. ASSUME NEW t \in Tasks, Proceed(t) PROVE ConsentInv'
  BY <1>2, FreshStarts, ConsentStarts, PreparedConsent, SaveEditConsent, SweepConsent,
     EngineCallsConsent, SubmissionConsent
  DEF Proceed
<1>3. ASSUME NEW t \in Tasks,
             \/ \E l \in Leads : StartPrepare(t, l) \/ StartApply(t, l)
             \/ \E i \in Items, op \in Edits : StartEdit(t, op, i)
             \/ \E a \in Apps : StartFollowUp(t, a)
             \/ StartLoop(t) \/ StartSweep(t) \/ StartTick(t)
             \/ SendUnrecorded(t) \/ SaveAppFails(t) \/ SetLeadFails(t) \/ MatchFails(t)
      PROVE  ConsentInv'
  BY <1>3, FreshStarts, ConsentStarts, EngineCallsConsent, SubmissionConsent
<1>4. ASSUME NEW a \in Apps, MarkSuccess(a) PROVE ConsentInv'
  BY <1>4 DEF MarkSuccess, ConsentInv, Consented, OffQueue, ItemsOf, LeadsOf, Queued
<1>5. ASSUME Crash PROVE ConsentInv'
  BY <1>5 DEF Crash, ConsentInv, Consented, OffQueue, Idle
<1> QED
  BY <1>1, <1>2, <1>3, <1>4, <1>5 DEF Next

LEMMA ConsentInvInit == Init => ConsentInv
BY DEF Init, ConsentInv, Consented, OffQueue, Idle

(***************************************************************************)
(* Nothing goes out that was not approved, or that is still in the queue: a   *)
(* sweep submits items whose approval stands, a retry submits no queued lead  *)
(* unless that lead was in two hands.  ConsentInv holds it from the moment a   *)
(* task reads what it will work on, although the items are edited meanwhile.  *)
(***************************************************************************)
THEOREM ConsentIsAsked == Spec => SendsHaveConsent
<1>1. PipelineInv /\ ConsentInv =>
        [\A t \in Tasks : task[t].at = "send" /\ task'[t].at = "save"
                          /\ task'[t].result = "submitted"
           => CASE task[t].kind = "sweep" -> task[t].item \in consent
                [] task[t].kind = "tick"  -> \/ task[t].lead \in shared
                                             \/ \A i \in Items : items[i].lead # task[t].lead
                [] OTHER                  -> TRUE]_vars
  <2> SUFFICES ASSUME PipelineInv, ConsentInv, NEW t \in Tasks, task[t].at = "send"
               PROVE  /\ task[t].kind = "sweep" => task[t].item \in consent
                      /\ task[t].kind = "tick" /\ task[t].lead \notin shared
                           => \A i \in Items : items[i].lead # task[t].lead
    OBVIOUS
  <2>1. /\ Consented(task[t]) /\ OffQueue(task[t])
        /\ task[t].lead \in Leads /\ task[t].lead \in LeadsOf(task[t])
    <3>1. task[t].lead \in Leads
      BY SoundTask DEF Sound, InHand, Engaged
    <3> QED
      BY <3>1, InItsHands, Numbers DEF ConsentInv
  <2>2. task[t].kind = "sweep" => task[t].item \in ItemsOf(task[t])
    <3>1. task[t].kind = "sweep" => task[t].item \in Items
      BY SoundTask DEF Sound, InHand, Engaged, Used
    <3> QED
      BY <3>1, Numbers DEF ItemsOf
  <2> QED
    BY <2>1, <2>2 DEF Consented, OffQueue, Queued
<1> QED
  BY PipelineInvInit, PipelineInvStep, HandInvInit, HandInvStep, ConsentInvInit, ConsentInvStep,
     <1>1, PTL DEF Spec, SendsHaveConsent
=============================================================================
