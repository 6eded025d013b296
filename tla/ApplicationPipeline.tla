------------------------- MODULE ApplicationPipeline -------------------------
(***************************************************************************)
(* How a job application leaves the house: the pre-apply queue, the sweep   *)
(* that submits what the user approved, the retry tick, the manual apply    *)
(* endpoint, and the engine (submitPrepared, applyToLead) they all call.    *)
(*                                                                         *)
(* Everything runs in one process, but a submission takes minutes (mail,    *)
(* headless browser, portal), the timers do not wait for one another and    *)
(* nothing is locked.  The engine decides from the newest application row   *)
(* of the lead, sends, and writes the row only afterwards: while it sends,  *)
(* no row says so.  TypeORM's save writes every column of an object that    *)
(* differs from the table, so an object read earlier takes the row back.    *)
(*                                                                         *)
(* What the portals, the mail server and the gates (settings, daily cap,    *)
(* profile, qualification, adaptation) answer is left open.  So is the      *)
(* block on submissions (isSubmissionBlocked): a request may turn it on and *)
(* off between any two of its reads, and the engine reads it more than once.*)
(***************************************************************************)
EXTENDS Integers, FiniteSets

CONSTANTS
  Leads,
  NoLead,
  Tasks,        \* requests and timer callbacks that may be in flight at once
  MaxItems,     \* bound on the queue items ever made
  MaxApps,      \* bound on the application rows (maxPerPortal is such a bound)
  MaxRetries,   \* BACKOFF_STEPS_MS.length
  MaxFaults     \* bound on crashes and on writes that fail

ASSUME PipelineAssumption ==
  /\ NoLead \notin Leads
  /\ {MaxItems, MaxApps, MaxRetries, MaxFaults} \subseteq Nat

VARIABLES
  items,     \* pre_apply_items; identifiers grow with createdAt
  apps,      \* applications; the same
  applied,   \* leads with status 'applied'
  running,   \* AutoApplyLoop.running
  task,
  sent,      \* history: submissions made, per lead (2: or more), as far as mail server,
             \* browser and portal adapter can tell
  staged,    \* history: leads of which nothing went out, though a task was told that a
             \* submission had been left out for the sandbox
  attempts,  \* history: automatic retries, per row
  consent,   \* history: items approved, and not put on hold since by an edit that had
             \* the item to itself
  shared,    \* history: leads that two tasks had in hand at once
  mishap,    \* history: leads with a fault during a submission, a second row, or a row
             \* marked as applied by hand
  faults

rows    == <<items, apps, applied, running>>
history == <<sent, staged, attempts, consent, mishap, faults>>
vars    == <<rows, task, shared, history>>

Items  == 1..MaxItems
Apps   == 1..MaxApps

ItemStatus == {"unused", "ready", "approved", "hold", "sent", "failed"}
AppStatus  == {"unused", "failed", "needs_info", "submitted", "sandboxed", "applied"}
Results    == {"submitted", "sandboxed", "needs_info", "failed", "killed"}

ItemRows == [lead: Leads \cup {NoLead}, status: ItemStatus]

\* final: the errorDetail matches one of the permanent failures of the retry tick.
AppRows  == [lead: Leads \cup {NoLead}, status: AppStatus, retries: 0..MaxRetries,
             final: BOOLEAN]
Fresh(l) == [lead |-> l, status |-> "unused", retries |-> 0, final |-> FALSE]

Edits    == {"approve", "hold", "resume", "uploadCv"}
Kinds    == {"none", "prepare", "loop", "sweep", "tick", "apply", "followUp"} \cup Edits
Steps    == {"idle", "saving", "preparing", "next", "queue", "dedupe", "send", "save", "lead",
             "match", "matched", "mark", "write"}

\* A task: what it has still to do (leads, items, or rows with the objects read from
\* them) and what it has in hand.
TaskStates ==
  [kind: Kinds, at: Steps,
   leads: SUBSET Leads, items: SUBSET Items, due: SUBSET (Apps \X AppRows),
   lead: Leads \cup {NoLead}, item: Items \cup {0}, row: Apps \cup {0}, app: AppRows,
   result: Results \cup {"none"}, seen: ItemStatus]

Idle == [kind |-> "none", at |-> "idle", leads |-> {}, items |-> {}, due |-> {},
         lead |-> NoLead, item |-> 0, row |-> 0, app |-> Fresh(NoLead),
         result |-> "none", seen |-> "unused"]

\* Rows are numbered in the order of their creation.
Free(table) == {id \in DOMAIN table : /\ table[id].status = "unused"
                                      /\ \A j \in 1..(id - 1) : table[j].status # "unused"}

\* findByLead: the newest row of the lead, none of them if there is none.
Newest(table, l) == {id \in DOMAIN table :
                       /\ table[id].lead = l
                       /\ \A j \in DOMAIN table : table[j].lead = l => j <= id}

\* What a task decides about, or holds an object of.
LeadsOf(r) == ({r.lead, r.app.lead} \cup {e[2].lead : e \in r.due}) \ {NoLead}
ItemsOf(r) == ({r.item} \cup r.items) \ {0}

Queued(l) == \E i \in Items : items[i].lead = l

\* Task t becomes r; the leads it shares with another task are noted.
SharedBy(t, r) == {l \in LeadsOf(r) : \E u \in Tasks \ {t} : l \in LeadsOf(task[u])}
Become(t, r) ==
  /\ task' = [task EXCEPT ![t] = r]
  /\ shared' = shared \cup SharedBy(t, r)

\* repo.save of an application object: all its columns.
Store(a, app) == apps' = [apps EXCEPT ![a] = app]
-----------------------------------------------------------------------------
Init ==
  /\ items = [i \in Items |-> [lead |-> NoLead, status |-> "unused"]]
  /\ apps = [a \in Apps |-> Fresh(NoLead)]
  /\ applied = {} /\ running = FALSE
  /\ task = [t \in Tasks |-> Idle]
  /\ sent = [l \in Leads |-> 0] /\ staged = {}
  /\ attempts = [a \in Apps |-> 0]
  /\ consent = {} /\ shared = {} /\ mishap = {}
  /\ faults = 0
-----------------------------------------------------------------------------
(* The queue: prepare, from the page or the hourly loop, and the user's edits. *)

CanPrepare(l) == \A i \in Newest(items, l) : items[i].status = "failed"

StartPrepare(t, l) ==
  /\ task[t] = Idle
  /\ CanPrepare(l)
  /\ Become(t, [Idle EXCEPT !.kind = "prepare", !.at = "preparing", !.lead = l])
  /\ UNCHANGED <<rows, history>>

StartLoop(t) ==
  /\ task[t] = Idle
  /\ ~running
  /\ running' = TRUE
  /\ Become(t, [Idle EXCEPT !.kind = "loop", !.at = "next", !.leads = Leads \ applied])
  /\ UNCHANGED <<items, apps, applied, history>>

LoopTakes(t, l) ==
  /\ task[t].kind = "loop" /\ task[t].at = "next"
  /\ l \in task[t].leads
  /\ LET me == [task[t] EXCEPT !.leads = @ \ {l}]
     IN  Become(t, IF CanPrepare(l) THEN [me EXCEPT !.at = "preparing", !.lead = l] ELSE me)
  /\ UNCHANGED <<rows, history>>

NewItem(l) == [lead |-> l, status |-> "ready"]

\* prepareApplication refuses or throws, or the item is created.  A lead that enters the
\* queue between the two reads of a tick is noted as shared.
Prepared(t) ==
  /\ task[t].at = "preparing"
  /\ \/ UNCHANGED items
     \/ \E i \in Free(items) :
          items' = [items EXCEPT ![i] = NewItem(task[t].lead)]
  /\ task' = [task EXCEPT ![t] = IF task[t].kind = "loop"
                                 THEN [task[t] EXCEPT !.at = "next", !.lead = NoLead]
                                 ELSE Idle]
  /\ shared' = shared \cup {task[t].lead : u \in {v \in Tasks : task[v].at = "queue"}}
  /\ UNCHANGED <<apps, applied, running, history>>

LoopEnds(t) ==
  /\ task[t].kind = "loop" /\ task[t].at = "next" /\ task[t].leads = {}
  /\ running' = FALSE
  /\ Become(t, Idle)
  /\ UNCHANGED <<items, apps, applied, history>>

\* Which edits an item admits, and the status that is saved with the item read.
Admits(op, status) == CASE op = "resume"            -> status = "hold"
                        [] op \in {"approve", "hold"} -> status # "sent"
                        [] op = "uploadCv"          -> TRUE
Edited(op, status) == CASE op = "approve"  -> "approved"
                        [] op = "hold"     -> "hold"
                        [] op = "resume"   -> "ready"
                        [] op = "uploadCv" -> status

StartEdit(t, op, i) ==
  /\ task[t] = Idle
  /\ items[i].status # "unused"
  /\ Admits(op, items[i].status)
  /\ Become(t, [Idle EXCEPT !.kind = op, !.at = "saving", !.item = i,
                            !.seen = Edited(op, items[i].status)])
  /\ UNCHANGED <<rows, history>>

SaveEdit(t) ==
  /\ task[t].kind \in Edits
  /\ items' = [items EXCEPT ![task[t].item].status = task[t].seen]
  /\ consent' = CASE task[t].kind = "approve" -> consent \cup {task[t].item}
                  [] task[t].kind = "hold"    -> consent \ {i \in {task[t].item} :
                       \A u \in Tasks \ {t} : i \notin ItemsOf(task[u])}
                  [] OTHER                    -> consent
  /\ Become(t, Idle)
  /\ UNCHANGED <<apps, applied, running, sent, staged, attempts, mishap, faults>>
-----------------------------------------------------------------------------
(* The engine: the deduplication and the gates, the submission, the record.     *)

\* The statuses that stop submitPrepared, and applyToLead.
Blocks(kind, status) ==
  IF kind = "sweep" THEN status \in {"submitted", "sandboxed"} ELSE status # "failed"

\* The row a sweep writes over instead of inserting one.
Reusable(kind, status) == kind = "sweep" /\ status \in {"failed", "needs_info"}

\* What happens once the engine has answered.
Return(me, result) ==
  CASE me.kind = "apply" -> Idle
    [] me.kind = "sweep" -> [Idle EXCEPT !.kind = "sweep", !.at = "match", !.items = me.items,
                                         !.item = me.item, !.result = result]
    [] OTHER             -> [me EXCEPT !.at = "write", !.result = result]

Inserting == {t \in Tasks : task[t].at \in {"send", "save"} /\ task[t].row = 0}
Room      == Cardinality(Inserting) < Cardinality({a \in Apps : apps[a].status = "unused"})

\* Task t becomes me and asks the engine to submit me.lead; a retry brings the failed row
\* and its object.
Engine(t, me) ==
  LET newest  == Newest(apps, me.lead)
      blocked == \E a \in newest : Blocks(me.kind, apps[a].status)
      reused  == {a \in newest : Reusable(me.kind, apps[a].status)}
  IN
  \/ \* refused here or by one of the gates that follow
     \E r \in {"needs_info"} \cup {x \in {"failed", "killed"} : ~blocked} :
       Become(t, Return(me, r))
  \/ /\ ~blocked
     /\ \/ me.row # 0 /\ Become(t, [me EXCEPT !.at = "send"])
        \/ \E a \in reused :
             Become(t, [me EXCEPT !.at = "send", !.row = a, !.app = apps[a]])
        \/ /\ me.row = 0 /\ reused = {} /\ Room
           /\ Become(t, [me EXCEPT !.at = "send", !.app = Fresh(me.lead)])

GoesOut(l) == /\ sent' = [sent EXCEPT ![l] = IF @ < 2 THEN @ + 1 ELSE @]
              /\ staged' = staged \ {l}
LeftOut(l) == /\ staged' = IF sent[l] = 0 THEN staged \cup {l} ELSE staged
              /\ UNCHANGED sent

\* The block was turned on after the gate had let the lead through, and the engine or the
\* portal adapter stops short of the submission; or the mail server, the browser or the
\* adapter answers, none of them with killed.
Send(t) ==
  /\ task[t].at = "send"
  /\ \E r \in Results \ {"killed"} :
       /\ Become(t, [task[t] EXCEPT !.at = "save", !.result = r])
       /\ CASE r = "submitted" -> GoesOut(task[t].lead)
            [] r = "sandboxed" -> LeftOut(task[t].lead)
            [] OTHER           -> UNCHANGED <<sent, staged>>
  /\ UNCHANGED <<rows, attempts, consent, mishap, faults>>

Fault(l) == /\ faults < MaxFaults
            /\ faults' = faults + 1
            /\ mishap' = mishap \cup {l}

\* The mail has left, the mailbox row cannot be saved, and send() reports a failure.
SendUnrecorded(t) ==
  /\ task[t].at = "send"
  /\ Fault(task[t].lead)
  /\ GoesOut(task[t].lead)
  /\ Become(t, [task[t] EXCEPT !.at = "save", !.result = "failed"])
  /\ UNCHANGED <<rows, attempts, consent>>

\* The row is inserted, or the object is written over it.
SaveResult(t, status) ==
  /\ \E a \in IF task[t].row = 0 THEN Free(apps) ELSE {task[t].row} :
       LET app == [task[t].app EXCEPT !.status = status, !.final = FALSE]
           me  == [task[t] EXCEPT !.row = a, !.app = app]
       IN  /\ Store(a, app)
           /\ Become(t, IF status = "submitted" THEN [me EXCEPT !.at = "lead"]
                        ELSE Return(me, status))
  /\ UNCHANGED <<items, applied, running, sent, staged, attempts, consent>>

SecondRow(t) == task[t].row = 0 /\ \E a \in Apps : apps[a].lead = task[t].lead

SaveApp(t) ==
  /\ task[t].at = "save"
  /\ SaveResult(t, task[t].result)
  /\ mishap' = IF SecondRow(t) THEN mishap \cup {task[t].lead} ELSE mishap
  /\ UNCHANGED faults

\* The save throws, and the catch clause saves a failure.
SaveAppFails(t) ==
  /\ task[t].at = "save"
  /\ Fault(task[t].lead)
  /\ SaveResult(t, "failed")

SetLeadApplied(t) ==
  /\ task[t].at = "lead"
  /\ applied' = applied \cup {task[t].lead}
  /\ Become(t, Return(task[t], "submitted"))
  /\ UNCHANGED <<items, apps, running, history>>

\* The lead cannot be updated; the same catch clause turns the submission into a failure.
SetLeadFails(t) ==
  /\ task[t].at = "lead"
  /\ Fault(task[t].lead)
  /\ SaveResult(t, "failed")
-----------------------------------------------------------------------------
(* MuhurtaSendService.sweep: the approved items, one after the other, as they   *)
(* were when the sweep began.                                                  *)

StartSweep(t) ==
  LET approved == {i \in Items : items[i].status = "approved"} IN
  /\ task[t] = Idle
  /\ approved # {}
  /\ Become(t, [Idle EXCEPT !.kind = "sweep", !.at = "next", !.items = approved])
  /\ UNCHANGED <<rows, history>>

SweepTakes(t, i) ==
  /\ task[t].kind = "sweep" /\ task[t].at = "next"
  /\ i \in task[t].items
  /\ LET me == [task[t] EXCEPT !.items = @ \ {i}, !.item = i, !.lead = items[i].lead]
     IN  \/ Engine(t, me)
         \/ Become(t, [Return(me, "failed") EXCEPT !.at = "mark"])  \* a gate throws
  /\ UNCHANGED <<rows, history>>

\* recordMuhurtaMatch reads the item and saves it with the score.
ReadMatch(t) ==
  /\ task[t].at = "match"
  /\ Become(t, [task[t] EXCEPT !.at = "matched", !.seen = items[task[t].item].status])
  /\ UNCHANGED <<rows, history>>

SaveMatch(t) ==
  /\ task[t].at = "matched"
  /\ items' = [items EXCEPT ![task[t].item].status = task[t].seen]
  /\ Become(t, [task[t] EXCEPT !.at = "mark", !.seen = "unused"])
  /\ UNCHANGED <<apps, applied, running, history>>

\* The score cannot be recorded, and the item counts as failed whatever was submitted.
MatchFails(t) ==
  /\ task[t].at = "match"
  /\ Fault(items[task[t].item].lead)
  /\ Become(t, [task[t] EXCEPT !.at = "mark", !.result = "failed"])
  /\ UNCHANGED <<rows, sent, staged, attempts, consent>>

\* Slip: whatever the engine did not refuse as failed counts as sent.
MarkOptimistic(t) ==
  /\ task[t].at = "mark"
  /\ items' = [items EXCEPT ![task[t].item].status =
                 IF task[t].result \notin {"failed", "killed"} THEN "sent" ELSE "failed"]
  /\ Become(t, IF task[t].items = {} THEN Idle
               ELSE [Idle EXCEPT !.kind = "sweep", !.at = "next", !.items = task[t].items])
  /\ UNCHANGED <<apps, applied, running, history>>

\* markSent, also of a submission left out for the sandbox, or markFailed; they read the
\* item too, but write its status whatever it was.
Mark(t) ==
  /\ task[t].at = "mark"
  /\ items' = [items EXCEPT ![task[t].item].status =
                 IF task[t].result \in {"submitted", "sandboxed"} THEN "sent" ELSE "failed"]
  /\ Become(t, IF task[t].items = {} THEN Idle
               ELSE [Idle EXCEPT !.kind = "sweep", !.at = "next", !.items = task[t].items])
  /\ UNCHANGED <<apps, applied, running, history>>
-----------------------------------------------------------------------------
(* RetryBackoffService.tick: every minute, also while another is at work.      *)

\* Slip: the tick does not look at the queue.
StartTickUngoverned(t) ==
  /\ task[t] = Idle
  /\ Become(t, [Idle EXCEPT !.kind = "tick", !.at = "queue"])
  /\ UNCHANGED <<rows, history>>

\* First the leads that are in the queue, which it will leave alone.
StartTick(t) ==
  /\ task[t] = Idle
  /\ Become(t, [Idle EXCEPT !.kind = "tick", !.at = "queue",
                            !.leads = {l \in Leads : Queued(l)}])
  /\ UNCHANGED <<rows, history>>

Due(a) == /\ apps[a].status = "failed" /\ apps[a].retries < MaxRetries
          /\ ~apps[a].final

\* Any of the due rows may have waited long enough.
ReadDue(t) ==
  /\ task[t].at = "queue"
  /\ \E due \in SUBSET {a \in Apps : Due(a) /\ apps[a].lead \notin task[t].leads} :
       Become(t, IF due = {} THEN Idle
                 ELSE [Idle EXCEPT !.kind = "tick", !.at = "next",
                                   !.due = {<<a, apps[a]>> : a \in due}])
  /\ UNCHANGED <<rows, history>>

\* Slip: the retry is counted in memory, and saved with its result.
CountRetryLater(t, a, read) ==
  LET app == [read EXCEPT !.retries = @ + 1] IN
  /\ task[t].kind = "tick" /\ task[t].at = "next"
  /\ <<a, read>> \in task[t].due
  /\ attempts' = [attempts EXCEPT ![a] = IF @ <= MaxRetries THEN @ + 1 ELSE @]
  /\ Become(t, [task[t] EXCEPT !.at = "dedupe", !.due = @ \ {<<a, read>>},
                               !.lead = app.lead, !.row = a, !.app = app])
  /\ UNCHANGED <<items, apps, applied, running, sent, staged, consent, mishap, faults>>

\* "persist first so a crash can't loop"
CountRetry(t, a, read) ==
  LET app == [read EXCEPT !.retries = @ + 1] IN
  /\ task[t].kind = "tick" /\ task[t].at = "next"
  /\ <<a, read>> \in task[t].due
  /\ Store(a, app)
  /\ attempts' = [attempts EXCEPT ![a] = IF @ <= MaxRetries THEN @ + 1 ELSE @]
  /\ Become(t, [task[t] EXCEPT !.at = "dedupe", !.due = @ \ {<<a, read>>},
                               !.lead = app.lead, !.row = a, !.app = app])
  /\ UNCHANGED <<items, applied, running, sent, staged, consent, mishap, faults>>

Retry(t) ==
  /\ task[t].at = "dedupe"
  /\ Engine(t, task[t])
  /\ UNCHANGED <<rows, history>>

\* Slip: the engine gets a copy of the row, and the tick saves its own object.
SaveRetryOfCopy(t) ==
  LET me == task[t] IN
  /\ me.at = "write"
  /\ Store(me.row, [me.app EXCEPT !.status = "failed", !.final = me.result = "killed"])
  /\ Become(t, IF me.result = "submitted" \/ me.due = {} THEN Idle
               ELSE [Idle EXCEPT !.kind = "tick", !.at = "next", !.due = me.due])
  /\ UNCHANGED <<items, applied, running, history>>

\* The engine's answer is saved again; a submission ends the tick.
SaveRetry(t) ==
  LET me     == task[t]
      status == IF me.result = "killed" THEN "failed" ELSE me.result
  IN
  /\ me.at = "write"
  /\ Store(me.row, [me.app EXCEPT !.status = status, !.final = me.result = "killed"])
  /\ Become(t, IF me.result = "submitted" \/ me.due = {} THEN Idle
               ELSE [Idle EXCEPT !.kind = "tick", !.at = "next", !.due = me.due])
  /\ UNCHANGED <<items, applied, running, history>>
-----------------------------------------------------------------------------
(* POST applications/apply/:leadId, the two edits of an application row, time   *)
(* and crashes.                                                                *)

StartApply(t, l) ==
  /\ task[t] = Idle
  /\ Engine(t, [Idle EXCEPT !.kind = "apply", !.lead = l])
  /\ UNCHANGED <<rows, history>>

\* mark-success, and retry, which marks as well: the owner applied by hand.
MarkSuccess(a) ==
  /\ apps[a].status \notin {"unused", "applied"}
  /\ Store(a, [apps[a] EXCEPT !.status = "applied"])
  /\ mishap' = mishap \cup {apps[a].lead}
  /\ UNCHANGED <<items, applied, running, task, shared, sent, staged, attempts, consent,
                 faults>>

\* follow-up adds a note, and saves the whole row it read.
StartFollowUp(t, a) ==
  /\ task[t] = Idle
  /\ apps[a].status # "unused"
  /\ Become(t, [Idle EXCEPT !.kind = "followUp", !.at = "saving", !.row = a, !.app = apps[a]])
  /\ UNCHANGED <<rows, history>>

SaveFollowUp(t) ==
  /\ task[t].kind = "followUp"
  /\ Store(task[t].row, task[t].app)
  /\ Become(t, Idle)
  /\ UNCHANGED <<items, applied, running, history>>

Crash ==
  /\ faults < MaxFaults
  /\ faults' = faults + 1
  /\ \E t \in Tasks : task[t] # Idle
  /\ mishap' = mishap \cup UNION {{task[t].lead} \ {NoLead} : t \in Tasks}
  /\ task' = [t \in Tasks |-> Idle]
  /\ running' = FALSE
  /\ UNCHANGED <<items, apps, applied, sent, staged, attempts, consent, shared>>
-----------------------------------------------------------------------------
Proceed(t) ==
  \/ \E l \in Leads : LoopTakes(t, l)
  \/ Prepared(t) \/ LoopEnds(t) \/ SaveEdit(t) \/ SaveFollowUp(t)
  \/ Retry(t) \/ Send(t) \/ SaveApp(t) \/ SetLeadApplied(t)
  \/ \E i \in Items : SweepTakes(t, i)
  \/ ReadMatch(t) \/ SaveMatch(t) \/ Mark(t)
  \/ ReadDue(t) \/ SaveRetry(t)
  \/ \E e \in task[t].due : CountRetry(t, e[1], e[2])

Next ==
  \/ \E t \in Tasks :
       \/ \E l \in Leads : StartPrepare(t, l) \/ StartApply(t, l)
       \/ \E i \in Items, op \in Edits : StartEdit(t, op, i)
       \/ \E a \in Apps : StartFollowUp(t, a)
       \/ StartLoop(t) \/ StartSweep(t) \/ StartTick(t)
       \/ Proceed(t)
       \/ SendUnrecorded(t) \/ SaveAppFails(t) \/ SetLeadFails(t)
       \/ MatchFails(t)
  \/ \E a \in Apps : MarkSuccess(a)
  \/ Crash

Spec == Init /\ [][Next]_vars
-----------------------------------------------------------------------------
(* Properties *)

\* Every variable keeps its kind and every counter its range, the retries of a row among
\* them.
TypeOK ==
  /\ items \in [Items -> ItemRows]
  /\ apps \in [Apps -> AppRows]
  /\ applied \subseteq Leads /\ running \in BOOLEAN
  /\ task \in [Tasks -> TaskStates]
  /\ sent \in [Leads -> 0..2]
  /\ attempts \in [Apps -> 0..(MaxRetries + 1)]
  /\ staged \subseteq Leads /\ consent \subseteq Items
  /\ shared \subseteq Leads /\ mishap \subseteq Leads
  /\ faults \in 0..MaxFaults

(***************************************************************************)
(* "DEDUPE (user rule): never re-apply to the same portal job id": a lead    *)
(* is submitted at most once, whatever the user, the sweep, the tick and the *)
(* endpoint do in turn, unless two of them had it in hand at once, a fault   *)
(* fell between sending and recording, it got a second row, or a row of it   *)
(* was marked as applied by hand (submitPrepared does not know that status). *)
(***************************************************************************)
NeverReapply == \A l \in Leads \ (shared \cup mishap) : sent[l] <= 1

(***************************************************************************)
(* "max 4 attempts", "persist first so a crash can't loop": a row is retried *)
(* at most MaxRetries times, crashes and failed writes or not, unless a      *)
(* stale object of another task took its counter back.                       *)
(***************************************************************************)
RetriesBounded == \A a \in Apps : apps[a].lead \notin shared => attempts[a] <= MaxRetries

(***************************************************************************)
(* No success is claimed that did not happen, in any interleaving and after  *)
(* any fault: the lead of a submitted row, and every lead marked applied by   *)
(* the engine, was submitted; the lead of a sent item too, or else the engine *)
(* left its submission out for the sandbox (the sweep says sent of both).     *)
(* An adapter that answers submitted is believed.                            *)
(***************************************************************************)
SuccessIsTrue ==
  /\ \A i \in Items : items[i].status = "sent" =>
       sent[items[i].lead] > 0 \/ items[i].lead \in staged
  /\ \A a \in Apps : apps[a].status = "submitted" => sent[apps[a].lead] > 0
  /\ \A l \in applied : sent[l] > 0

(***************************************************************************)
(* "NOTHING is sent until the user approves it", "queue-governed leads are    *)
(* NEVER auto-retried": what a sweep submits has an approval that stands, and *)
(* a retry submits nothing that is in the queue, unless an edit overlapped    *)
(* the sweep or the item was prepared while the retry was under way.          *)
(***************************************************************************)
SendsHaveConsent ==
  [][\A t \in Tasks : task[t].at = "send" /\ task'[t].at = "save" /\ task'[t].result = "submitted"
       => CASE task[t].kind = "sweep" -> task[t].item \in consent
            [] task[t].kind = "tick"  -> \/ task[t].lead \in shared
                                         \/ \A i \in Items : items[i].lead # task[t].lead
            [] OTHER                  -> TRUE]_vars

(***************************************************************************)
(* The same rule as the comment states it, without the exceptions.           *)
(***************************************************************************)
OneSubmission == \A l \in Leads : sent[l] <= 1
=============================================================================
