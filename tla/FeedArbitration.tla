--------------------------- MODULE FeedArbitration ---------------------------
(***************************************************************************)
(* The election of the one feed that may produce ticks for an instrument   *)
(* universe, for one universe that both feeds cover: the FYERS WebSocket,  *)
(* run by the headless worker, and the Upstox REST poll, run by the app.   *)
(* There is no coordinator.  Each process elects an owner by itself, from  *)
(* what it knows of its own feed and from the lease row that the other     *)
(* process last wrote to the shared database.                              *)
(*                                                                         *)
(* Time is counted in polls of the Upstox desk.  Ages are in that unit and *)
(* saturate where nothing changes any more; "never" is such an age.  The   *)
(* timers of a process may go off in any order, and each goes off at least *)
(* once in a unit (the Upstox poll exactly once).  The two-second cache of *)
(* the arbiter is far below the unit and is left out.                      *)
(***************************************************************************)
EXTENDS Integers, FiniteSets

CONSTANTS
  Fyers,      \* FYERS_WS, produced by the worker
  Upstox,     \* UPSTOX_REST, produced by the app
  None,       \* no owner
  Unknown,    \* no award known yet
  Priority,   \* priorityFor: lower wins
  Stale,      \* staleAfterMs
  Down,       \* downAfterMs
  Ttl,        \* leaseTtlMs
  Throttle,   \* age up to which a beat may be skipped as not due
  Settle,     \* units an election takes to settle once nothing changes
  MaxFaults   \* bound on the faults of one behaviour

Feeds == {Fyers, Upstox}

ASSUME FeedAssumption ==
  /\ Fyers # Upstox /\ None # Unknown
  /\ None \notin Feeds /\ Unknown \notin Feeds
  /\ Priority \in [Feeds -> Nat]
  /\ Stale \in Nat /\ Down \in Nat /\ Ttl \in Nat /\ Throttle \in Nat
  /\ Stale < Down /\ Down <= Ttl
  /\ Settle \in Nat /\ MaxFaults \in Nat

\* What the defaults add: the WebSocket comes first; a beat skipped as not due
\* leaves a row that is neither down nor less fresh than the standby's own feed
\* between two polls; an election settles once the rows of before the last change
\* have expired or been written over, and the awards read from them too.
ASSUME TimingAssumption ==
  /\ Priority[Fyers] < Priority[Upstox]
  /\ Throttle < Down /\ (Stale = 0 \/ Throttle < Stale)
  /\ Ttl < Settle /\ Throttle + 4 <= Settle

Never   == Down + 1
Expired == Ttl + 1

VARIABLES
  up,        \* the processes that run (named by their feed)
  source,    \* the feeds whose broker delivers ticks
  token,     \* the feeds that have a valid access token
  creds,     \* credentialsOk, as the process last measured it
  tick,      \* age of the newest observation of a feed, in its process
  lease,     \* the rows of market_data_feed_leases
  award,     \* arbiterOwnerByUniverse of the worker
  poll,      \* where the Upstox poll is
  owned,     \* the running poll was awarded the universe
  ran,       \* timers that went off in this unit
  made,      \* feeds that published in this unit
  calm,      \* whole units since something last changed around the election
  faults     \* failures so far

vars == <<up, source, token, creds, tick, lease, award, poll, owned, ran, made,
          calm, faults>>

Timers(f) == IF f = Fyers THEN {"beat", "award", "flushF", "tick"}
             ELSE {"flushU", "poll"}
AllTimers == UNION {Timers(f) : f \in Feeds}

Least(a, b) == IF a < b THEN a ELSE b
Other(f)    == IF f = Fyers THEN Upstox ELSE Fyers
-----------------------------------------------------------------------------
(***************************************************************************)
(* decideOwnership for one universe.  A view gives, for each feed, whether *)
(* it is a candidate (enabled, credentialed and covering the universe) and *)
(* the age of its newest observation.                                      *)
(***************************************************************************)

StateRank(age) == IF age <= Stale THEN 0 ELSE IF age <= Down THEN 1 ELSE 2

\* rank: state, then priority, then the freshest tick, then the name.
Better(view, f, g) ==
  LET a == view[f].age
      b == view[g].age
  IN  \/ StateRank(a) < StateRank(b)
      \/ /\ StateRank(a) = StateRank(b)
         /\ \/ Priority[f] < Priority[g]
            \/ /\ Priority[f] = Priority[g]
               /\ a < b \/ (a = b /\ f = Fyers)

Candidates(view) == {f \in Feeds : view[f].ok}
Eligible(view)   == {f \in Candidates(view) : view[f].age <= Down}

Elect(view) ==
  LET pool == IF Eligible(view) # {} THEN Eligible(view) ELSE Candidates(view)
  IN  IF pool = {} THEN None
      ELSE CHOOSE f \in pool : \A g \in pool \ {f} : Better(view, f, g)

\* Slip: an expired lease is trusted like a fresh one.
ViewTrusting(f, readable) ==
  [g \in Feeds |->
     IF g = f THEN [ok |-> creds[f], age |-> tick[f]]
     ELSE [ok |-> readable /\ lease[g].covers /\ lease[g].creds, age |-> lease[g].tick]]

\* localCandidates and leaseCandidates of the process of f; a failed read of the
\* leases leaves the local feed alone in the view.
View(f, readable) ==
  [g \in Feeds |->
     IF g = f THEN [ok |-> creds[f], age |-> tick[f]]
     ELSE IF readable /\ lease[g].beat <= Ttl
     THEN [ok |-> lease[g].covers /\ lease[g].creds, age |-> lease[g].tick]
     ELSE [ok |-> FALSE, age |-> Never]]

-----------------------------------------------------------------------------
NoLease == [covers |-> FALSE, creds |-> FALSE, tick |-> Never, beat |-> Expired]

Init ==
  /\ up = Feeds
  /\ source \in SUBSET Feeds /\ token = Feeds
  /\ creds = [f \in Feeds |-> FALSE]
  /\ tick = [f \in Feeds |-> Never]
  /\ lease = [f \in Feeds |-> NoLease]
  /\ award = Unknown
  /\ poll = "idle" /\ owned = FALSE
  /\ ran = {} /\ made = {}
  /\ calm = 0
  /\ faults = 0

\* A step in which nothing fails, and one in which a call does.
Fine == UNCHANGED <<calm, faults>>
Fail == faults < MaxFaults /\ faults' = faults + 1 /\ calm' = 0

\* beat: the row is written unless the last beat is recent enough for this one
\* not to be due (a beat whose state changed is written all the same).  A write
\* that fails leaves the row as it was.
Beat(f, covering, ok) ==
  \/ /\ lease' = [lease EXCEPT ![f] =
                    [covers |-> covering, creds |-> ok, tick |-> tick'[f], beat |-> 0]]
     /\ Fine
  \/ lease[f].beat <= Throttle /\ UNCHANGED lease /\ Fine
  \/ UNCHANGED lease /\ Fail

\* flushHeartbeats: the coverage is the one registered.
Flush(f) ==
  /\ f \in up
  /\ UNCHANGED tick
  /\ Beat(f, TRUE, creds[f])
  /\ ran' = ran \cup {IF f = Fyers THEN "flushF" ELSE "flushU"}
  /\ UNCHANGED <<up, source, token, creds, award, poll, owned, made>>

-----------------------------------------------------------------------------
(* The worker: the FYERS WebSocket *)

\* Slip: every tick is published.
MayPublishAlways == TRUE

\* mayPublish fails open while no owner is known.
MayPublish == award \in {Unknown, None, Fyers}

\* The broker delivers and the worker, which connects once it has found its
\* credentials, has a socket to receive it on.
Delivering ==
  /\ Fyers \in up /\ Fyers \in source
  /\ creds[Fyers] \/ tick[Fyers] # Never

\* recordTicks: every tick counts as an observation, published or not.
FyersTick ==
  /\ Delivering
  /\ tick' = [tick EXCEPT ![Fyers] = 0]
  /\ made' = IF MayPublish THEN made \cup {Fyers} ELSE made
  /\ ran' = ran \cup {"tick"}
  /\ Fine
  /\ UNCHANGED <<up, source, token, creds, lease, award, poll, owned>>

\* First half of the ownership tick: the heartbeat claims what the last award
\* gave, or all that is registered before there was one.
OwnershipBeat ==
  /\ Fyers \in up
  /\ UNCHANGED tick
  /\ Beat(Fyers, award \in {Unknown, Fyers}, creds[Fyers])
  /\ ran' = ran \cup {"beat"}
  /\ UNCHANGED <<up, source, token, creds, award, poll, owned, made>>

\* Slip: an award that was read once is kept.
OwnershipAwardOnce ==
  /\ Fyers \in up
  /\ award' = IF award = Unknown THEN Elect(View(Fyers, TRUE)) ELSE award
  /\ ran' = ran \cup {"award"} /\ Fine
  /\ UNCHANGED <<up, source, token, creds, tick, lease, poll, owned, made>>

\* Second half: the award is what this process elects.
OwnershipAward ==
  /\ Fyers \in up
  /\ \E readable \in BOOLEAN :
       /\ award' = Elect(View(Fyers, readable))
       /\ IF readable THEN Fine ELSE Fail
  /\ ran' = ran \cup {"award"}
  /\ UNCHANGED <<up, source, token, creds, tick, lease, poll, owned, made>>

\* tryFyersReconnect measures the credentials of the worker.
MeasureFyers ==
  /\ Fyers \in up
  /\ creds' = [creds EXCEPT ![Fyers] = Fyers \in token]
  /\ creds' # creds
  /\ calm' = 0
  /\ UNCHANGED <<up, source, token, tick, lease, award, poll, owned, ran, made, faults>>

-----------------------------------------------------------------------------
(* The app: the Upstox REST poll *)

\* fetchOptionChain asks for the decisions and stands down only against another
\* owner; without any owner it goes on and fetches.
PollDecides ==
  /\ Upstox \in up /\ poll = "idle" /\ "poll" \notin ran
  /\ \E readable \in BOOLEAN :
       LET owner == Elect(View(Upstox, readable)) IN
       /\ IF readable THEN Fine ELSE Fail
       /\ owned' = (owner = Upstox)
       /\ poll' = IF owner = Fyers THEN "standby" ELSE "fetch"
  /\ UNCHANGED <<up, source, token, creds, tick, lease, award, ran, made>>

PollEnds ==
  /\ poll' = "idle" /\ owned' = FALSE
  /\ ran' = ran \cup {"poll"}
  /\ UNCHANGED <<up, source, token, award>>

\* Standing by: the credentials are measured, the broker is not called.
PollStandsBy ==
  /\ poll = "standby"
  /\ creds' = [creds EXCEPT ![Upstox] = Upstox \in token]
  /\ UNCHANGED <<tick, made>>
  /\ Beat(Upstox, TRUE, creds'[Upstox])
  /\ PollEnds

\* Without a token the poll ends at once, and no beat is sent.
PollUnauthorised ==
  /\ poll = "fetch" /\ Upstox \notin token
  /\ creds' = [creds EXCEPT ![Upstox] = FALSE]
  /\ UNCHANGED <<tick, made, lease>> /\ Fine
  /\ PollEnds

\* The chain is fetched and published if the broker answers; the beat claims
\* what the arbiter awarded when the poll began.
PollFetches ==
  /\ poll = "fetch" /\ Upstox \in token
  /\ creds' = [creds EXCEPT ![Upstox] = TRUE]
  /\ IF Upstox \in source
     THEN /\ tick' = [tick EXCEPT ![Upstox] = 0]
          /\ made' = made \cup {Upstox}
     ELSE UNCHANGED <<tick, made>>
  /\ Beat(Upstox, owned, TRUE)
  /\ PollEnds

-----------------------------------------------------------------------------
(* The environment *)

\* Process f dies, and with it all it knew; its lease row stays.
Crash(f) ==
  /\ f \in up /\ Fail
  /\ up' = up \ {f}
  /\ creds' = [creds EXCEPT ![f] = FALSE]
  /\ tick' = [tick EXCEPT ![f] = Never]
  /\ award' = IF f = Fyers THEN Unknown ELSE award
  /\ poll' = IF f = Upstox THEN "idle" ELSE poll
  /\ owned' = (owned /\ f # Upstox)
  /\ UNCHANGED <<source, token, lease, ran, made>>

Restart(f) ==
  /\ f \notin up
  /\ up' = up \cup {f} /\ calm' = 0
  /\ UNCHANGED <<source, token, creds, tick, lease, award, poll, owned, ran, made, faults>>

\* The ticks of a broker stop, or an access token expires.
Lose(f) ==
  /\ Fail
  /\ \/ f \in source /\ source' = source \ {f} /\ UNCHANGED token
     \/ f \in token /\ token' = token \ {f} /\ UNCHANGED source
  /\ UNCHANGED <<up, creds, tick, lease, award, poll, owned, ran, made>>

Regain(f) ==
  /\ \/ f \notin source /\ source' = source \cup {f} /\ UNCHANGED token
     \/ f \notin token /\ token' = token \cup {f} /\ UNCHANGED source
  /\ calm' = 0
  /\ UNCHANGED <<up, creds, tick, lease, award, poll, owned, ran, made, faults>>

\* What must have happened before a unit is over.
Due == (UNION {Timers(f) : f \in up}) \ (IF Delivering THEN {} ELSE {"tick"})

UnitOver == Due \subseteq ran

Older(age, limit) == Least(age + 1, limit)

Clock ==
  /\ UnitOver
  /\ tick' = [f \in Feeds |-> IF f = Fyers /\ Delivering THEN 0 ELSE Older(tick[f], Never)]
  /\ lease' = [f \in Feeds |-> [lease[f] EXCEPT !.tick = Older(@, Never),
                                               !.beat = Older(@, Expired)]]
  /\ calm' = Older(calm, Settle)
  /\ ran' = {} /\ made' = {}
  /\ UNCHANGED <<up, source, token, creds, award, poll, owned, faults>>

Worker == FyersTick \/ OwnershipBeat \/ OwnershipAward \/ MeasureFyers
Desk   == PollDecides \/ PollStandsBy \/ PollUnauthorised \/ PollFetches
World  == \E f \in Feeds : Crash(f) \/ Restart(f) \/ Lose(f) \/ Regain(f)

Next == Worker \/ Desk \/ (\E f \in Feeds : Flush(f)) \/ World \/ Clock

Spec == Init /\ [][Next]_vars
-----------------------------------------------------------------------------
(* Correctness *)

\* The values of the variables; a poll that owns the universe is under way, and
\* a process that does not run remembers nothing.
TypeOK ==
  /\ up \subseteq Feeds /\ source \subseteq Feeds /\ token \subseteq Feeds
  /\ creds \in [Feeds -> BOOLEAN]
  /\ tick \in [Feeds -> 0 .. Never]
  /\ lease \in [Feeds -> [covers : BOOLEAN, creds : BOOLEAN, tick : 0 .. Never,
                          beat : 0 .. Expired]]
  /\ award \in Feeds \cup {None, Unknown}
  /\ poll \in {"idle", "standby", "fetch"}
  /\ owned \in BOOLEAN /\ (owned => poll = "fetch")
  /\ poll # "idle" => Upstox \in up
  /\ ran \subseteq AllTimers /\ made \subseteq Feeds
  /\ calm \in 0 .. Settle /\ faults \in 0 .. MaxFaults
  /\ \A f \in Feeds \ up : ~creds[f] /\ tick[f] = Never

Settled == calm = Settle

\* Feed f runs, its broker delivers, and it knows its token to be valid.
Ready(f) == f \in up /\ f \in source /\ f \in token /\ creds[f]

\* Two processes that only share a table of leases never both produce for the
\* universe once nothing has changed for Settle units: whatever was lost or late
\* before, the views have converged.
SoleProducer == Settled => made # Feeds

\* The primary feed gets the universe back, and serves it, Settle units after it
\* delivers again.
PrimaryServes ==
  Settled /\ UnitOver /\ Delivering /\ creds[Fyers] => made = {Fyers}

\* The standby serves the universe Settle units after the process of the primary
\* died or lost its credentials: it does not stand down against a dead owner.
StandbyTakesOver ==
  Settled /\ UnitOver /\ Ready(Upstox) /\ ~creds[Fyers] => Upstox \in made
=============================================================================
