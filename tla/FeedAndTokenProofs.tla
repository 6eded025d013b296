-------------------------- MODULE FeedAndTokenProofs --------------------------
(***************************************************************************)
(* Theorems about what keeps the worker's feed alive: what the election of  *)
(* FeedArbitration decides for every view, that it settles and on the right *)
(* feed, and what TokenSupervisor keeps of the FYERS token, for all values  *)
(* of the constants.                                                        *)
(***************************************************************************)
EXTENDS FeedArbitration, TokenSupervisor, FiniteSetTheorems, TLAPS


\* What a process may know: of each feed, whether it is a candidate and the age
\* of its newest observation.
Views == [Feeds -> [ok : BOOLEAN, age : 0 .. Never]]

LEMMA FeedFacts ==
  /\ Fyers \in Feeds /\ Upstox \in Feeds /\ Fyers # Upstox
  /\ None \notin Feeds /\ Unknown \notin Feeds /\ None # Unknown
  /\ Never \in Nat /\ Down \in Nat /\ Stale \in Nat /\ Expired \in Nat /\ Ttl \in Nat
  /\ \A f \in Feeds : Priority[f] \in Nat
  /\ Down < Never /\ Settle \in Nat /\ MaxFaults \in Nat
<1>1. Fyers \in Feeds /\ Upstox \in Feeds
  BY DEF Feeds
<1>2. Down \in Nat /\ Ttl \in Nat
  BY FeedAssumption DEF FeedAssumption
<1>3. Never \in Nat /\ Expired \in Nat /\ Down < Never
  BY <1>2, SMT DEF Never, Expired
<1> QED BY <1>1, <1>2, <1>3, FeedAssumption DEF FeedAssumption

\* The ranking of decideOwnership is total and strict: of two feeds exactly one
\* is better.
LEMMA RankingIsStrict ==
  ASSUME NEW view \in Views
  PROVE  Better(view, Fyers, Upstox) <=> ~Better(view, Upstox, Fyers)
<1> DEFINE a == view[Fyers].age
           b == view[Upstox].age
<1>1. a \in Nat /\ b \in Nat
  BY FeedFacts DEF Views
<1>2. Priority[Fyers] \in Nat /\ Priority[Upstox] \in Nat /\ Fyers # Upstox
  BY FeedFacts
<1>3. StateRank(a) \in Nat /\ StateRank(b) \in Nat
  BY <1>1, FeedFacts DEF StateRank
<1> QED BY <1>1, <1>2, <1>3 DEF Better

\* The election picks the best of any set of feeds.
LEMMA BestExists ==
  ASSUME NEW view \in Views, NEW pool \in SUBSET Feeds, pool # {}
  PROVE  \E f \in pool : \A g \in pool \ {f} : Better(view, f, g)
<1>1. CASE Better(view, Fyers, Upstox)
  BY <1>1 DEF Feeds
<1>2. CASE Better(view, Upstox, Fyers)
  BY <1>2 DEF Feeds
<1> QED BY <1>1, <1>2, RankingIsStrict

\* decideOwnership elects nobody exactly when there is no candidate, and else a
\* candidate: a feed that is enabled, credentialed and covers the universe.
THEOREM OwnerIsCandidate ==
  ASSUME NEW view \in Views
  PROVE  /\ Candidates(view) = {} => Elect(view) = None
         /\ Candidates(view) # {} => Elect(view) \in Candidates(view)
<1> DEFINE pool == IF Eligible(view) # {} THEN Eligible(view) ELSE Candidates(view)
<1>1. pool \subseteq Candidates(view) /\ (pool = {} <=> Candidates(view) = {})
  BY DEF Eligible
<1>2. pool \in SUBSET Feeds
  BY <1>1 DEF Candidates
<1>3. CASE pool = {}
  BY <1>1, <1>3 DEF Elect
<1>4. CASE pool # {}
  <2>1. \E f \in pool : \A g \in pool \ {f} : Better(view, f, g)
    BY <1>2, <1>4, BestExists
  <2>2. Elect(view) = CHOOSE f \in pool : \A g \in pool \ {f} : Better(view, f, g)
    BY <1>4 DEF Elect
  <2> HIDE DEF pool
  <2>3. Elect(view) \in pool
    BY <2>1, <2>2
  <2> QED BY <1>1, <2>3
<1> QED BY <1>3, <1>4

\* A feed that is down is never elected over a candidate that is alive.
THEOREM LivingOwner ==
  ASSUME NEW view \in Views, Eligible(view) # {}
  PROVE  Elect(view) \in Eligible(view)
<1>1. Eligible(view) \in SUBSET Feeds
  BY DEF Eligible, Candidates
<1>2. \E f \in Eligible(view) : \A g \in Eligible(view) \ {f} : Better(view, f, g)
  BY <1>1, BestExists
<1>3. Elect(view) =
        CHOOSE f \in Eligible(view) : \A g \in Eligible(view) \ {f} : Better(view, f, g)
  BY DEF Elect
<1> QED BY <1>2, <1>3

\* With both feeds candidates and none alive, the one of the better priority is
\* elected whatever the other could deliver: this is why a primary that stalls
\* keeps the universe.
THEOREM StalledPrimaryKeepsTheSlot ==
  ASSUME NEW view \in Views, Candidates(view) = Feeds, Eligible(view) = {},
         Priority[Fyers] < Priority[Upstox]
  PROVE  Elect(view) = Fyers
<1> DEFINE a == view[Fyers].age
           b == view[Upstox].age
<1>1. a \in Nat /\ b \in Nat
  BY FeedFacts DEF Views
<1>2. a > Down /\ b > Down
  BY <1>1, FeedFacts DEF Eligible
<1>3. StateRank(a) = 2 /\ StateRank(b) = 2
  BY <1>1, <1>2, FeedAssumption DEF StateRank, FeedAssumption
<1>4. Better(view, Fyers, Upstox)
  BY <1>3 DEF Better
<1>5. ~Better(view, Upstox, Fyers)
  BY <1>4, RankingIsStrict
<1>6. Elect(view) = CHOOSE f \in Feeds : \A g \in Feeds \ {f} : Better(view, f, g)
  BY FeedFacts DEF Elect
<1>7. Fyers \in Feeds /\ \A g \in Feeds \ {Fyers} : Better(view, Fyers, g)
  BY <1>4 DEF Feeds
<1>8. \A f \in Feeds : (\A g \in Feeds \ {f} : Better(view, f, g)) => f = Fyers
  BY <1>5, FeedFacts DEF Feeds
<1> QED BY <1>6, <1>7, <1>8
-----------------------------------------------------------------------------
LEMMA ViewsAreViews ==
  ASSUME TypeOK, NEW f \in Feeds, NEW readable \in BOOLEAN
  PROVE  View(f, readable) \in Views
BY FeedFacts DEF View, Views, TypeOK, Never

LEMMA ElectType ==
  ASSUME NEW view \in Views
  PROVE  Elect(view) \in Feeds \cup {None}
BY OwnerIsCandidate DEF Candidates

LEMMA InitType == Init => TypeOK
<1>1. NoLease \in [covers : BOOLEAN, creds : BOOLEAN, tick : 0 .. Never, beat : 0 .. Expired]
  BY FeedFacts DEF NoLease
<1>2. 0 \in 0 .. Settle /\ 0 \in 0 .. MaxFaults /\ Never \in 0 .. Never
  BY FeedFacts
<1> QED BY <1>1, <1>2 DEF Init, TypeOK

LEMMA FineFail ==
  ASSUME TypeOK, Fine \/ Fail
  PROVE  calm' \in 0 .. Settle /\ faults' \in 0 .. MaxFaults
BY FeedFacts DEF TypeOK, Fine, Fail

\* The row a beat writes is a row.
LEMMA BeatType ==
  ASSUME TypeOK, NEW f \in Feeds, NEW c \in BOOLEAN, NEW ok \in BOOLEAN,
         tick' \in [Feeds -> 0 .. Never], Beat(f, c, ok)
  PROVE  /\ lease' \in [Feeds -> [covers : BOOLEAN, creds : BOOLEAN,
                                  tick : 0 .. Never, beat : 0 .. Expired]]
         /\ calm' \in 0 .. Settle /\ faults' \in 0 .. MaxFaults
<1>1. calm' \in 0 .. Settle /\ faults' \in 0 .. MaxFaults
  BY FineFail DEF Beat
<1>2. 0 \in 0 .. Expired
  BY FeedFacts
<1>3. tick'[f] \in 0 .. Never
  OBVIOUS
<1>4. [covers |-> c, creds |-> ok, tick |-> tick'[f], beat |-> 0]
        \in [covers : BOOLEAN, creds : BOOLEAN, tick : 0 .. Never, beat : 0 .. Expired]
  BY <1>2, <1>3
<1> QED BY <1>1, <1>4 DEF Beat, TypeOK

LEMMA TimerFacts ==
  /\ \A f \in Feeds : (IF f = Fyers THEN "flushF" ELSE "flushU") \in AllTimers
  /\ "tick" \in AllTimers /\ "beat" \in AllTimers /\ "award" \in AllTimers
  /\ "poll" \in AllTimers
BY FeedFacts DEF AllTimers, Timers

LEMMA OlderType ==
  ASSUME NEW limit \in Nat, NEW age \in 0 .. limit
  PROVE  Older(age, limit) \in 0 .. limit
BY DEF Older, Least

LEMMA NeverType == 0 \in 0 .. Never /\ Never \in 0 .. Never
BY FeedFacts

LEMMA FeedsTypedStep == TypeOK /\ [Next]_vars => TypeOK'
<1> SUFFICES ASSUME TypeOK, [Next]_vars PROVE TypeOK'
  OBVIOUS
<1> USE DEF TypeOK
<1>1. CASE FyersTick
  BY <1>1, FineFail, TimerFacts, NeverType, FeedFacts DEF FyersTick, Delivering
<1>2. CASE OwnershipBeat
  <2> DEFINE c == award \in {Unknown, Fyers}
  <2>1. c \in BOOLEAN /\ creds[Fyers] \in BOOLEAN
    BY FeedFacts
  <2>2. tick' \in [Feeds -> 0 .. Never]
    BY <1>2 DEF OwnershipBeat
  <2>3. Beat(Fyers, c, creds[Fyers])
    BY <1>2 DEF OwnershipBeat
  <2> HIDE DEF c
  <2>4. /\ lease' \in [Feeds -> [covers : BOOLEAN, creds : BOOLEAN, tick : 0 .. Never,
                                 beat : 0 .. Expired]]
        /\ calm' \in 0 .. Settle /\ faults' \in 0 .. MaxFaults
    BY <2>1, <2>2, <2>3, BeatType, FeedFacts
  <2>5. ran' \subseteq AllTimers
    BY <1>2, TimerFacts DEF OwnershipBeat
  <2>6. UNCHANGED <<up, source, token, creds, tick, award, poll, owned, made>>
    BY <1>2 DEF OwnershipBeat
  <2> QED BY <2>4, <2>5, <2>6
<1>3. CASE OwnershipAward
  <2>1. award' \in Feeds \cup {None}
    BY <1>3, ViewsAreViews, ElectType, FeedFacts DEF OwnershipAward
  <2> QED BY <1>3, <2>1, FineFail, TimerFacts DEF OwnershipAward
<1>4. CASE MeasureFyers
  BY <1>4, FeedFacts DEF MeasureFyers
<1>5. CASE PollDecides
  BY <1>5, FineFail, FeedFacts DEF PollDecides
<1>6. CASE PollStandsBy
  <2>1. creds'[Upstox] \in BOOLEAN /\ creds' \in [Feeds -> BOOLEAN]
    BY <1>6, FeedFacts DEF PollStandsBy
  <2>2. tick' \in [Feeds -> 0 .. Never] /\ Beat(Upstox, TRUE, creds'[Upstox])
    BY <1>6 DEF PollStandsBy
  <2> QED BY <1>6, <2>1, <2>2, BeatType, TimerFacts, FeedFacts DEF PollStandsBy, PollEnds
<1>7. CASE PollUnauthorised
  BY <1>7, FineFail, TimerFacts, FeedFacts DEF PollUnauthorised, PollEnds
<1>8. CASE PollFetches
  <2>1. tick' \in [Feeds -> 0 .. Never]
    BY <1>8, NeverType, FeedFacts DEF PollFetches
  <2>2. Beat(Upstox, owned, TRUE) /\ owned \in BOOLEAN
    BY <1>8 DEF PollFetches
  <2>3. /\ lease' \in [Feeds -> [covers : BOOLEAN, creds : BOOLEAN, tick : 0 .. Never,
                                    beat : 0 .. Expired]]
        /\ calm' \in 0 .. Settle /\ faults' \in 0 .. MaxFaults
    BY <2>1, <2>2, BeatType, FeedFacts
  <2> QED BY <1>8, <2>1, <2>3, TimerFacts, FeedFacts DEF PollFetches, PollEnds
<1>9. ASSUME NEW f \in Feeds, Flush(f) PROVE TypeOK'
  <2>1. creds[f] \in BOOLEAN /\ tick' \in [Feeds -> 0 .. Never] /\ Beat(f, TRUE, creds[f])
    BY <1>9 DEF Flush
  <2> QED BY <1>9, <2>1, BeatType, TimerFacts DEF Flush
<1>10. ASSUME NEW f \in Feeds, Crash(f) PROVE TypeOK'
  BY <1>10, FineFail, NeverType, FeedFacts DEF Crash
<1>11. ASSUME NEW f \in Feeds, Restart(f) PROVE TypeOK'
  BY <1>11, FeedFacts DEF Restart
<1>12. ASSUME NEW f \in Feeds, Lose(f) PROVE TypeOK'
  BY <1>12, FineFail DEF Lose
<1>13. ASSUME NEW f \in Feeds, Regain(f) PROVE TypeOK'
  BY <1>13, FeedFacts DEF Regain
<1>14. CASE Clock
  <2>1. calm' \in 0 .. Settle
    BY <1>14, OlderType, FeedFacts DEF Clock
  <2>2. tick' \in [Feeds -> 0 .. Never]
    BY <1>14, OlderType, NeverType, FeedFacts DEF Clock
  <2>3. lease' \in [Feeds -> [covers : BOOLEAN, creds : BOOLEAN, tick : 0 .. Never,
                              beat : 0 .. Expired]]
    BY <1>14, OlderType, FeedFacts DEF Clock
  <2>4. ASSUME NEW f \in Feeds \ up PROVE tick'[f] = Never
    <3>1. tick[f] = Never /\ ~(f = Fyers /\ Delivering)
      BY DEF Delivering
    <3>2. Older(Never, Never) = Never
      BY FeedFacts DEF Older, Least
    <3>3. tick'[f] = Older(tick[f], Never)
      BY <1>14, <3>1 DEF Clock
    <3> QED BY <3>1, <3>2, <3>3
  <2>5. \A f \in Feeds \ up' : ~creds'[f] /\ tick'[f] = Never
    BY <1>14, <2>4 DEF Clock
  <2>6. /\ up' = up /\ source' = source /\ token' = token /\ creds' = creds
        /\ award' = award /\ poll' = poll /\ owned' = owned /\ faults' = faults
        /\ ran' = {} /\ made' = {}
    BY <1>14 DEF Clock
  <2> QED BY <2>1, <2>2, <2>3, <2>5, <2>6
<1>15. CASE UNCHANGED vars
  BY <1>15 DEF vars
<1> QED BY <1>1, <1>2, <1>3, <1>4, <1>5, <1>6, <1>7, <1>8, <1>9, <1>10, <1>11,
           <1>12, <1>13, <1>14, <1>15 DEF Next, Worker, Desk, World

\* Every value the two processes, the lease table and the clock can hold stays in
\* its range; a poll that owns the universe is under way, and a dead process
\* remembers nothing.
THEOREM FeedsWellTyped == Spec => []TypeOK
BY FeedsTypedStep, InitType, PTL DEF Spec
-----------------------------------------------------------------------------
(***************************************************************************)
(* The election settles.  The parts of the invariant say by when, counted   *)
(* in calm units, each process has seen what the other one's state depends  *)
(* on; "calm > n" reads: n units have passed in which nothing changed.      *)
(***************************************************************************)

\* The poll is over when its timer has gone off, and is due again when the
\* clock has moved on.
PollOnce ==
  /\ poll # "idle" => "poll" \notin ran
  /\ "poll" \notin ran => tick[Upstox] > 0

\* A process that runs keeps its lease row young.
FlushOf(f) == IF f = Fyers THEN "flushF" ELSE "flushU"

BeatsKept ==
  \A f \in up :
    /\ calm > 0 /\ FlushOf(f) \in ran => lease[f].beat <= Throttle
    /\ calm > 1 => lease[f].beat <= Throttle + 1

\* A row of the primary that claims credentials the worker has not is from
\* before their loss.
LossSeen ==
  ~creds[Fyers] /\ lease[Fyers].creds => Least(calm, Expired) <= lease[Fyers].beat

\* A socket that delivers is fresh, and only feeds that can deliver have done so.
SocketSeen ==
  calm > 0 =>
    /\ Delivering => tick[Fyers] = 0
    /\ Fyers \in made => Delivering
    /\ Upstox \in made => Upstox \in up /\ Upstox \in token

\* The poll has measured its token.
TokenSeen ==
  calm > 0 /\ Upstox \in up /\ ("poll" \in ran \/ calm > 1)
    => creds[Upstox] = (Upstox \in token)

Claims(f)      == lease[f].covers /\ lease[f].creds
RowOutdated(f) == Least(calm - 1, Expired) <= lease[f].beat

\* A primary that delivers awards itself the universe; then its row says so, or is
\* from before; then the standby, which reads the row, stands by.
PrimaryWins ==
  calm > 0 /\ Delivering /\ creds[Fyers] =>
    /\ "award" \in ran \/ calm > 1 => award = Fyers
    /\ calm > 1 /\ "tick" \in ran => Fyers \in made
    /\ \/ Claims(Fyers) /\ lease[Fyers].tick <= lease[Fyers].beat
       \/ RowOutdated(Fyers)
    /\ calm > Throttle + 2 => (poll # "fetch" /\ Upstox \notin made)

\* A worker whose socket outlives its credentials: the standby claims the
\* universe, and the worker, which reads the row, stops publishing.
StandbyWins ==
  calm > 0 /\ Fyers \in up /\ ~creds[Fyers] /\ Upstox \in up /\ Upstox \in token =>
    /\ calm > 1 /\ poll = "fetch" => owned
    /\ Claims(Upstox) \/ RowOutdated(Upstox)
    /\ (calm > Throttle + 2 /\ "award" \in ran) \/ calm > Throttle + 3 => award = Upstox
    /\ calm > Throttle + 3 => Fyers \notin made

\* Once the row of a primary without credentials has expired, the standby polls.
OwnerGone ==
  calm > Ttl /\ ~creds[Fyers] =>
    /\ poll # "standby"
    /\ "poll" \in ran /\ Upstox \in source /\ Upstox \in token => Upstox \in made

Converging == /\ BeatsKept /\ LossSeen /\ SocketSeen /\ TokenSeen
              /\ PrimaryWins /\ StandbyWins /\ OwnerGone

CalmInv == TypeOK /\ PollOnce /\ Converging

LEMMA TimingFacts ==
  /\ Throttle \in Nat /\ Throttle < Down /\ Throttle + 1 <= Ttl
  /\ Priority[Fyers] < Priority[Upstox]
  /\ Stale = 0 \/ Throttle < Stale
  /\ Ttl < Settle /\ Throttle + 4 <= Settle
  /\ Never = Down + 1 /\ Expired = Ttl + 1 /\ Never <= Expired
<1>1. /\ Throttle \in Nat /\ Throttle < Down
      /\ Down \in Nat /\ Ttl \in Nat /\ Down <= Ttl
  BY FeedAssumption, TimingAssumption DEF FeedAssumption, TimingAssumption
<1>2. Never = Down + 1 /\ Expired = Ttl + 1
  BY DEF Never, Expired
<1> QED BY <1>1, <1>2, TimingAssumption DEF TimingAssumption

\* A feed that is the only candidate is elected.
LEMMA LoneCandidate ==
  ASSUME NEW view \in Views, NEW f \in Feeds, view[f].ok,
         \A g \in Feeds \ {f} : ~view[g].ok
  PROVE  Elect(view) = f
<1>1. Candidates(view) = {f}
  BY DEF Candidates
<1> QED BY <1>1, OwnerIsCandidate

\* The primary is elected while it is alive and the standby no fresher.
LEMMA PrimaryElected ==
  ASSUME NEW view \in Views, view[Fyers].ok, view[Fyers].age <= Down,
         StateRank(view[Fyers].age) <= StateRank(view[Upstox].age)
  PROVE  Elect(view) = Fyers
<1>1. Fyers \in Eligible(view)
  BY FeedFacts DEF Eligible, Candidates
<1>2. view[Fyers].age \in Nat /\ view[Upstox].age \in Nat
  BY FeedFacts DEF Views
<1>3. StateRank(view[Fyers].age) \in Nat /\ StateRank(view[Upstox].age) \in Nat
  BY DEF StateRank
<1>4. Better(view, Fyers, Upstox)
  BY <1>3, TimingFacts DEF Better
<1>5. ~Better(view, Upstox, Fyers)
  BY <1>4, RankingIsStrict
<1>6. Elect(view) =
        CHOOSE f \in Eligible(view) : \A g \in Eligible(view) \ {f} : Better(view, f, g)
  BY <1>1 DEF Elect
<1>7. Eligible(view) \subseteq Feeds
  BY DEF Eligible, Candidates
<1>8. \A f \in Eligible(view) :
        (\A g \in Eligible(view) \ {f} : Better(view, f, g)) => f = Fyers
  BY <1>1, <1>5, <1>7 DEF Feeds
<1>9. \A g \in Eligible(view) \ {Fyers} : Better(view, Fyers, g)
  BY <1>4, <1>7 DEF Feeds
<1> QED BY <1>1, <1>6, <1>8, <1>9

\* A beat in a calm unit leaves a row that is young, and is as it was or says
\* what the process says.
LEMMA CalmBeat ==
  ASSUME TypeOK, NEW f \in Feeds, NEW c \in BOOLEAN, NEW ok \in BOOLEAN,
         Beat(f, c, ok), calm' # 0
  PROVE  /\ calm' = calm
         /\ \A g \in Feeds \ {f} : lease'[g] = lease[g]
         /\ lease'[f].beat <= Throttle /\ lease'[f].beat <= lease[f].beat
         /\ \/ lease'[f] = lease[f]
            \/ lease'[f] = [covers |-> c, creds |-> ok, tick |-> tick'[f], beat |-> 0]
BY TimingFacts DEF Beat, Fine, Fail, TypeOK

LEMMA PollOnceStep ==
  ASSUME TypeOK, PollOnce, [Next]_vars
  PROVE  PollOnce'
<1> USE DEF PollOnce
<1>1. CASE FyersTick
  BY <1>1, FeedFacts DEF FyersTick, TypeOK
<1>2. CASE OwnershipBeat
  BY <1>2 DEF OwnershipBeat
<1>3. CASE OwnershipAward
  BY <1>3 DEF OwnershipAward
<1>4. CASE MeasureFyers
  BY <1>4 DEF MeasureFyers
<1>5. CASE PollDecides
  BY <1>5 DEF PollDecides
<1>6. CASE PollStandsBy \/ PollUnauthorised \/ PollFetches
  BY <1>6 DEF PollStandsBy, PollUnauthorised, PollFetches, PollEnds
<1>7. ASSUME NEW f \in Feeds, Flush(f) PROVE PollOnce'
  BY <1>7 DEF Flush
<1>8. ASSUME NEW f \in Feeds, Crash(f) PROVE PollOnce'
  BY <1>8, FeedFacts DEF Crash, TypeOK
<1>9. ASSUME NEW f \in Feeds, Restart(f) \/ Lose(f) \/ Regain(f) PROVE PollOnce'
  BY <1>9 DEF Restart, Lose, Regain
<1>10. CASE Clock
  <2>1. tick'[Upstox] = Older(tick[Upstox], Never) /\ ran' = {} 
    BY <1>10, FeedFacts DEF Clock
  <2>2. tick[Upstox] \in Nat /\ Never \in Nat /\ Never > 0
    BY FeedFacts DEF TypeOK, Never
  <2> QED BY <2>1, <2>2 DEF Older, Least
<1>11. CASE UNCHANGED vars
  BY <1>11 DEF vars
<1> QED BY <1>1, <1>2, <1>3, <1>4, <1>5, <1>6, <1>7, <1>8, <1>9, <1>10, <1>11
        DEF Next, Worker, Desk, World

\* A step that disturbs the election promises nothing but types.
LEMMA Disturbed ==
  ASSUME TypeOK', calm' = 0
  PROVE  Converging'
<1>1. Least(0, Expired) = 0 /\ \A f \in Feeds : lease'[f].beat \in Nat
  BY FeedFacts DEF Least, TypeOK
<1>2. BeatsKept' /\ SocketSeen' /\ TokenSeen' /\ PrimaryWins' /\ StandbyWins' /\ OwnerGone'
  BY TimingFacts, FeedFacts DEF BeatsKept, SocketSeen, TokenSeen, PrimaryWins, StandbyWins, OwnerGone
<1>3. LossSeen'
  BY <1>1, FeedFacts DEF LossSeen
<1> QED BY <1>2, <1>3 DEF Converging

\* What the parts of the invariant are about.
LEMMA CalmTypes ==
  ASSUME TypeOK
  PROVE  /\ calm \in Nat /\ calm <= Settle
         /\ \A f \in Feeds : /\ lease[f].beat \in Nat /\ lease[f].tick \in Nat
                             /\ lease[f].tick <= Never /\ lease[f].beat <= Expired
                             /\ tick[f] \in Nat /\ tick[f] <= Never
                             /\ lease[f].covers \in BOOLEAN /\ lease[f].creds \in BOOLEAN
                             /\ creds[f] \in BOOLEAN
BY FeedFacts DEF TypeOK

LEMMA TickCalm ==
  ASSUME CalmInv, FyersTick
  PROVE  Converging'
<1> USE DEF CalmInv, Converging
<1>1. /\ calm' = calm /\ tick'[Fyers] = 0 /\ Never # 0 /\ ran' = ran \cup {"tick"}
      /\ UNCHANGED <<up, source, token, creds, lease, award, poll, owned>>
      /\ made' = IF MayPublish THEN made \cup {Fyers} ELSE made
      /\ Delivering
  BY FeedFacts DEF FyersTick, Fine, TypeOK, Never
<1>2. Delivering'
  BY <1>1 DEF Delivering
<1>3. BeatsKept' /\ LossSeen'
  BY <1>1 DEF BeatsKept, LossSeen, FlushOf
<1>4. SocketSeen' /\ TokenSeen' /\ OwnerGone'
  BY <1>1, <1>2, FeedFacts DEF SocketSeen, TokenSeen, OwnerGone
<1>5. PrimaryWins'
  BY <1>1, FeedFacts DEF PrimaryWins, MayPublish, Claims, RowOutdated
<1>6. StandbyWins'
  BY <1>1, FeedFacts, TimingFacts, CalmTypes DEF StandbyWins, MayPublish, Claims, RowOutdated
<1> QED BY <1>3, <1>4, <1>5, <1>6

LEMMA FlushCalm ==
  ASSUME CalmInv, NEW f \in Feeds, Flush(f), calm' # 0
  PROVE  Converging'
<1> USE DEF CalmInv, Converging
<1>1. /\ f \in up /\ ran' = ran \cup {FlushOf(f)} /\ Beat(f, TRUE, creds[f])
      /\ UNCHANGED <<up, source, token, creds, tick, award, poll, owned, made>>
  BY DEF Flush, FlushOf
<1>2. /\ calm' = calm
      /\ \A g \in Feeds \ {f} : lease'[g] = lease[g]
      /\ lease'[f].beat <= Throttle /\ lease'[f].beat <= lease[f].beat
      /\ \/ lease'[f] = lease[f]
         \/ lease'[f] = [covers |-> TRUE, creds |-> creds[f], tick |-> tick[f], beat |-> 0]
  BY <1>1, CalmBeat, CalmTypes
<1>3. Delivering' = Delivering
  BY <1>1 DEF Delivering
<1>4. BeatsKept'
  BY <1>1, <1>2, FeedFacts, TimingFacts, CalmTypes DEF BeatsKept, FlushOf, Feeds, TypeOK
<1>5. LossSeen'
  BY <1>1, <1>2, FeedFacts DEF LossSeen
<1>6. SocketSeen' /\ TokenSeen' /\ OwnerGone'
  BY <1>1, <1>2, <1>3 DEF SocketSeen, TokenSeen, OwnerGone, FlushOf
<1>7. PrimaryWins'
  BY <1>1, <1>2, <1>3, FeedFacts DEF PrimaryWins, SocketSeen, Claims, RowOutdated, FlushOf
<1>8. StandbyWins'
  <2>1. calm > 0 /\ Upstox \in up /\ Upstox \in token /\ ~creds[Upstox] => calm = 1
    <3>1. calm > 0 => calm = 1 \/ calm > 1
      BY CalmTypes
    <3> QED BY <3>1 DEF TokenSeen
  <2>2. calm = 1 => Least(calm - 1, Expired) <= lease'[Upstox].beat
    BY <1>2, FeedFacts, CalmTypes DEF Least
  <2> QED BY <1>1, <1>2, <1>3, <2>1, <2>2, FeedFacts DEF StandbyWins, Claims, RowOutdated, FlushOf
<1> QED BY <1>4, <1>5, <1>6, <1>7, <1>8

LEMMA OwnershipBeatCalm ==
  ASSUME CalmInv, OwnershipBeat, calm' # 0
  PROVE  Converging'
<1> USE DEF CalmInv, Converging
<1> DEFINE c == award \in {Unknown, Fyers}
<1>1. /\ Fyers \in up /\ ran' = ran \cup {"beat"} /\ Beat(Fyers, c, creds[Fyers])
      /\ UNCHANGED <<up, source, token, creds, tick, award, poll, owned, made>>
  BY DEF OwnershipBeat
<1>2. c \in BOOLEAN
  OBVIOUS
<1>3. award = Fyers => c
  OBVIOUS
<1> HIDE DEF c
<1>4. /\ calm' = calm
      /\ lease'[Upstox] = lease[Upstox]
      /\ lease'[Fyers].beat <= Throttle /\ lease'[Fyers].beat <= lease[Fyers].beat
      /\ \/ lease'[Fyers] = lease[Fyers]
         \/ lease'[Fyers] = [covers |-> c, creds |-> creds[Fyers], tick |-> tick[Fyers],
                             beat |-> 0]
  BY <1>1, <1>2, CalmBeat, CalmTypes, FeedFacts
<1>5. Delivering' = Delivering
  BY <1>1 DEF Delivering
<1>6. BeatsKept'
  BY <1>1, <1>4, FeedFacts, TimingFacts, CalmTypes DEF BeatsKept, FlushOf, Feeds, TypeOK
<1>7. LossSeen'
  BY <1>1, <1>4, FeedFacts DEF LossSeen
<1>8. SocketSeen' /\ TokenSeen' /\ OwnerGone' /\ StandbyWins'
  BY <1>1, <1>4, <1>5 DEF SocketSeen, TokenSeen, OwnerGone, StandbyWins, Claims, RowOutdated
<1>9. PrimaryWins'
  <2>1. calm = 1 => Least(calm - 1, Expired) <= lease'[Fyers].beat
    BY <1>4, FeedFacts, CalmTypes DEF Least
  <2>2. calm > 0 => calm = 1 \/ calm > 1
    BY CalmTypes
  <2> QED BY <1>1, <1>3, <1>4, <1>5, <2>1, <2>2, FeedFacts DEF PrimaryWins, SocketSeen, Claims, RowOutdated
<1> QED BY <1>6, <1>7, <1>8, <1>9

\* The lease row of the standby, once it is read two calm units after the worker
\* can have last seen another.
LEMMA StandbyRowSeen ==
  ASSUME CalmInv, calm > Throttle + 2,
         Fyers \in up, ~creds[Fyers], Upstox \in up, Upstox \in token
  PROVE  Elect(View(Fyers, TRUE)) = Upstox
<1> USE DEF CalmInv, Converging
<1>1. View(Fyers, TRUE) \in Views
  BY ViewsAreViews, FeedFacts
<1>2. lease[Upstox].beat <= Throttle + 1
  BY TimingFacts, CalmTypes DEF BeatsKept
<1>3. ~RowOutdated(Upstox)
  BY <1>2, TimingFacts, FeedFacts, CalmTypes DEF RowOutdated, Least
<1>4. Claims(Upstox)
  BY <1>3, TimingFacts, CalmTypes DEF StandbyWins
<1>5. View(Fyers, TRUE)[Upstox].ok /\ ~View(Fyers, TRUE)[Fyers].ok
  BY <1>2, <1>4, TimingFacts, FeedFacts, CalmTypes DEF View, Claims
<1> QED BY <1>1, <1>5, LoneCandidate, FeedFacts DEF Feeds

LEMMA AwardCalm ==
  ASSUME CalmInv, OwnershipAward, calm' # 0
  PROVE  Converging'
<1> USE DEF CalmInv, Converging
<1>1. /\ Fyers \in up /\ award' = Elect(View(Fyers, TRUE)) /\ ran' = ran \cup {"award"}
      /\ calm' = calm
      /\ UNCHANGED <<up, source, token, creds, tick, lease, poll, owned, made>>
  BY DEF OwnershipAward, Fine, Fail
<1>2. Delivering' = Delivering
  BY <1>1 DEF Delivering
<1>3. BeatsKept' /\ LossSeen' /\ SocketSeen' /\ TokenSeen' /\ OwnerGone'
  BY <1>1, <1>2 DEF BeatsKept, FlushOf, LossSeen, SocketSeen, TokenSeen, OwnerGone
<1>4. PrimaryWins'
  <2>1. ASSUME calm > 0, Delivering, creds[Fyers]
        PROVE  award' = Fyers
    <3>1. View(Fyers, TRUE) \in Views
      BY ViewsAreViews, FeedFacts
    <3>2. View(Fyers, TRUE)[Fyers].ok /\ View(Fyers, TRUE)[Fyers].age = 0
      BY <2>1, FeedFacts DEF View, SocketSeen
    <3>3. 0 <= Down /\ \A age : StateRank(0) <= StateRank(age)
      BY FeedFacts DEF StateRank
    <3> QED BY <1>1, <3>1, <3>2, <3>3, PrimaryElected
  <2> QED BY <1>1, <1>2, <2>1 DEF PrimaryWins, Claims, RowOutdated
<1>5. StandbyWins'
  <2>1. calm > Throttle + 3 => calm > Throttle + 2
    BY TimingFacts, CalmTypes
  <2> QED BY <1>1, <2>1, StandbyRowSeen DEF StandbyWins, Claims, RowOutdated
<1> QED BY <1>3, <1>4, <1>5

\* The row of a primary that delivers, as the standby reads it.
LEMMA PrimaryRowSeen ==
  ASSUME CalmInv, "poll" \notin ran, calm > Throttle + 2, Delivering, creds[Fyers]
  PROVE  Elect(View(Upstox, TRUE)) = Fyers
<1> USE DEF CalmInv, Converging
<1>1. View(Upstox, TRUE) \in Views
  BY ViewsAreViews, FeedFacts
<1>2. lease[Fyers].beat <= Throttle + 1
  BY TimingFacts, CalmTypes DEF BeatsKept, Delivering
<1>3. ~RowOutdated(Fyers)
  BY <1>2, TimingFacts, FeedFacts, CalmTypes DEF RowOutdated, Least
<1>4. Claims(Fyers) /\ lease[Fyers].tick <= lease[Fyers].beat
  BY <1>3, TimingFacts, CalmTypes DEF PrimaryWins
<1>5. lease[Fyers].tick \in Nat /\ lease[Fyers].beat \in Nat /\ tick[Upstox] \in Nat
  BY FeedFacts, CalmTypes
<1>6. /\ View(Upstox, TRUE)[Fyers].ok /\ View(Upstox, TRUE)[Fyers].age = lease[Fyers].tick
      /\ View(Upstox, TRUE)[Upstox].age = tick[Upstox]
  <2>1. lease[Fyers].beat <= Ttl
    BY <1>2, <1>5, TimingFacts, FeedFacts
  <2> QED BY <1>4, <2>1, FeedFacts DEF View, Claims
<1>7. lease[Fyers].tick <= Down /\ (Stale # 0 => lease[Fyers].tick <= Stale)
  BY <1>2, <1>4, <1>5, TimingFacts, FeedFacts
<1>8. Stale = 0 => ~(tick[Upstox] <= Stale)
  BY <1>5 DEF PollOnce
<1>9. StateRank(lease[Fyers].tick) <= StateRank(tick[Upstox])
  BY <1>5, <1>7, <1>8, FeedFacts DEF StateRank
<1> QED BY <1>1, <1>6, <1>7, <1>9, PrimaryElected

LEMMA DecideCalm ==
  ASSUME CalmInv, PollDecides, calm' # 0
  PROVE  Converging'
<1> USE DEF CalmInv, Converging
<1> DEFINE owner == Elect(View(Upstox, TRUE))
<1>1. /\ Upstox \in up /\ poll = "idle" /\ "poll" \notin ran
      /\ owned' = (owner = Upstox)
      /\ poll' = IF owner = Fyers THEN "standby" ELSE "fetch"
      /\ calm' = calm
      /\ UNCHANGED <<up, source, token, creds, tick, lease, award, ran, made>>
  BY DEF PollDecides, Fine, Fail
<1>2. Delivering' = Delivering
  BY <1>1 DEF Delivering
<1>3. BeatsKept' /\ LossSeen' /\ SocketSeen' /\ TokenSeen'
  BY <1>1, <1>2 DEF BeatsKept, FlushOf, LossSeen, SocketSeen, TokenSeen
<1>4. PrimaryWins'
  BY <1>1, <1>2, PrimaryRowSeen DEF PrimaryWins, Claims, RowOutdated
<1>5. View(Upstox, TRUE) \in Views
  BY ViewsAreViews, FeedFacts
<1>6. StandbyWins'
  <2>1. ASSUME calm > 1, Upstox \in token, poll' = "fetch"
        PROVE  owned'
    <3>1. creds[Upstox]
      <4>1. calm > 0
        BY <2>1, CalmTypes
      <4>2. creds[Upstox] = (Upstox \in token)
        BY <1>1, <2>1, <4>1, Zenon DEF TokenSeen
      <4> QED BY <2>1, <4>2
    <3>2. Upstox \in Candidates(View(Upstox, TRUE))
      BY <3>1, FeedFacts DEF View, Candidates
    <3>3. owner \in Feeds
      BY <1>5, <3>2, OwnerIsCandidate DEF Candidates
    <3> QED BY <1>1, <2>1, <3>3 DEF Feeds
  <2> QED BY <1>1, <2>1 DEF StandbyWins, Claims, RowOutdated
<1>7. OwnerGone'
  <2>1. ASSUME calm > Ttl, ~creds[Fyers]
        PROVE  owner # Fyers
    <3>1. lease[Fyers].creds => ~(lease[Fyers].beat <= Ttl)
      BY <2>1, TimingFacts, FeedFacts, CalmTypes DEF LossSeen, Least
    <3>2. ~View(Upstox, TRUE)[Fyers].ok
      BY <3>1, FeedFacts DEF View
    <3>3. Fyers \notin Candidates(View(Upstox, TRUE))
      BY <3>2 DEF Candidates
    <3> QED BY <1>5, <3>3, OwnerIsCandidate, FeedFacts
  <2> QED BY <1>1, <2>1 DEF OwnerGone
<1> QED BY <1>3, <1>4, <1>6, <1>7

LEMMA StandsByCalm ==
  ASSUME CalmInv, PollStandsBy, calm' # 0
  PROVE  Converging'
<1> USE DEF CalmInv, Converging
<1>1. /\ poll = "standby" /\ poll' = "idle" /\ ran' = ran \cup {"poll"} /\ Upstox \in up
      /\ creds' = [creds EXCEPT ![Upstox] = Upstox \in token]
      /\ Beat(Upstox, TRUE, creds'[Upstox])
      /\ UNCHANGED <<up, source, token, tick, award, made>>
  BY DEF PollStandsBy, PollEnds, TypeOK
<1>2. creds'[Fyers] = creds[Fyers] /\ creds'[Upstox] = (Upstox \in token)
  BY <1>1, FeedFacts DEF TypeOK
<1>3. /\ calm' = calm
      /\ lease'[Fyers] = lease[Fyers]
      /\ lease'[Upstox].beat <= Throttle /\ lease'[Upstox].beat <= lease[Upstox].beat
      /\ \/ lease'[Upstox] = lease[Upstox]
         \/ lease'[Upstox] = [covers |-> TRUE, creds |-> creds'[Upstox],
                              tick |-> tick[Upstox], beat |-> 0]
  <2>1. creds'[Upstox] \in BOOLEAN
    BY <1>2
  <2>2. tick'[Upstox] = tick[Upstox]
    BY <1>1
  <2> QED BY <1>1, <2>1, <2>2, CalmBeat, FeedFacts
<1>4. Delivering' = Delivering
  BY <1>1, <1>2 DEF Delivering
<1>5. BeatsKept'
  BY <1>1, <1>3, FeedFacts, TimingFacts, CalmTypes DEF BeatsKept, FlushOf, Feeds, TypeOK
<1>6. LossSeen' /\ SocketSeen' /\ TokenSeen' /\ OwnerGone'
  BY <1>1, <1>2, <1>3, <1>4 DEF LossSeen, SocketSeen, TokenSeen, OwnerGone
<1>7. PrimaryWins'
  BY <1>1, <1>2, <1>3, <1>4 DEF PrimaryWins, Claims, RowOutdated
<1>8. StandbyWins'
  <2>1. Upstox \in token => creds'[Upstox]
    BY <1>2
  <2> QED BY <1>1, <1>2, <1>3, <2>1 DEF StandbyWins, Claims, RowOutdated
<1> QED BY <1>5, <1>6, <1>7, <1>8

LEMMA UnauthorisedCalm ==
  ASSUME CalmInv, PollUnauthorised
  PROVE  Converging'
<1> USE DEF CalmInv, Converging
<1>1. /\ poll' = "idle" /\ ran' = ran \cup {"poll"} /\ Upstox \notin token
      /\ creds' = [creds EXCEPT ![Upstox] = FALSE]
      /\ UNCHANGED <<up, source, token, tick, lease, award, made, calm>>
  BY DEF PollUnauthorised, PollEnds, Fine
<1>2. creds'[Fyers] = creds[Fyers] /\ creds'[Upstox] = FALSE
  BY <1>1, FeedFacts DEF TypeOK
<1>3. Delivering' = Delivering
  BY <1>1, <1>2 DEF Delivering
<1>4. BeatsKept' /\ LossSeen' /\ SocketSeen' /\ OwnerGone'
  BY <1>1, <1>2, <1>3 DEF BeatsKept, FlushOf, LossSeen, SocketSeen, OwnerGone
<1>5. TokenSeen'
  <2>1. (Upstox \in token') = FALSE
    BY <1>1
  <2>2. creds'[Upstox] = (Upstox \in token')
    BY <1>2, <2>1
  <2> QED BY <2>2 DEF TokenSeen
<1>6. PrimaryWins' /\ StandbyWins'
  BY <1>1, <1>2, <1>3 DEF PrimaryWins, StandbyWins, Claims, RowOutdated
<1> QED BY <1>4, <1>5, <1>6

LEMMA FetchCalm ==
  ASSUME CalmInv, PollFetches, calm' # 0
  PROVE  Converging'
<1> USE DEF CalmInv, Converging
<1>1. /\ poll = "fetch" /\ poll' = "idle" /\ ran' = ran \cup {"poll"} /\ Upstox \in up
      /\ Upstox \in token /\ owned \in BOOLEAN
      /\ creds' = [creds EXCEPT ![Upstox] = TRUE]
      /\ Beat(Upstox, owned, TRUE)
      /\ UNCHANGED <<up, source, token, award>>
      /\ made' = IF Upstox \in source THEN made \cup {Upstox} ELSE made
      /\ tick'[Fyers] = tick[Fyers]
  BY FeedFacts DEF PollFetches, PollEnds, TypeOK
<1>2. creds'[Fyers] = creds[Fyers] /\ creds'[Upstox] = TRUE
  BY <1>1, FeedFacts DEF TypeOK
<1>3. /\ calm' = calm
      /\ lease'[Fyers] = lease[Fyers]
      /\ lease'[Upstox].beat <= Throttle /\ lease'[Upstox].beat <= lease[Upstox].beat
      /\ \/ lease'[Upstox] = lease[Upstox]
         \/ lease'[Upstox] = [covers |-> owned, creds |-> TRUE,
                              tick |-> tick'[Upstox], beat |-> 0]
  BY <1>1, CalmBeat, FeedFacts
<1>4. Delivering' = Delivering
  BY <1>1, <1>2 DEF Delivering
<1>5. BeatsKept'
  BY <1>1, <1>3, FeedFacts, TimingFacts, CalmTypes DEF BeatsKept, FlushOf, Feeds, TypeOK
<1>6. LossSeen' /\ TokenSeen' /\ OwnerGone'
  BY <1>1, <1>2, <1>3, <1>4 DEF LossSeen, TokenSeen, OwnerGone
<1>7. SocketSeen'
  BY <1>1, <1>3, <1>4, FeedFacts DEF SocketSeen
<1>8. PrimaryWins'
  BY <1>1, <1>2, <1>3, <1>4 DEF PrimaryWins, Claims, RowOutdated
<1>9. StandbyWins'
  <2>1. calm = 1 => Least(calm - 1, Expired) <= lease'[Upstox].beat
    BY <1>3, FeedFacts, CalmTypes DEF Least
  <2>2. calm > 0 => calm = 1 \/ calm > 1
    BY CalmTypes
  <2> QED BY <1>1, <1>2, <1>3, <2>1, <2>2, FeedFacts DEF StandbyWins, Claims, RowOutdated
<1> QED BY <1>5, <1>6, <1>7, <1>8, <1>9

\* A unit does not end before every timer of the processes that run went off.
LEMMA TimersWentOff ==
  ASSUME TypeOK, UnitOver, NEW f \in up, NEW t \in Timers(f), t # "tick" \/ Delivering
  PROVE  t \in ran
<1>1. t \in UNION {Timers(g) : g \in up}
  OBVIOUS
<1> QED BY <1>1 DEF UnitOver, Due

LEMMA ClockCalm ==
  ASSUME CalmInv, Clock
  PROVE  Converging'
<1> USE DEF CalmInv, Converging
<1>1. /\ ran' = {} /\ made' = {} /\ UnitOver
      /\ UNCHANGED <<up, source, token, creds, award, poll, owned>>
      /\ calm' = Older(calm, Settle)
  BY DEF Clock
<1>2. /\ calm' \in Nat /\ calm' <= calm + 1 /\ calm' > 0 /\ calm \in Nat
  BY <1>1, FeedFacts, TimingFacts, CalmTypes DEF Older, Least
<1>3. ASSUME NEW f \in Feeds
      PROVE  /\ lease'[f].covers = lease[f].covers /\ lease'[f].creds = lease[f].creds
             /\ lease'[f].tick = Least(lease[f].tick + 1, Never)
             /\ lease'[f].beat = Least(lease[f].beat + 1, Expired)
  BY FeedFacts DEF Clock, Older, TypeOK
<1>4. /\ Delivering => tick'[Fyers] = 0
      /\ ~Delivering => tick'[Fyers] = Least(tick[Fyers] + 1, Never)
  BY FeedFacts DEF Clock, Older
<1>5. Delivering' = Delivering
  <2>1. Delivering => Delivering'
    BY <1>1, <1>4, TimingFacts, FeedFacts DEF Delivering
  <2>2. Least(Never + 1, Never) = Never
    BY FeedFacts DEF Least
  <2>3. ~Delivering => ~Delivering'
    BY <1>1, <1>4, <2>2 DEF Delivering
  <2> QED BY <2>1, <2>3 DEF Delivering
<1>6. /\ Fyers \in up => "flushF" \in ran /\ "award" \in ran
      /\ Upstox \in up => "flushU" \in ran /\ "poll" \in ran
  <2>1. ASSUME NEW f \in up, NEW t \in Timers(f), t # "tick" PROVE t \in ran
    BY <1>1, <2>1, TimersWentOff
  <2>2. "flushF" \in Timers(Fyers) /\ "award" \in Timers(Fyers)
    BY DEF Timers
  <2>3. "flushU" \in Timers(Upstox) /\ "poll" \in Timers(Upstox)
    BY FeedFacts DEF Timers
  <2> QED BY <2>1, <2>2, <2>3
<1>7. poll = "idle" /\ poll' = "idle"
  BY <1>1, <1>6 DEF PollOnce, TypeOK
<1>8. ASSUME NEW f \in Feeds, NEW n \in Nat, Least(n, Expired) <= lease[f].beat
      PROVE  Least(n + 1, Expired) <= lease'[f].beat
  BY <1>3, <1>8, FeedFacts, CalmTypes DEF Least
<1>9. ASSUME NEW m \in Nat, NEW n \in Nat, NEW b \in Nat, m <= n, Least(n, Expired) <= b
      PROVE  Least(m, Expired) <= b
  BY <1>9, FeedFacts DEF Least
<1>10. BeatsKept'
  <2> SUFFICES ASSUME NEW f \in up, calm' > 1
               PROVE  lease'[f].beat <= Throttle + 1
    BY <1>1 DEF BeatsKept
  <2>1. f \in Feeds /\ FlushOf(f) \in ran
    BY <1>6 DEF FlushOf, Feeds, TypeOK
  <2>2. lease[f].beat <= Throttle
    BY <1>2, <2>1 DEF BeatsKept
  <2> QED BY <1>3, <2>1, <2>2, FeedFacts, TimingFacts, CalmTypes DEF Least
<1>11. LossSeen'
  <2> SUFFICES ASSUME ~creds[Fyers], lease[Fyers].creds
               PROVE  Least(calm', Expired) <= lease'[Fyers].beat
    BY <1>1, <1>3, FeedFacts DEF LossSeen
  <2>1. Least(calm + 1, Expired) <= lease'[Fyers].beat
    BY <1>2, <1>8, FeedFacts DEF LossSeen
  <2>2. lease'[Fyers].beat \in Nat
    BY <1>3, FeedFacts, CalmTypes DEF Least
  <2> QED BY <1>2, <1>9, <2>1, <2>2
<1>12. SocketSeen' /\ OwnerGone'
  BY <1>1, <1>4, <1>5, <1>7 DEF SocketSeen, OwnerGone
<1>13. TokenSeen'
  <2>1. calm' > 1 => calm > 0
    BY <1>2
  <2> QED BY <1>1, <1>6, <2>1 DEF TokenSeen
<1>14. ASSUME NEW f \in Feeds, calm = 0 \/ RowOutdated(f)
       PROVE  RowOutdated(f)'
  <2>1. lease'[f].beat \in Nat
    BY <1>3, FeedFacts, CalmTypes DEF Least
  <2>2. CASE calm = 0
    BY <1>2, <2>1, <2>2, FeedFacts DEF RowOutdated, Least
  <2>3. CASE calm > 0
    <3>1. calm - 1 \in Nat /\ (calm - 1) + 1 = calm
      BY <1>2, <2>3
    <3>2. Least(calm, Expired) <= lease'[f].beat
      BY <1>2, <1>8, <1>14, <2>3, <3>1 DEF RowOutdated
    <3>3. PICK n \in Nat : calm' = n
      BY <1>2
    <3>4. n - 1 \in Nat /\ n - 1 <= calm
      BY <1>2, <3>3
    <3>5. Least(n - 1, Expired) <= lease'[f].beat
      BY <1>2, <1>9, <2>1, <3>2, <3>4
    <3> QED BY <3>3, <3>5 DEF RowOutdated
  <2> QED BY <1>2, <2>2, <2>3
<1>15. PrimaryWins'
  <2> SUFFICES ASSUME Delivering, creds[Fyers]
               PROVE  /\ calm' > 1 => award = Fyers
                      /\ \/ Claims(Fyers)' /\ lease'[Fyers].tick <= lease'[Fyers].beat
                         \/ RowOutdated(Fyers)'
    BY <1>1, <1>5, <1>7 DEF PrimaryWins
  <2>1. calm' > 1 => award = Fyers
    BY <1>2, <1>6 DEF PrimaryWins, Delivering
  <2>2. CASE calm = 0 \/ RowOutdated(Fyers)
    BY <1>14, <2>1, <2>2, FeedFacts
  <2>3. CASE ~(calm = 0 \/ RowOutdated(Fyers))
    <3>1. Claims(Fyers) /\ lease[Fyers].tick <= lease[Fyers].beat
      BY <1>2, <2>3 DEF PrimaryWins
    <3>2. lease'[Fyers].tick <= lease'[Fyers].beat
      BY <1>3, <3>1, TimingFacts, FeedFacts, CalmTypes DEF Least
    <3>3. Claims(Fyers)'
      BY <1>3, <3>1, FeedFacts DEF Claims
    <3> QED BY <2>1, <3>2, <3>3
  <2> QED BY <2>2, <2>3
<1>16. StandbyWins'
  <2> SUFFICES ASSUME Fyers \in up, ~creds[Fyers], Upstox \in up, Upstox \in token
               PROVE  /\ Claims(Upstox)' \/ RowOutdated(Upstox)'
                      /\ calm' > Throttle + 3 => award = Upstox
    BY <1>1, <1>7 DEF StandbyWins
  <2>1. calm' > Throttle + 3 => award = Upstox
    BY <1>2, <1>6, TimingFacts DEF StandbyWins
  <2>2. CASE calm = 0 \/ RowOutdated(Upstox)
    BY <1>14, <2>1, <2>2, FeedFacts
  <2>3. CASE ~(calm = 0 \/ RowOutdated(Upstox))
    <3>1. Claims(Upstox)
      BY <1>2, <2>3 DEF StandbyWins
    <3>2. Claims(Upstox)'
      BY <1>3, <3>1, FeedFacts DEF Claims
    <3> QED BY <2>1, <3>2
  <2> QED BY <2>2, <2>3
<1> QED BY <1>10, <1>11, <1>12, <1>13, <1>15, <1>16

LEMMA CalmStep ==
  ASSUME CalmInv, [Next]_vars
  PROVE  CalmInv'
<1>1. TypeOK /\ PollOnce /\ Converging /\ TypeOK' /\ PollOnce'
  BY FeedsTypedStep, PollOnceStep DEF CalmInv
<1>2. CASE calm' = 0
  BY <1>1, <1>2, Disturbed DEF CalmInv
<1>3. ASSUME calm' # 0
      PROVE  Converging'
  <2>1. CASE FyersTick
    BY <2>1, TickCalm
  <2>2. CASE OwnershipBeat
    BY <1>3, <2>2, OwnershipBeatCalm
  <2>3. CASE OwnershipAward
    BY <1>3, <2>3, AwardCalm
  <2>4. CASE PollDecides
    BY <1>3, <2>4, DecideCalm
  <2>5. CASE PollStandsBy
    BY <1>3, <2>5, StandsByCalm
  <2>6. CASE PollUnauthorised
    BY <2>6, UnauthorisedCalm
  <2>7. CASE PollFetches
    BY <1>3, <2>7, FetchCalm
  <2>8. ASSUME NEW f \in Feeds, Flush(f) PROVE Converging'
    BY <1>3, <2>8, FlushCalm
  <2>9. CASE Clock
    BY <2>9, ClockCalm
  <2>10. ~MeasureFyers /\ ~World
    BY <1>3 DEF MeasureFyers, World, Crash, Restart, Lose, Regain, Fail
  <2>11. CASE UNCHANGED vars
    BY <1>1, <2>11 DEF vars, Converging, BeatsKept, LossSeen, SocketSeen, TokenSeen,
                       PrimaryWins, StandbyWins, OwnerGone, Claims, RowOutdated, Delivering
  <2> QED BY <2>1, <2>2, <2>3, <2>4, <2>5, <2>6, <2>7, <2>8, <2>9, <2>10, <2>11
          DEF Next, Worker, Desk
<1> QED BY <1>1, <1>2, <1>3 DEF CalmInv

LEMMA CalmInit == Init => CalmInv
<1> SUFFICES ASSUME Init PROVE CalmInv
  OBVIOUS
<1>1. TypeOK
  BY InitType
<1>2. PollOnce
  BY FeedFacts DEF Init, PollOnce, Never
<1>3. BeatsKept /\ SocketSeen /\ TokenSeen /\ PrimaryWins /\ StandbyWins /\ OwnerGone
  BY FeedFacts DEF Init, BeatsKept, SocketSeen, TokenSeen, PrimaryWins, StandbyWins, OwnerGone
<1>4. LossSeen
  BY FeedFacts DEF Init, LossSeen, NoLease
<1> QED BY <1>1, <1>2, <1>3, <1>4 DEF CalmInv, Converging

LEMMA ElectionSettles == Spec => []CalmInv
BY CalmInit, CalmStep, PTL DEF Spec

\* Two processes that only share a table of leases end up with one producer, for
\* every choice of thresholds that TimingAssumption allows and any faults before.
THEOREM OneProducer == Spec => []SoleProducer
<1>1. CalmInv => SoleProducer
  <2> SUFFICES ASSUME CalmInv, calm = Settle, made = Feeds PROVE FALSE
    BY DEF SoleProducer, Settled
  <2> USE DEF CalmInv, Converging
  <2>1. Fyers \in made /\ Upstox \in made
    BY FeedFacts
  <2>2. calm > 0 /\ calm > Throttle + 2 /\ calm > Throttle + 3
    BY TimingFacts, FeedFacts
  <2>3. Delivering /\ Upstox \in up /\ Upstox \in token
    BY <2>1, <2>2 DEF SocketSeen
  <2>4. CASE creds[Fyers]
    BY <2>1, <2>2, <2>3, <2>4 DEF PrimaryWins
  <2>5. CASE ~creds[Fyers]
    BY <2>1, <2>2, <2>3, <2>5 DEF StandbyWins, Delivering
  <2> QED BY <2>4, <2>5
<1> QED BY <1>1, ElectionSettles, PTL

\* The primary that delivers serves the universe, alone.
THEOREM PrimaryComesBack == Spec => []PrimaryServes
<1>1. CalmInv => PrimaryServes
  <2> SUFFICES ASSUME CalmInv, calm = Settle, UnitOver, Delivering, creds[Fyers]
               PROVE  made = {Fyers}
    BY DEF PrimaryServes, Settled
  <2> USE DEF CalmInv, Converging
  <2>1. calm > 0 /\ calm > 1 /\ calm > Throttle + 2
    BY TimingFacts, FeedFacts
  <2>2. "tick" \in ran
    <3>1. Fyers \in up /\ "tick" \in Timers(Fyers)
      BY DEF Delivering, Timers
    <3> QED BY <3>1, TimersWentOff
  <2>3. Fyers \in made /\ Upstox \notin made
    BY <2>1, <2>2 DEF PrimaryWins
  <2> QED BY <2>3 DEF TypeOK, Feeds
<1> QED BY <1>1, ElectionSettles, PTL

\* The standby never waits for an owner that is gone.
THEOREM StandbyNeverWaits == Spec => []StandbyTakesOver
<1>1. CalmInv => StandbyTakesOver
  <2> SUFFICES ASSUME CalmInv, calm = Settle, UnitOver, Ready(Upstox), ~creds[Fyers]
               PROVE  Upstox \in made
    BY DEF StandbyTakesOver, Settled
  <2> USE DEF CalmInv, Converging
  <2>1. "poll" \in ran
    <3>1. Upstox \in up /\ "poll" \in Timers(Upstox)
      BY FeedFacts DEF Ready, Timers
    <3> QED BY <3>1, TimersWentOff
  <2>2. calm > Ttl
    BY TimingFacts
  <2> QED BY <2>1, <2>2 DEF OwnerGone, Ready
<1> QED BY <1>1, ElectionSettles, PTL
-----------------------------------------------------------------------------
(* TokenSupervisor: what holds of a call, of a row and of the types         *)

LEMMA TokenNumbers ==
  /\ MaxRows \in Nat /\ MaxFailures \in Nat /\ MaxRows > 0 /\ MaxFailures > 0
  /\ Cooldown \in Nat /\ MaxLag \in Nat /\ MaxBreaks \in Nat
  /\ NoRow \notin Rows /\ Outdated \notin Rows /\ NoRow # Outdated
  /\ 0 \in Lags /\ MaxLag \in Lags /\ Lags \subseteq Nat
  /\ IsFiniteSet(Lags) /\ Cardinality(Lags) = MaxLag + 1
<1>1. /\ MaxRows \in Nat /\ MaxFailures \in Nat /\ MaxRows > 0 /\ MaxFailures > 0
      /\ Cooldown \in Nat /\ MaxLag \in Nat /\ MaxBreaks \in Nat
  BY SupervisorAssumption DEF SupervisorAssumption
<1>2. NoRow \notin Rows /\ Outdated \notin Rows /\ NoRow # Outdated
  BY <1>1 DEF Rows, NoRow, Outdated
<1>3. IsFiniteSet(Lags) /\ Cardinality(Lags) = MaxLag + 1
  BY <1>1, FS_Interval DEF Lags
<1> QED
  BY <1>1, <1>2, <1>3 DEF Lags

\* Calls and rows, and what becomes of them.
LEMMA CallFacts ==
  /\ Idle \in Calls /\ Begun \in Calls
  /\ Idle.at = "idle" /\ Begun.at = "health" /\ Idle.row = NoRow /\ Begun.row = NoRow
  /\ Idle.key = Outdated
<1>1. Idle \in Calls /\ Idle.at = "idle" /\ Idle.row = NoRow /\ Idle.key = Outdated
  BY DEF Idle, Calls, Grants
<1>2. Begun \in Calls /\ Begun.at = "health" /\ Begun.row = NoRow
  BY <1>1 DEF Begun, Calls
<1> QED
  BY <1>1, <1>2

LEMMA CallGoes ==
  ASSUME NEW c \in Calls
  PROVE  /\ \A a \in {"idle", "health", "key"} \cup Refreshing : [c EXCEPT !.at = a] \in Calls
         /\ \A w \in Rows \cup {NoRow, Outdated} :
              [c EXCEPT !.at = "grant", !.key = w] \in Calls
         /\ \A g \in Grants : [c EXCEPT !.at = "fetch", !.grant = g] \in Calls
         /\ \A r \in Rows : [c EXCEPT !.at = "collapse", !.row = r] \in Calls
         /\ \A r \in Rows : Rekeyed(r, c) \in Calls
         /\ Overtaken(c) \in Calls
         /\ \A r \in Rows : Overtaken(Rekeyed(r, c)) \in Calls
<1>1. \A a \in {"idle", "health", "key"} \cup Refreshing : [c EXCEPT !.at = a] \in Calls
  BY DEF Calls
<1>2. \A w \in Rows \cup {NoRow, Outdated} : [c EXCEPT !.at = "grant", !.key = w] \in Calls
  BY DEF Calls, Refreshing
<1>3. \A g \in Grants : [c EXCEPT !.at = "fetch", !.grant = g] \in Calls
  BY DEF Calls, Refreshing
<1>4. \A r \in Rows : [c EXCEPT !.at = "collapse", !.row = r] \in Calls
  BY DEF Calls, Refreshing, Storing
<1>5. \A r \in Rows : Rekeyed(r, c) \in Calls
  BY DEF Calls, Rekeyed
<1>6. \A d \in Calls : Overtaken(d) \in Calls
  BY DEF Calls, Overtaken, Aged, Grants
<1> QED
  BY <1>1, <1>2, <1>3, <1>4, <1>5, <1>6

LEMMA CallKeeps ==
  ASSUME NEW c \in Calls, NEW r \in Rows
  PROVE  /\ Rekeyed(r, c).at = c.at /\ Rekeyed(r, c).row = c.row
         /\ Rekeyed(r, c).grant = c.grant
         /\ Rekeyed(r, c).key = IF c.key = r THEN Outdated ELSE c.key
         /\ Overtaken(c).at = c.at /\ Overtaken(c).row = c.row
         /\ Overtaken(c).key = c.key /\ Overtaken(c).grant = Aged(c.grant)
BY DEF Calls, Rekeyed, Overtaken

LEMMA StoredRow ==
  ASSUME NEW g \in Grants
  PROVE  /\ Stored(g) \in TokenRows
         /\ Stored(g).status = "active" /\ Stored(g).failed = 0 /\ Stored(g).grant = g
BY TokenNumbers DEF Stored, TokenRows
-----------------------------------------------------------------------------
Refreshers == {k \in Lags : checks[k].at \in Refreshing}

\* A call that writes nothing has no row in hand, and a login does nothing but write.
CallsTyped ==
  /\ \A k \in Lags : checks[k].at \notin Storing => checks[k].row = NoRow
  /\ \A l \in Logins : logins[l] = Idle \/ logins[l].at \in Storing

FirstTyped == first \in Active \/ (first = NoRow /\ Active = {})

\* TokenTypeOK, but for the bound of the counter.
TokensTyped ==
  /\ rows \in [Rows -> TokenRows]
  /\ FirstTyped
  /\ checks \in [Lags -> Calls] /\ logins \in [Logins -> Calls]
  /\ inFlight \in BOOLEAN /\ since \in 0..(MaxLag + Cooldown)
  /\ count \in Nat
  /\ countedFor \in Rows \cup {NoRow, Outdated}
  /\ newest \in {"never"} \cup Grants /\ {raced, contested} \subseteq BOOLEAN
  /\ breaks \in 0..MaxBreaks
  /\ CallsTyped

LEMMA CurrentFacts ==
  ASSUME TokensTyped
  PROVE  /\ Active \subseteq Rows /\ Current \subseteq Active
         /\ first \in Rows \cup {NoRow}
         /\ (Current = {} /\ first = NoRow /\ Active = {})
            \/ (Current = {first} /\ first \in Active)
BY TokenNumbers DEF TokensTyped, FirstTyped, Active, Current

LEMMA FoundFacts ==
  ASSUME TokensTyped, NEW c \in Calls, c.row = NoRow
  PROVE  /\ Found(c) \in Calls /\ Found(c).at \in Storing
         /\ Found(c).grant = c.grant /\ Found(c).key = c.key
         /\ Found(c).at = "save" => Found(c).row = NoRow /\ Active = {}
         /\ Found(c).at = "collapse" => Found(c).row = first /\ first \in Active
<1>1. CASE Current = {}
  <2>1. Found(c) = [c EXCEPT !.at = "save"] /\ Active = {}
    BY <1>1, CurrentFacts DEF Found
  <2>2. Found(c) \in Calls
    BY <2>1 DEF Calls, Refreshing, Storing
  <2> QED
    BY <2>1, <2>2 DEF Calls, Storing
<1>2. CASE Current # {}
  <2>1. Current = {first} /\ first \in Active /\ first \in Rows
    BY <1>2, CurrentFacts
  <2>2. (CHOOSE r \in Current : TRUE) = first
    BY <2>1
  <2>3. Found(c) = [c EXCEPT !.at = "collapse", !.row = first]
    BY <1>2, <2>2 DEF Found
  <2>4. Found(c) \in Calls
    BY <2>1, <2>3, CallGoes
  <2> QED
    BY <2>1, <2>3, <2>4 DEF Calls, Storing
<1> QED
  BY <1>1, <1>2

LEMMA StatusKept ==
  ASSUME TokensTyped, \A r \in Rows : rows'[r].status = rows[r].status,
         first' = first
  PROVE  Active' = Active /\ FirstTyped'
<1>1. Active' = Active
  BY DEF Active
<1> QED
  BY <1>1 DEF FirstTyped, TokensTyped

LEMMA ReorderedFirst ==
  ASSUME Reordered
  PROVE  FirstTyped'
BY DEF Reordered, FirstTyped

\* Statements put rows into the table that are rows.
LEMMA CollapseRows ==
  ASSUME TokensTyped, NEW r \in Rows \cup {NoRow}, CollapseBut(r)
  PROVE  /\ rows' \in [Rows -> TokenRows] /\ FirstTyped'
         /\ Active' = Active \cap {r}
         /\ \A q \in Rows : /\ rows'[q].grant = rows[q].grant
                            /\ rows'[q].failed = rows[q].failed
<1>1. \A q \in Rows : [rows[q] EXCEPT !.status = "revoked"] \in TokenRows
  BY DEF TokensTyped, TokenRows
<1>2. rows' \in [Rows -> TokenRows]
  BY <1>1 DEF CollapseBut, TokensTyped
<1>3. \A q \in Rows : rows'[q] = IF q \in Active \ {r}
                                 THEN [rows[q] EXCEPT !.status = "revoked"] ELSE rows[q]
  BY DEF CollapseBut
<1>4. \A q \in Rows : /\ rows'[q].status = IF q \in Active \ {r} THEN "revoked" ELSE rows[q].status
                      /\ rows'[q].grant = rows[q].grant
                      /\ rows'[q].failed = rows[q].failed
  <2> SUFFICES ASSUME NEW q \in Rows
               PROVE  /\ rows'[q].status = IF q \in Active \ {r} THEN "revoked" ELSE rows[q].status
                      /\ rows'[q].grant = rows[q].grant
                      /\ rows'[q].failed = rows[q].failed
    OBVIOUS
  <2>1. rows[q] \in TokenRows
    BY DEF TokensTyped
  <2>2. CASE q \in Active \ {r}
    <3>1. rows'[q] = [rows[q] EXCEPT !.status = "revoked"]
      BY <1>3, <2>2
    <3> QED
      BY <2>1, <2>2, <3>1 DEF TokenRows
  <2>3. CASE q \notin Active \ {r}
    <3>1. rows'[q] = rows[q]
      BY <1>3, <2>3
    <3> QED
      BY <2>3, <3>1
  <2> QED
    BY <2>2, <2>3
<1>5. Active' = Active \cap {r}
  BY <1>4 DEF Active
<1> QED
  BY <1>2, <1>4, <1>5, ReorderedFirst DEF CollapseBut

LEMMA TargetRows ==
  ASSUME TokensTyped, NEW c \in Calls, NEW r \in Target(c)
  PROVE  /\ r \in Rows
         /\ c.row # NoRow => r = c.row
         /\ c.row = NoRow => r \notin Active
<1>1. CASE c.row # NoRow
  BY <1>1 DEF Target, Calls
<1>2. CASE c.row = NoRow
  <2>1. r \in Vacant
    BY <1>2 DEF Target
  <2> QED
    BY <2>1, <1>2 DEF Vacant, Active
<1> QED
  BY <1>1, <1>2

LEMMA StoreActive ==
  ASSUME TokensTyped, NEW r \in Rows, rows'[r].status = "active",
         \A q \in Rows \ {r} : rows'[q].status = rows[q].status
  PROVE  Active' = Active \cup {r}
BY DEF Active

\* A refresh that fails leaves the table as it is.
LEMMA FailedRows ==
  ASSUME TokensTyped, NEW k \in Lags, RefreshFails(k)
  PROVE  /\ rows' \in [Rows -> TokenRows] /\ FirstTyped' /\ Active' = Active
         /\ \A q \in Rows : /\ rows'[q].grant = rows[q].grant
                            /\ rows'[q].failed = IF q = checks[k].key THEN OneMore(rows[q].failed)
                                                 ELSE rows[q].failed
<1>1. \A q \in Rows : OneMore(rows[q].failed) \in 0..(MaxFailures + 1)
  BY TokenNumbers DEF TokensTyped, TokenRows, OneMore
<1>2. \A q \in Rows : [rows[q] EXCEPT !.failed = OneMore(@)] \in TokenRows
  BY <1>1 DEF TokensTyped, TokenRows
<1>3. rows' \in [Rows -> TokenRows]
  BY <1>2 DEF RefreshFails, TokensTyped
<1>4. \A q \in Rows : rows'[q] = IF q = checks[k].key THEN [rows[q] EXCEPT !.failed = OneMore(@)]
                                 ELSE rows[q]
  BY DEF RefreshFails
<1>5. \A q \in Rows : /\ rows'[q].grant = rows[q].grant
                      /\ rows'[q].status = rows[q].status
                      /\ rows'[q].failed = IF q = checks[k].key THEN OneMore(rows[q].failed)
                                           ELSE rows[q].failed
  BY <1>4 DEF TokensTyped, TokenRows
<1>6. first' = first
  BY DEF RefreshFails
<1> QED
  BY <1>3, <1>5, <1>6, StatusKept

RowsOfChecks == \A k \in Lags : checks[k].at \notin Storing => checks[k].row = NoRow

LEMMA CheckMoves ==
  ASSUME TokensTyped, NEW k \in Lags, NEW c \in Calls, Goes(k, c),
         c.at \notin Storing => c.row = NoRow
  PROVE  /\ checks' \in [Lags -> Calls] /\ RowsOfChecks'
         /\ checks'[k] = c /\ \A j \in Lags \ {k} : checks'[j] = checks[j]
<1>1. checks' \in [Lags -> Calls] /\ checks'[k] = c
      /\ \A j \in Lags \ {k} : checks'[j] = checks[j]
  BY DEF TokensTyped, Goes
<1> QED
  BY <1>1 DEF TokensTyped, CallsTyped, RowsOfChecks

\* What is left to show of a step that leaves the logins alone.
LEMMA ChecksTyped ==
  ASSUME TokensTyped, UNCHANGED <<logins, newest>>,
         checks' \in [Lags -> Calls], RowsOfChecks',
         rows' \in [Rows -> TokenRows], FirstTyped',
         inFlight' \in BOOLEAN, since' \in 0..(MaxLag + Cooldown), count' \in Nat,
         countedFor' \in Rows \cup {NoRow, Outdated},
         raced' \in BOOLEAN, contested' \in BOOLEAN, breaks' \in 0..MaxBreaks
  PROVE  TokensTyped'
BY DEF TokensTyped, CallsTyped, RowsOfChecks

LEMMA TokenTypes ==
  ASSUME TokensTyped
  PROVE  /\ \A k \in Lags : checks[k] \in Calls
         /\ \A l \in Logins : logins[l] \in Calls
         /\ \A r \in Rows : rows[r] \in TokenRows
         /\ \A k \in Lags : checks[k].at \notin Storing => checks[k].row = NoRow
         /\ rows \in [Rows -> TokenRows] /\ FirstTyped
         /\ inFlight \in BOOLEAN /\ since \in 0..(MaxLag + Cooldown) /\ since \in Nat
         /\ count \in Nat
         /\ countedFor \in Rows \cup {NoRow, Outdated} /\ newest \in {"never"} \cup Grants
         /\ raced \in BOOLEAN /\ contested \in BOOLEAN /\ breaks \in 0..MaxBreaks
BY TokenNumbers DEF TokensTyped, CallsTyped

LEMMA Broken ==
  ASSUME TokensTyped, Break
  PROVE  breaks' \in 0..MaxBreaks
BY TokenNumbers DEF Break, TokensTyped

LEMMA TimerShifts ==
  ASSUME TokensTyped, Timer
  PROVE  /\ checks' \in [Lags -> Calls] /\ checks'[0] = Begun
         /\ \A k \in Lags \ {0} : k - 1 \in Lags /\ checks'[k] = checks[k - 1]
         /\ checks[MaxLag] = Idle
         /\ rows' \in [Rows -> TokenRows] /\ Active' = Active /\ first' = first
         /\ FirstTyped'
         /\ \A r \in Rows : /\ rows'[r].grant = rows[r].grant
                            /\ rows'[r].failed = rows[r].failed
<1>1. \A k \in Lags \ {0} : k - 1 \in Lags
  BY TokenNumbers DEF Lags
<1>2. checks' = [k \in Lags |-> IF k = 0 THEN Begun ELSE checks[k - 1]]
  BY DEF Timer
<1>3. checks' \in [Lags -> Calls]
  BY <1>1, <1>2, CallFacts DEF TokensTyped
<1>4. checks'[0] = Begun /\ \A k \in Lags \ {0} : checks'[k] = checks[k - 1]
  BY <1>2, TokenNumbers
<1>5. PICK due \in SUBSET Active :
        rows' = [r \in Rows |-> [rows[r] EXCEPT !.fresh = @ /\ r \notin due]]
  BY DEF Timer
<1>6. \A r \in Rows : [rows[r] EXCEPT !.fresh = @ /\ r \notin due] \in TokenRows
  <2> SUFFICES ASSUME NEW r \in Rows
               PROVE  [rows[r] EXCEPT !.fresh = @ /\ r \notin due] \in TokenRows
    OBVIOUS
  <2>1. rows[r] \in TokenRows /\ rows[r].fresh \in BOOLEAN
    BY DEF TokensTyped, TokenRows
  <2> DEFINE b == rows[r].fresh /\ r \notin due
  <2>2. b \in BOOLEAN
    OBVIOUS
  <2> HIDE DEF b
  <2>3. [rows[r] EXCEPT !.fresh = b] \in TokenRows
    BY <2>1, <2>2 DEF TokenRows
  <2> QED
    BY <2>3 DEF b
<1>7. \A r \in Rows : /\ rows'[r].grant = rows[r].grant
                      /\ rows'[r].status = rows[r].status
                      /\ rows'[r].failed = rows[r].failed
  BY <1>5 DEF TokensTyped, TokenRows
<1>8. rows' \in [Rows -> TokenRows]
  BY <1>5, <1>6
<1>9. first' = first /\ checks[MaxLag] = Idle
  BY DEF Timer
<1> QED
  BY <1>1, <1>3, <1>4, <1>7, <1>8, <1>9, StatusKept

LEMMA TimerTyped ==
  ASSUME TokensTyped, Timer
  PROVE  TokensTyped'
<1>1. since' \in 0..(MaxLag + Cooldown)
  BY TokenNumbers, TokenTypes DEF Timer
<1>2. RowsOfChecks'
  BY TimerShifts, TokenTypes, CallFacts DEF RowsOfChecks
<1>3. UNCHANGED <<logins, inFlight, count, countedFor, newest, raced, contested, breaks>>
  BY DEF Timer, history
<1> QED
  BY <1>1, <1>2, <1>3, TimerShifts, TokenTypes, ChecksTyped

LEMMA HealthTyped ==
  ASSUME TokensTyped, NEW k \in Lags, CheckHealth(k)
  PROVE  TokensTyped'
<1> DEFINE goesOn == /\ \E r \in Current : ~rows[r].fresh
                     /\ \E r \in Rows : rows[r].grant # "none"
                     /\ ~inFlight
           c == IF goesOn THEN [checks[k] EXCEPT !.at = "key"] ELSE Idle
<1>1. c \in Calls /\ (c.at \notin Storing => c.row = NoRow)
  <2>1. [checks[k] EXCEPT !.at = "key"] \in Calls /\ checks[k].row = NoRow
    BY TokenTypes, CallGoes DEF CheckHealth, Storing
  <2> QED
    BY <2>1, CallFacts, TokenTypes DEF Calls
<1>2. Goes(k, c) /\ raced' = (raced \/ (goesOn /\ \E j \in Lags : checks[j].at = "key"))
      /\ UNCHANGED <<rows, first, logins, inFlight, since, count, countedFor, newest,
                     contested, breaks>>
  BY DEF CheckHealth, table, memory
<1>3. checks' \in [Lags -> Calls] /\ RowsOfChecks'
  BY <1>1, <1>2, CheckMoves
<1>4. raced' \in BOOLEAN
  BY <1>2, TokenTypes
<1>5. FirstTyped'
  BY <1>2, StatusKept
<1> QED
  BY <1>2, <1>3, <1>4, <1>5, TokenTypes, ChecksTyped

\* What Decide comes to.
LEMMA Decided ==
  ASSUME TokensTyped, NEW k \in Lags, Decide(k)
  PROVE  \E n \in Nat, go \in BOOLEAN :
           /\ checks[k].at = "key"
           /\ n = (IF countedFor = first THEN count ELSE 0)
           /\ go => n < MaxFailures
           /\ countedFor' = first /\ count' = n
           /\ inFlight' = (inFlight \/ go)
           /\ since' = IF go THEN k ELSE since
           /\ Goes(k, IF go THEN [checks[k] EXCEPT !.at = "grant", !.key = first] ELSE Idle)
           /\ UNCHANGED <<rows, first, logins, newest, raced, contested, breaks>>
<1> DEFINE key == IF Current = {} THEN NoRow ELSE CHOOSE r \in Current : TRUE
           n   == IF countedFor = key THEN count ELSE 0
           go  == n < MaxFailures /\ since - k >= Cooldown
<1>1. key = first
  BY CurrentFacts
<1>2. n \in Nat
  BY TokenTypes
<1>3. go \in BOOLEAN /\ (go => n < MaxFailures)
  OBVIOUS
<1>4. /\ checks[k].at = "key"
      /\ countedFor' = key /\ count' = n
      /\ inFlight' = (inFlight \/ go)
      /\ since' = IF go THEN k ELSE since
      /\ Goes(k, IF go THEN [checks[k] EXCEPT !.at = "grant", !.key = key] ELSE Idle)
      /\ UNCHANGED <<rows, first, logins, newest, raced, contested, breaks>>
  BY DEF Decide, table, history
<1>5. n = IF countedFor = first THEN count ELSE 0
  BY <1>1
<1> HIDE DEF key, go, n
<1> QED
  BY <1>1, <1>2, <1>3, <1>4, <1>5

LEMMA DecideTyped ==
  ASSUME TokensTyped, NEW k \in Lags, Decide(k)
  PROVE  TokensTyped'
<1>1. PICK n \in Nat, go \in BOOLEAN :
           /\ checks[k].at = "key"
           /\ countedFor' = first /\ count' = n
           /\ inFlight' = (inFlight \/ go)
           /\ since' = IF go THEN k ELSE since
           /\ Goes(k, IF go THEN [checks[k] EXCEPT !.at = "grant", !.key = first] ELSE Idle)
           /\ UNCHANGED <<rows, first, logins, newest, raced, contested, breaks>>
  BY Decided
<1> DEFINE c == IF go THEN [checks[k] EXCEPT !.at = "grant", !.key = first] ELSE Idle
<1>2. first \in Rows \cup {NoRow, Outdated}
  BY CurrentFacts
<1>3. c \in Calls /\ (c.at \notin Storing => c.row = NoRow)
  <2>1. [checks[k] EXCEPT !.at = "grant", !.key = first] \in Calls
    BY <1>2, TokenTypes, CallGoes
  <2>2. checks[k].row = NoRow
    BY <1>1, TokenTypes DEF Storing
  <2> QED
    BY <2>1, <2>2, TokenTypes, CallFacts DEF Calls
<1>4. Goes(k, c)
  BY <1>1
<1> HIDE DEF c
<1>5. checks' \in [Lags -> Calls] /\ RowsOfChecks'
  BY <1>3, <1>4, CheckMoves
<1>6. since' \in 0..(MaxLag + Cooldown)
  BY <1>1, TokenTypes, TokenNumbers DEF Lags
<1>7. FirstTyped'
  BY <1>1, StatusKept
<1>8. inFlight' \in BOOLEAN
  BY <1>1, TokenTypes
<1> QED
  BY <1>1, <1>2, <1>5, <1>6, <1>7, <1>8, TokenTypes, ChecksTyped

\* What a refresh that fails does to the memory of the process.
LEMMA FailMoves ==
  ASSUME TokensTyped, NEW k \in Lags, RefreshFails(k)
  PROVE  /\ checks' \in [Lags -> Calls] /\ RowsOfChecks'
         /\ checks'[k] = Idle /\ \A j \in Lags \ {k} : checks'[j] = checks[j]
         /\ count' = count + 1 /\ count' \in Nat /\ inFlight' = FALSE
         /\ UNCHANGED <<first, logins, since, countedFor>>
<1>1. /\ count' = count + 1 /\ inFlight' = FALSE /\ Goes(k, Idle)
      /\ UNCHANGED <<first, logins, since, countedFor>>
  BY DEF RefreshFails
<1>2. count' \in Nat
  BY <1>1, TokenTypes
<1> QED
  BY <1>1, <1>2, CheckMoves, CallFacts

LEMMA FailTyped ==
  ASSUME TokensTyped, NEW k \in Lags, RefreshFails(k), UNCHANGED newest,
         raced' \in BOOLEAN, contested' \in BOOLEAN, breaks' \in 0..MaxBreaks
  PROVE  TokensTyped'
BY FailMoves, FailedRows, TokenTypes, ChecksTyped

LEMMA ReadGrantTyped ==
  ASSUME TokensTyped, NEW k \in Lags, ReadGrant(k)
  PROVE  TokensTyped'
<1>1. checks[k].at = "grant" /\ UNCHANGED <<newest, raced, breaks>>
  BY DEF ReadGrant
<1>2. CASE /\ RefreshFails(k) /\ UNCHANGED contested
  BY <1>1, <1>2, FailTyped, TokenTypes
<1>3. CASE \E r \in Current :
          /\ rows[r].grant # "none"
          /\ Goes(k, [checks[k] EXCEPT !.at = "fetch", !.grant = rows[r].grant])
          /\ contested' = (contested \/ OthersBusy(k))
          /\ UNCHANGED <<table, logins, memory>>
  <2>1. PICK r \in Current :
          /\ Goes(k, [checks[k] EXCEPT !.at = "fetch", !.grant = rows[r].grant])
          /\ contested' = (contested \/ OthersBusy(k))
          /\ UNCHANGED <<rows, first, logins, inFlight, since, count, countedFor>>
    BY <1>3 DEF table, memory
  <2>2. rows[r].grant \in Grants
    BY TokenTypes, CurrentFacts DEF TokenRows
  <2> DEFINE c == [checks[k] EXCEPT !.at = "fetch", !.grant = rows[r].grant]
  <2>3. c \in Calls
    BY <2>2, TokenTypes, CallGoes
  <2>4. c.row = NoRow
    BY <1>1, TokenTypes DEF Calls, Storing
  <2>5. checks' \in [Lags -> Calls] /\ RowsOfChecks'
    BY <2>1, <2>3, <2>4, CheckMoves
  <2>6. contested' \in BOOLEAN
    BY <2>1, TokenTypes
  <2>7. FirstTyped'
    BY <2>1, StatusKept
  <2> QED
    BY <1>1, <2>1, <2>5, <2>6, <2>7, TokenTypes, ChecksTyped
<1> QED
  BY <1>2, <1>3 DEF ReadGrant

LEMMA FetchTyped ==
  ASSUME TokensTyped, NEW k \in Lags, Fetch(k)
  PROVE  TokensTyped'
<1>1. checks[k].at = "fetch" /\ UNCHANGED <<newest, raced, contested, breaks>>
  BY DEF Fetch, history
<1>2. CASE RefreshFails(k)
  BY <1>1, <1>2, FailTyped, TokenTypes
<1>3. CASE Goes(k, Found(checks[k])) /\ UNCHANGED <<table, logins, memory>>
  <2>1. UNCHANGED <<rows, first, logins, inFlight, since, count, countedFor>>
    BY <1>3 DEF table, memory
  <2>2. checks[k].row = NoRow
    BY <1>1, TokenTypes DEF Storing
  <2>3. Found(checks[k]) \in Calls /\ Found(checks[k]).at \in Storing
    BY <2>2, TokenTypes, FoundFacts
  <2>4. checks' \in [Lags -> Calls] /\ RowsOfChecks'
    BY <1>3, <2>3, CheckMoves
  <2>5. FirstTyped'
    BY <2>1, StatusKept
  <2> QED
    BY <1>1, <2>1, <2>4, <2>5, TokenTypes, ChecksTyped
<1> QED
  BY <1>2, <1>3 DEF Fetch

LEMMA CollapseTyped ==
  ASSUME TokensTyped, NEW k \in Lags, Collapse(k)
  PROVE  TokensTyped'
<1>1. /\ checks[k].at = "collapse" /\ CollapseBut(checks[k].row)
      /\ Goes(k, [checks[k] EXCEPT !.at = "save"])
      /\ UNCHANGED <<logins, inFlight, since, count, countedFor, newest, raced, contested, breaks>>
  BY DEF Collapse, memory, history
<1> DEFINE c == [checks[k] EXCEPT !.at = "save"]
<1>2. c \in Calls /\ c.at \in Storing
  BY TokenTypes DEF Calls, Refreshing, Storing
<1>3. checks' \in [Lags -> Calls] /\ RowsOfChecks'
  BY <1>1, <1>2, CheckMoves
<1>4. checks[k].row \in Rows \cup {NoRow}
  BY TokenTypes DEF Calls
<1>5. rows' \in [Rows -> TokenRows] /\ FirstTyped'
  BY <1>1, <1>4, CollapseRows
<1> QED
  BY <1>1, <1>3, <1>5, TokenTypes, ChecksTyped

\* What Save comes to.
LEMMA Saved ==
  ASSUME TokensTyped, NEW k \in Lags, Save(k)
  PROVE  \E r \in Target(checks[k]) :
           /\ checks[k].at = "save" /\ r \in Rows
           /\ rows' \in [Rows -> TokenRows] /\ FirstTyped' /\ Active' = Active \cup {r}
           /\ rows'[r] = Stored(checks[k].grant)
           /\ \A q \in Rows \ {r} : rows'[q] = rows[q]
           /\ checks' \in [Lags -> Calls] /\ RowsOfChecks'
           /\ checks'[k] = Idle
           /\ \A j \in Lags \ {k} : checks'[j] = Rekeyed(r, checks[j])
           /\ countedFor' = IF countedFor = r THEN Outdated ELSE countedFor
           /\ count' = 0 /\ inFlight' = FALSE
           /\ UNCHANGED <<logins, since, newest, raced, contested, breaks>>
<1>1. /\ checks[k].at = "save" /\ count' = 0 /\ inFlight' = FALSE
      /\ UNCHANGED <<logins, since, newest, raced, contested, breaks>>
  BY DEF Save
<1>2. PICK r \in Target(checks[k]) :
        /\ rows' = [rows EXCEPT ![r] = Stored(checks[k].grant)]
        /\ Reordered
        /\ checks' = [j \in Lags |-> IF j = k THEN Idle ELSE Rekeyed(r, checks[j])]
        /\ countedFor' = IF countedFor = r THEN Outdated ELSE countedFor
  BY DEF Save
<1>3. r \in Rows
  BY TokenTypes, TargetRows
<1>4. checks[k].grant \in Grants
  BY TokenTypes DEF Calls
<1>5. rows' \in [Rows -> TokenRows] /\ rows'[r] = Stored(checks[k].grant)
      /\ \A q \in Rows \ {r} : rows'[q] = rows[q]
  BY <1>2, <1>3, <1>4, StoredRow, TokenTypes
<1>6. Active' = Active \cup {r}
  BY <1>3, <1>4, <1>5, StoredRow, StoreActive
<1>7. FirstTyped'
  BY <1>2, ReorderedFirst
<1>8. checks' \in [Lags -> Calls] /\ checks'[k] = Idle
      /\ \A j \in Lags \ {k} : checks'[j] = Rekeyed(r, checks[j])
  BY <1>2, <1>3, TokenTypes, CallGoes, CallFacts
<1>9. RowsOfChecks'
  BY <1>3, <1>8, TokenTypes, CallKeeps, CallFacts DEF RowsOfChecks
<1> QED
  BY <1>1, <1>2, <1>3, <1>5, <1>6, <1>7, <1>8, <1>9

LEMMA SaveTyped ==
  ASSUME TokensTyped, NEW k \in Lags, Save(k)
  PROVE  TokensTyped'
<1>1. PICK r \in Target(checks[k]) :
           /\ r \in Rows
           /\ rows' \in [Rows -> TokenRows] /\ FirstTyped'
           /\ checks' \in [Lags -> Calls] /\ RowsOfChecks'
           /\ countedFor' = IF countedFor = r THEN Outdated ELSE countedFor
           /\ count' = 0 /\ inFlight' = FALSE
           /\ UNCHANGED <<logins, since, newest, raced, contested, breaks>>
  BY Saved
<1>2. countedFor' \in Rows \cup {NoRow, Outdated} /\ count' \in Nat
  BY <1>1, TokenTypes
<1> QED
  BY <1>1, <1>2, TokenTypes, ChecksTyped

LEMMA FaultsTyped ==
  ASSUME TokensTyped, NEW k \in Lags, ReadFails(k) \/ StoreFails(k)
  PROVE  TokensTyped'
<1>1. CASE ReadFails(k)
  <2>1. /\ Break /\ Goes(k, Idle) /\ inFlight' \in BOOLEAN
        /\ UNCHANGED <<rows, first, logins, since, count, countedFor, newest, raced, contested>>
    BY <1>1 DEF ReadFails, table, history
  <2>2. checks' \in [Lags -> Calls] /\ RowsOfChecks'
    BY <2>1, CheckMoves, CallFacts
  <2>3. FirstTyped'
    BY <2>1, StatusKept
  <2> QED
    BY <2>1, <2>2, <2>3, Broken, TokenTypes, ChecksTyped
<1>2. CASE StoreFails(k)
  <2>1. Break /\ RefreshFails(k) /\ UNCHANGED <<newest, raced, contested>>
    BY <1>2 DEF StoreFails, history
  <2> QED
    BY <2>1, Broken, TokenTypes, FailTyped
<1> QED
  BY <1>1, <1>2

LEMMA RestartMoves ==
  ASSUME TokensTyped, WorkerRestarts
  PROVE  /\ checks' \in [Lags -> Calls] /\ RowsOfChecks'
         /\ \A k \in Lags : checks'[k].at \in {"idle", "health"}
         /\ rows' \in [Rows -> TokenRows] /\ FirstTyped' /\ Active' = Active
         /\ \A r \in Rows : rows'[r].failed = 0 /\ rows'[r].grant = rows[r].grant
         /\ count' = 0 /\ countedFor' = Outdated /\ inFlight' = FALSE
         /\ since' = MaxLag + Cooldown /\ Break
         /\ UNCHANGED <<first, logins, newest, raced, contested>>
<1>1. /\ Break /\ checks' = [k \in Lags |-> IF k = 0 THEN Begun ELSE Idle]
      /\ count' = 0 /\ countedFor' = Outdated /\ inFlight' = FALSE
      /\ since' = MaxLag + Cooldown
      /\ rows' = [r \in Rows |-> [rows[r] EXCEPT !.failed = 0]]
      /\ UNCHANGED <<first, logins, newest, raced, contested>>
  BY DEF WorkerRestarts, history
<1>2. checks' \in [Lags -> Calls] /\ RowsOfChecks'
      /\ \A k \in Lags : checks'[k].at \in {"idle", "health"}
  BY <1>1, CallFacts DEF RowsOfChecks
<1>3. \A r \in Rows : [rows[r] EXCEPT !.failed = 0] \in TokenRows
  BY TokenTypes, TokenNumbers DEF TokenRows
<1>4. rows' \in [Rows -> TokenRows]
  BY <1>1, <1>3
<1>5. \A r \in Rows : rows'[r].failed = 0 /\ rows'[r].grant = rows[r].grant
                      /\ rows'[r].status = rows[r].status
  BY <1>1, TokenTypes DEF TokenRows
<1> QED
  BY <1>1, <1>2, <1>4, <1>5, StatusKept

LEMMA RestartTyped ==
  ASSUME TokensTyped, WorkerRestarts
  PROVE  TokensTyped'
<1>1. since' \in 0..(MaxLag + Cooldown) /\ count' \in Nat
  BY RestartMoves, TokenNumbers
<1> QED
  BY <1>1, RestartMoves, Broken, TokenTypes, ChecksTyped

LEMMA LoginMoves ==
  ASSUME TokensTyped, NEW l \in Logins, NEW c \in Calls, c = Idle \/ c.at \in Storing,
         logins' = [logins EXCEPT ![l] = c]
  PROVE  /\ logins' \in [Logins -> Calls] /\ logins'[l] = c
         /\ \A m \in Logins \ {l} : logins'[m] = logins[m]
         /\ \A m \in Logins : logins'[m] = Idle \/ logins'[m].at \in Storing
<1>1. logins' \in [Logins -> Calls] /\ logins'[l] = c
      /\ \A m \in Logins \ {l} : logins'[m] = logins[m]
  BY DEF TokensTyped
<1> QED
  BY <1>1 DEF TokensTyped, CallsTyped

LEMMA StartLoginMoves ==
  ASSUME TokensTyped, NEW l \in Logins, NEW g \in {"none", "newest"}, StartLogin(l, g)
  PROVE  /\ logins[l] = Idle
         /\ logins' \in [Logins -> Calls] /\ logins'[l].at \in Storing
         /\ logins'[l].grant = g
         /\ logins'[l].at = "save" => logins'[l].row = NoRow /\ Active = {}
         /\ logins'[l].at = "collapse" => logins'[l].row = first /\ first \in Active
         /\ \A m \in Logins \ {l} : logins'[m] = logins[m]
         /\ contested' = (contested \/ (\E k \in Lags : Busy(checks[k].at))
                                    \/ (\E m \in Logins : logins[m] # Idle))
         /\ UNCHANGED <<rows, first, checks, inFlight, since, count, countedFor, newest, raced,
                        breaks>>
         /\ TokensTyped'
<1>1. /\ logins[l] = Idle /\ logins' = [logins EXCEPT ![l] = Found([Idle EXCEPT !.grant = g])]
      /\ contested' = (contested \/ (\E k \in Lags : Busy(checks[k].at))
                                 \/ (\E m \in Logins : logins[m] # Idle))
      /\ UNCHANGED <<rows, first, checks, inFlight, since, count, countedFor, newest, raced,
                     breaks>>
  BY DEF StartLogin, table, memory
<1> DEFINE c == [Idle EXCEPT !.grant = g]
<1>2. c \in Calls /\ c.row = NoRow /\ c.grant = g
  BY CallFacts DEF Calls, Grants
<1> HIDE DEF c
<1>3. /\ Found(c) \in Calls /\ Found(c).at \in Storing /\ Found(c).grant = g
      /\ Found(c).at = "save" => Found(c).row = NoRow /\ Active = {}
      /\ Found(c).at = "collapse" => Found(c).row = first /\ first \in Active
  BY <1>2, FoundFacts
<1>4. logins' = [logins EXCEPT ![l] = Found(c)]
  BY <1>1 DEF c
<1>5. /\ logins' \in [Logins -> Calls] /\ logins'[l] = Found(c)
      /\ \A m \in Logins \ {l} : logins'[m] = logins[m]
      /\ \A m \in Logins : logins'[m] = Idle \/ logins'[m].at \in Storing
  BY <1>3, <1>4, LoginMoves
<1>6. FirstTyped' /\ contested' \in BOOLEAN
  BY <1>1, StatusKept, TokenTypes
<1>7. TokensTyped'
  BY <1>1, <1>5, <1>6 DEF TokensTyped, CallsTyped
<1> QED
  BY <1>1, <1>3, <1>5, <1>7

LEMMA CollapseLoginMoves ==
  ASSUME TokensTyped, NEW l \in Logins, CollapseLogin(l)
  PROVE  /\ logins[l].at = "collapse" /\ CollapseBut(logins[l].row)
         /\ logins[l].row \in Rows \cup {NoRow}
         /\ logins' \in [Logins -> Calls]
         /\ logins'[l].at = "save" /\ logins'[l].row = logins[l].row
         /\ logins'[l].grant = logins[l].grant
         /\ \A m \in Logins \ {l} : logins'[m] = logins[m]
         /\ UNCHANGED <<checks, inFlight, since, count, countedFor, newest, raced, contested,
                        breaks>>
         /\ TokensTyped'
<1>1. /\ logins[l].at = "collapse" /\ CollapseBut(logins[l].row)
      /\ logins' = [logins EXCEPT ![l] = [@ EXCEPT !.at = "save"]]
      /\ UNCHANGED <<checks, inFlight, since, count, countedFor, newest, raced, contested, breaks>>
  BY DEF CollapseLogin, memory, history
<1> DEFINE c == [logins[l] EXCEPT !.at = "save"]
<1>2. c \in Calls /\ c.at = "save" /\ c.row = logins[l].row /\ c.grant = logins[l].grant
  BY TokenTypes DEF Calls, Refreshing, Storing
<1>3. logins' = [logins EXCEPT ![l] = c]
  BY <1>1, TokenTypes DEF TokensTyped
<1> HIDE DEF c
<1>4. /\ logins' \in [Logins -> Calls] /\ logins'[l] = c
      /\ \A m \in Logins \ {l} : logins'[m] = logins[m]
      /\ \A m \in Logins : logins'[m] = Idle \/ logins'[m].at \in Storing
  BY <1>2, <1>3, LoginMoves DEF Storing
<1>5. logins[l].row \in Rows \cup {NoRow}
  BY TokenTypes DEF Calls
<1>6. rows' \in [Rows -> TokenRows] /\ FirstTyped'
  BY <1>1, <1>5, CollapseRows
<1>7. TokensTyped'
  BY <1>1, <1>4, <1>6 DEF TokensTyped, CallsTyped
<1> QED
  BY <1>1, <1>2, <1>4, <1>5, <1>7

LEMMA SaveLoginMoves ==
  ASSUME TokensTyped, NEW l \in Logins, SaveLogin(l)
  PROVE  /\ TokensTyped'
         /\ \E r \in Target(logins[l]) :
              /\ logins[l].at = "save" /\ r \in Rows
              /\ Active' = Active \cup {r}
              /\ rows'[r] = Stored(logins[l].grant)
              /\ \A q \in Rows \ {r} : /\ rows'[q].grant = Aged(rows[q].grant)
                                       /\ rows'[q].failed = rows[q].failed
              /\ \A k \in Lags : checks'[k] = Overtaken(Rekeyed(r, checks[k]))
              /\ countedFor' = IF countedFor = r THEN Outdated ELSE countedFor
              /\ newest' = logins[l].grant
              /\ logins'[l] = Idle /\ \A m \in Logins \ {l} : logins'[m] = logins[m]
              /\ UNCHANGED <<inFlight, since, count, raced, contested, breaks>>
<1>1. /\ logins[l].at = "save" /\ logins' = [logins EXCEPT ![l] = Idle]
      /\ newest' = logins[l].grant
      /\ UNCHANGED <<inFlight, since, count, raced, contested, breaks>>
  BY DEF SaveLogin
<1>2. PICK r \in Target(logins[l]) :
        /\ rows' = [q \in Rows |-> IF q = r THEN Stored(logins[l].grant)
                                   ELSE [rows[q] EXCEPT !.grant = Aged(@)]]
        /\ Reordered
        /\ checks' = [k \in Lags |-> Overtaken(Rekeyed(r, checks[k]))]
        /\ countedFor' = IF countedFor = r THEN Outdated ELSE countedFor
  BY DEF SaveLogin
<1>3. r \in Rows
  BY TokenTypes, TargetRows
<1>4. logins[l].grant \in Grants
  BY TokenTypes DEF Calls
<1>5. \A q \in Rows : /\ [rows[q] EXCEPT !.grant = Aged(@)] \in TokenRows
                      /\ [rows[q] EXCEPT !.grant = Aged(@)].status = rows[q].status
                      /\ [rows[q] EXCEPT !.grant = Aged(@)].failed = rows[q].failed
                      /\ [rows[q] EXCEPT !.grant = Aged(@)].grant = Aged(rows[q].grant)
  BY TokenTypes DEF TokenRows, Aged, Grants
<1>6. rows' \in [Rows -> TokenRows] /\ rows'[r] = Stored(logins[l].grant)
      /\ \A q \in Rows \ {r} : rows'[q] = [rows[q] EXCEPT !.grant = Aged(@)]
  BY <1>2, <1>3, <1>4, <1>5, StoredRow
<1>7. Active' = Active \cup {r}
  BY <1>3, <1>4, <1>5, <1>6, StoredRow, StoreActive
<1>8. FirstTyped'
  BY <1>2, ReorderedFirst
<1>9. checks' \in [Lags -> Calls] /\ \A k \in Lags : checks'[k] = Overtaken(Rekeyed(r, checks[k]))
  BY <1>2, <1>3, TokenTypes, CallGoes
<1>10. RowsOfChecks'
  <2> SUFFICES ASSUME NEW k \in Lags, checks'[k].at \notin Storing
               PROVE  checks'[k].row = NoRow
    BY DEF RowsOfChecks
  <2>1. checks[k] \in Calls /\ Rekeyed(r, checks[k]) \in Calls
    BY <1>3, TokenTypes, CallGoes
  <2>2. checks'[k].at = checks[k].at /\ checks'[k].row = checks[k].row
    BY <1>3, <1>9, <2>1, CallKeeps
  <2> QED
    BY <2>2, TokenTypes
<1>11. /\ logins' \in [Logins -> Calls] /\ logins'[l] = Idle
       /\ \A m \in Logins \ {l} : logins'[m] = logins[m]
       /\ \A m \in Logins : logins'[m] = Idle \/ logins'[m].at \in Storing
  BY <1>1, LoginMoves, CallFacts
<1>12. countedFor' \in Rows \cup {NoRow, Outdated}
  BY <1>2, TokenTypes
<1>13. TokensTyped'
  BY <1>1, <1>4, <1>6, <1>8, <1>9, <1>10, <1>11, <1>12, TokenTypes
     DEF TokensTyped, CallsTyped, RowsOfChecks
<1> QED
  BY <1>1, <1>2, <1>3, <1>5, <1>6, <1>7, <1>9, <1>11, <1>13

LEMMA AppRestartMoves ==
  ASSUME TokensTyped, AppRestarts
  PROVE  /\ TokensTyped' /\ \A l \in Logins : logins'[l] = Idle
         /\ UNCHANGED <<rows, first, checks, inFlight, since, count, countedFor, newest, raced,
                        contested>>
<1>1. /\ Break /\ logins' = [l \in Logins |-> Idle]
      /\ UNCHANGED <<rows, first, checks, inFlight, since, count, countedFor, newest, raced,
                     contested>>
  BY DEF AppRestarts, table, memory, history
<1>2. FirstTyped' /\ breaks' \in 0..MaxBreaks
  BY <1>1, StatusKept, Broken
<1>3. TokensTyped'
  BY <1>1, <1>2, CallFacts DEF TokensTyped, CallsTyped
<1> QED
  BY <1>1, <1>3

LEMMA TokensTypedStep == TokensTyped /\ [TokenNext]_tokenVars => TokensTyped'
<1> SUFFICES ASSUME TokensTyped, [TokenNext]_tokenVars PROVE TokensTyped'
  OBVIOUS
<1>1. CASE UNCHANGED tokenVars
  BY <1>1, StatusKept DEF tokenVars, table, memory, history, TokensTyped, CallsTyped
<1>2. ASSUME NEW k \in Lags, Proceed(k) \/ ReadFails(k) \/ StoreFails(k)
      PROVE  TokensTyped'
  BY <1>2, HealthTyped, DecideTyped, ReadGrantTyped, FetchTyped, CollapseTyped, SaveTyped,
     FaultsTyped DEF Proceed
<1>3. ASSUME NEW l \in Logins, \/ StartLogin(l, "none") \/ StartLogin(l, "newest")
                               \/ CollapseLogin(l) \/ SaveLogin(l)
      PROVE  TokensTyped'
  BY <1>3, StartLoginMoves, CollapseLoginMoves, SaveLoginMoves
<1> QED
  BY <1>1, <1>2, <1>3, TimerTyped, RestartTyped, AppRestartMoves DEF TokenNext

LEMMA TokensTypedInit == TokenInit => TokensTyped
<1> SUFFICES ASSUME TokenInit PROVE TokensTyped
  OBVIOUS
<1>1. rows \in [Rows -> TokenRows]
  <2>1. Legacy \subseteq TokenRows
    <3>1. Unused \in TokenRows
      BY TokenNumbers DEF Unused, TokenRows, Grants
    <3>2. ASSUME NEW w \in [status: {"active", "revoked"}, fresh: {FALSE}, grant: {"older"},
                            failed: {0}]
          PROVE  w \in TokenRows
      <4>1. /\ w = [status |-> w.status, fresh |-> w.fresh, grant |-> w.grant,
                    failed |-> w.failed]
            /\ w.status \in {"active", "revoked"} /\ w.fresh = FALSE /\ w.grant = "older"
            /\ w.failed = 0
        OBVIOUS
      <4>2. 0 \in 0..(MaxFailures + 1) /\ "older" \in Grants /\ FALSE \in BOOLEAN
        BY TokenNumbers DEF Grants
      <4> QED
        BY <4>1, <4>2, Zenon DEF TokenRows
    <3> QED
      BY <3>1, <3>2 DEF Legacy
  <2> QED
    BY <2>1 DEF TokenInit
<1>2. FirstTyped
  <2>1. Active # {} => (CHOOSE r \in Active : TRUE) \in Active
    OBVIOUS
  <2> QED
    BY <2>1 DEF TokenInit, FirstTyped
<1>3. checks \in [Lags -> Calls] /\ logins \in [Logins -> Calls] /\ CallsTyped
  BY CallFacts DEF TokenInit, CallsTyped
<1>4. /\ inFlight \in BOOLEAN /\ since \in 0..(MaxLag + Cooldown)
      /\ count \in Nat /\ countedFor \in Rows \cup {NoRow, Outdated}
      /\ breaks \in 0..MaxBreaks
  <2>1. 0 \in 0..MaxBreaks /\ MaxLag + Cooldown \in 0..(MaxLag + Cooldown)
    BY TokenNumbers
  <2> QED
    BY <2>1 DEF TokenInit
<1>5. newest \in {"never"} \cup Grants /\ {raced, contested} \subseteq BOOLEAN
  BY DEF TokenInit
<1> QED
  BY <1>1, <1>2, <1>3, <1>4, <1>5 DEF TokensTyped

\* A failure is counted when its refresh ends: each refresh under way may still add one.
Counted == count + Cardinality(Refreshers) <= MaxFailures + MaxLag

\* Past the test of the flag.
Admitted == {"key"} \cup Refreshing

FlagHolds ==
  /\ \A j, k \in Lags : checks[j].at \in Admitted /\ checks[k].at \in Admitted => j = k
  /\ count <= MaxFailures
  /\ \A k \in Lags : checks[k].at \in Refreshing => inFlight /\ count < MaxFailures

FlagInv == TokensTyped /\ Counted /\ (~raced => FlagHolds)

LEMMA RefreshersFinite ==
  ASSUME TokensTyped
  PROVE  /\ IsFiniteSet(Refreshers) /\ Cardinality(Refreshers) \in Nat
         /\ Cardinality(Refreshers) <= MaxLag + 1
BY TokenNumbers, FS_Subset, FS_CardinalityType DEF Refreshers

LEMMA FewFailures ==
  ASSUME TokensTyped, TokensTyped', count' < MaxFailures
  PROVE  Counted'
<1>1. IsFiniteSet(Refreshers') /\ Cardinality(Refreshers') \in Nat
      /\ Cardinality(Refreshers') <= MaxLag + 1
  BY TokenNumbers, FS_Subset, FS_CardinalityType DEF Refreshers
<1>2. count' \in Nat
  BY DEF TokensTyped
<1> QED
  BY <1>1, <1>2, TokenNumbers DEF Counted

LEMMA FewerRefreshers ==
  ASSUME FlagInv, TokensTyped', count' <= count, Refreshers' \subseteq Refreshers
  PROVE  Counted'
<1>1. /\ Cardinality(Refreshers') \in Nat
      /\ Cardinality(Refreshers') <= Cardinality(Refreshers)
  BY RefreshersFinite, FS_Subset, FS_CardinalityType DEF FlagInv
<1>2. count' \in Nat /\ count \in Nat
  BY DEF TokensTyped, FlagInv
<1> QED
  BY <1>1, <1>2, RefreshersFinite, TokenNumbers DEF Counted, FlagInv

\* A step that takes no check past the flag, and sets none back to before it.
LEMMA SameStage ==
  ASSUME FlagInv, TokensTyped',
         \A k \in Lags : /\ checks'[k].at \in Refreshing <=> checks[k].at \in Refreshing
                         /\ checks'[k].at \in Admitted => checks[k].at \in Admitted,
         count' = count, inFlight' = inFlight, raced' = raced
  PROVE  FlagInv'
<1>1. Counted'
  <2>1. Refreshers' \subseteq Refreshers
    BY DEF Refreshers
  <2> QED
    BY <2>1, FewerRefreshers DEF FlagInv, TokensTyped
<1>2. ~raced' => FlagHolds'
  BY DEF FlagInv, FlagHolds
<1> QED
  BY <1>1, <1>2 DEF FlagInv

LEMMA FailFlag ==
  ASSUME FlagInv, TokensTyped', NEW k \in Lags, RefreshFails(k), raced' = raced,
         checks[k].at \in Refreshing
  PROVE  FlagInv'
<1>1. /\ checks'[k] = Idle /\ \A j \in Lags \ {k} : checks'[j] = checks[j]
      /\ count' = count + 1 /\ count \in Nat
  BY FailMoves, TokenTypes DEF FlagInv
<1>2. "idle" \notin Admitted /\ Refreshing \subseteq Admitted
  BY DEF Admitted, Refreshing, Storing
<1>3. Counted'
  <2>1. Refreshers' = Refreshers \ {k} /\ k \in Refreshers
    BY <1>1, <1>2, CallFacts DEF Refreshers, Admitted
  <2>2. Cardinality(Refreshers') = Cardinality(Refreshers) - 1
    BY <2>1, RefreshersFinite, FS_RemoveElement DEF FlagInv
  <2> QED
    BY <1>1, <2>2, RefreshersFinite, TokenNumbers DEF Counted, FlagInv
<1>4. ASSUME ~raced' PROVE FlagHolds'
  <2>1. FlagHolds
    BY <1>4 DEF FlagInv
  <2>2. \A j \in Lags \ {k} : checks[j].at \notin Admitted
    BY <2>1, <1>2 DEF FlagHolds
  <2>3. \A j \in Lags : checks'[j].at \notin Admitted
    BY <1>1, <1>2, <2>2, CallFacts
  <2>4. count' <= MaxFailures
    BY <1>1, <2>1, TokenNumbers DEF FlagHolds
  <2> QED
    BY <1>2, <2>3, <2>4 DEF FlagHolds
<1> QED
  BY <1>3, <1>4 DEF FlagInv

LEMMA TimerFlag ==
  ASSUME FlagInv, TokensTyped', Timer
  PROVE  FlagInv'
<1> TokensTyped
  BY DEF FlagInv
<1>1. /\ checks'[0] = Begun /\ checks[MaxLag] = Idle
      /\ \A k \in Lags \ {0} : k - 1 \in Lags /\ checks'[k] = checks[k - 1]
  BY TimerShifts
<1>2. count' = count /\ inFlight' = inFlight /\ raced' = raced
  BY DEF Timer, history
<1>3. "health" \notin Admitted /\ Refreshing \subseteq Admitted
  BY DEF Admitted, Refreshing, Storing
<1>4. \A k \in Lags : checks'[k].at \in Admitted => k # 0 /\ checks[k - 1].at \in Admitted
  BY <1>1, <1>3, CallFacts
<1>5. Counted'
  <2> DEFINE f == [k \in Refreshers' |-> k - 1]
  <2>1. \A k \in Refreshers' : k \in Nat /\ k - 1 \in Refreshers
    BY <1>1, <1>3, <1>4, TokenNumbers DEF Refreshers
  <2>2. f \in Injection(Refreshers', Refreshers)
    <3>1. f \in [Refreshers' -> Refreshers]
      BY <2>1
    <3>2. \A a, b \in Refreshers' : f[a] = f[b] => a = b
      BY <2>1
    <3> QED
      BY <3>1, <3>2 DEF Injection, IsInjective
  <2>3. /\ IsFiniteSet(Refreshers') /\ Cardinality(Refreshers') <= Cardinality(Refreshers)
    BY <2>2, RefreshersFinite, FS_Injection
  <2>4. Cardinality(Refreshers') \in Nat
    BY <2>3, FS_CardinalityType
  <2> QED
    BY <1>2, <2>3, <2>4, RefreshersFinite, TokenTypes, TokenNumbers DEF Counted, FlagInv
<1>6. ASSUME ~raced' PROVE FlagHolds'
  <2>1. FlagHolds
    BY <1>2, <1>6 DEF FlagInv
  <2>2. ASSUME NEW j \in Lags, NEW k \in Lags,
               checks'[j].at \in Admitted, checks'[k].at \in Admitted
        PROVE  j = k
    <3>1. j - 1 = k - 1
      BY <2>1, <2>2, <1>1, <1>4 DEF FlagHolds
    <3> QED
      BY <3>1, TokenNumbers
  <2>3. \A k \in Lags : checks'[k].at \in Refreshing => inFlight' /\ count' < MaxFailures
    BY <1>1, <1>2, <1>3, <1>4, <2>1 DEF FlagHolds
  <2> QED
    BY <1>2, <2>1, <2>2, <2>3 DEF FlagHolds
<1> QED
  BY <1>5, <1>6 DEF FlagInv

LEMMA HealthFlag ==
  ASSUME FlagInv, TokensTyped', NEW k \in Lags, CheckHealth(k)
  PROVE  FlagInv'
<1> TokensTyped
  BY DEF FlagInv
<1> DEFINE goesOn == /\ \E r \in Current : ~rows[r].fresh
                     /\ \E r \in Rows : rows[r].grant # "none"
                     /\ ~inFlight
           c == IF goesOn THEN [checks[k] EXCEPT !.at = "key"] ELSE Idle
<1>1. Goes(k, c) /\ raced' = (raced \/ (goesOn /\ \E j \in Lags : checks[j].at = "key"))
      /\ UNCHANGED <<inFlight, count>> /\ checks[k].at = "health"
  BY DEF CheckHealth, memory
<1>2. c.at = IF goesOn THEN "key" ELSE "idle"
  BY TokenTypes, CallFacts DEF Calls
<1>3. goesOn => ~inFlight
  OBVIOUS
<1>4. checks'[k] = c /\ \A j \in Lags \ {k} : checks'[j] = checks[j]
  BY <1>1 DEF Goes, TokensTyped
<1> HIDE DEF goesOn, c
<1>5. Counted'
  <2>1. Refreshers' \subseteq Refreshers
    BY <1>2, <1>4 DEF Refreshers, Refreshing, Storing
  <2> QED
    BY <1>1, <2>1, FewerRefreshers, TokenTypes
<1>6. ASSUME ~raced' PROVE FlagHolds'
  <2>1. FlagHolds
    BY <1>1, <1>6 DEF FlagInv
  <2>2. CASE goesOn
    <3>1. \A j \in Lags \ {k} : checks[j].at \notin Admitted
      BY <1>1, <1>3, <1>6, <2>1, <2>2 DEF FlagHolds, Admitted
    <3>2. checks'[k].at = "key"
      BY <1>2, <1>4, <2>2
    <3>3. "key" \notin Refreshing
      BY DEF Refreshing, Storing
    <3> QED
      BY <1>1, <1>4, <2>1, <3>1, <3>2, <3>3 DEF FlagHolds, Admitted
  <2>3. CASE ~goesOn
    <3>1. checks'[k].at = "idle" /\ "idle" \notin Admitted
      BY <1>2, <1>4, <2>3 DEF Admitted, Refreshing, Storing
    <3> QED
      BY <1>1, <1>4, <2>1, <3>1 DEF FlagHolds, Admitted
  <2> QED
    BY <2>2, <2>3
<1> QED
  BY <1>5, <1>6 DEF FlagInv

LEMMA DecideFlag ==
  ASSUME FlagInv, TokensTyped', NEW k \in Lags, Decide(k)
  PROVE  FlagInv'
<1> TokensTyped
  BY DEF FlagInv
<1>1. PICK n \in Nat, go \in BOOLEAN :
           /\ checks[k].at = "key"
           /\ n = (IF countedFor = first THEN count ELSE 0)
           /\ go => n < MaxFailures
           /\ count' = n
           /\ inFlight' = (inFlight \/ go)
           /\ Goes(k, IF go THEN [checks[k] EXCEPT !.at = "grant", !.key = first] ELSE Idle)
           /\ UNCHANGED raced
  BY Decided
<1>2. checks'[k].at = IF go THEN "grant" ELSE "idle"
  BY <1>1, TokenTypes, CallFacts DEF Goes, Calls, TokensTyped
<1>3. \A j \in Lags \ {k} : checks'[j] = checks[j]
  BY <1>1 DEF Goes, TokensTyped
<1>4. n <= count
  BY <1>1, TokenTypes
<1>5. "idle" \notin Admitted /\ Refreshing \subseteq Admitted /\ "key" \in Admitted
  BY DEF Admitted, Refreshing, Storing
<1>6. Counted'
  <2>1. CASE go
    BY <1>1, <2>1, FewFailures
  <2>2. CASE ~go
    <3>1. Refreshers' \subseteq Refreshers
      BY <1>2, <1>3, <1>5, <2>2 DEF Refreshers
    <3> QED
      BY <1>1, <1>4, <3>1, FewerRefreshers
  <2> QED
    BY <2>1, <2>2
<1>7. ASSUME ~raced' PROVE FlagHolds'
  <2>1. FlagHolds
    BY <1>1, <1>7 DEF FlagInv
  <2>2. \A j \in Lags \ {k} : checks'[j].at \notin Admitted
    BY <1>1, <1>3, <1>5, <2>1 DEF FlagHolds
  <2>3. count' <= MaxFailures
    BY <1>1, <1>4, <2>1, TokenTypes, TokenNumbers DEF FlagHolds
  <2>4. checks'[k].at \in Refreshing => inFlight' /\ count' < MaxFailures
    BY <1>1, <1>2, <1>5
  <2> QED
    BY <1>5, <2>2, <2>3, <2>4 DEF FlagHolds
<1> QED
  BY <1>6, <1>7 DEF FlagInv

LEMMA SaveFlag ==
  ASSUME FlagInv, TokensTyped', NEW k \in Lags, Save(k)
  PROVE  FlagInv'
<1> TokensTyped
  BY DEF FlagInv
<1>1. PICK r \in Rows :
        /\ checks[k].at = "save" /\ checks'[k] = Idle
        /\ \A j \in Lags \ {k} : checks'[j] = Rekeyed(r, checks[j])
        /\ count' = 0 /\ raced' = raced
  BY Saved
<1>2. \A j \in Lags \ {k} : checks'[j].at = checks[j].at
  BY <1>1, CallKeeps, TokenTypes
<1>3. "idle" \notin Admitted /\ Refreshing \subseteq Admitted /\ "save" \in Admitted
  BY DEF Admitted, Refreshing, Storing
<1>4. Counted'
  BY <1>1, FewFailures, TokenNumbers
<1>5. ASSUME ~raced' PROVE FlagHolds'
  <2>1. \A j \in Lags : checks'[j].at \notin Admitted
    BY <1>1, <1>2, <1>3, <1>5, CallFacts DEF FlagInv, FlagHolds
  <2> QED
    BY <1>1, <1>3, <2>1, TokenNumbers DEF FlagHolds
<1> QED
  BY <1>4, <1>5 DEF FlagInv

\* Check k goes from one step of its refresh to another.
LEMMA RefreshGoesOn ==
  ASSUME FlagInv, TokensTyped', NEW k \in Lags, NEW c \in Calls, Goes(k, c),
         checks[k].at \in Refreshing, c.at \in Refreshing,
         count' = count, inFlight' = inFlight, raced' = raced
  PROVE  FlagInv'
<1>1. checks'[k] = c /\ \A j \in Lags \ {k} : checks'[j] = checks[j]
  BY DEF Goes, TokensTyped, FlagInv
<1>2. Refreshing \subseteq Admitted
  BY DEF Admitted
<1> QED
  BY <1>1, <1>2, SameStage

LEMMA RestartFlag ==
  ASSUME FlagInv, TokensTyped', WorkerRestarts
  PROVE  FlagInv'
<1>1. /\ count' = 0 /\ \A k \in Lags : checks'[k].at \in {"idle", "health"}
  BY RestartMoves DEF FlagInv
<1>2. \A k \in Lags : checks'[k].at \notin Admitted
  BY <1>1 DEF Admitted, Refreshing, Storing
<1>3. Counted'
  BY <1>1, FewFailures, TokenNumbers DEF FlagInv
<1> QED
  BY <1>1, <1>2, <1>3, TokenNumbers DEF FlagInv, FlagHolds, Admitted

LEMMA ReadFailsFlag ==
  ASSUME FlagInv, TokensTyped', NEW k \in Lags, ReadFails(k)
  PROVE  FlagInv'
<1>1. /\ checks[k].at \in {"health", "key", "grant"}
      /\ inFlight' = (inFlight /\ checks[k].at # "grant")
      /\ count' = count /\ raced' = raced
      /\ checks'[k] = Idle /\ \A j \in Lags \ {k} : checks'[j] = checks[j]
  BY DEF ReadFails, Goes, history, FlagInv, TokensTyped
<1>2. "idle" \notin Admitted /\ Refreshing \subseteq Admitted /\ "grant" \in Refreshing
  BY DEF Admitted, Refreshing, Storing
<1>3. Counted'
  <2>1. Refreshers' \subseteq Refreshers
    BY <1>1, <1>2, CallFacts DEF Refreshers
  <2> QED
    BY <1>1, <2>1, FewerRefreshers DEF FlagInv, TokensTyped
<1>4. ASSUME ~raced' PROVE FlagHolds'
  <2>1. FlagHolds
    BY <1>1, <1>4 DEF FlagInv
  <2>2. \A j \in Lags : checks'[j].at \in Admitted => j # k /\ checks[j].at \in Admitted
    BY <1>1, <1>2, CallFacts
  <2>3. ASSUME NEW j \in Lags, checks'[j].at \in Refreshing
        PROVE  inFlight' /\ count' < MaxFailures
    <3>1. j # k /\ checks[j].at \in Refreshing
      BY <1>1, <1>2, <2>2, <2>3
    <3>2. checks[k].at # "grant"
      BY <1>2, <2>1, <3>1 DEF FlagHolds
    <3>3. inFlight /\ count < MaxFailures
      BY <2>1, <3>1 DEF FlagHolds
    <3> QED
      BY <1>1, <3>2, <3>3
  <2> QED
    BY <1>1, <2>1, <2>2, <2>3 DEF FlagHolds
<1> QED
  BY <1>3, <1>4 DEF FlagInv

LEMMA FlagStep == FlagInv /\ [TokenNext]_tokenVars => FlagInv'
<1> SUFFICES ASSUME FlagInv, [TokenNext]_tokenVars PROVE FlagInv'
  OBVIOUS
<1> TokensTyped /\ TokensTyped'
  BY TokensTypedStep DEF FlagInv
<1>1. CASE UNCHANGED tokenVars
  BY <1>1, SameStage DEF tokenVars, memory, history
<1>2. CASE Timer
  BY <1>2, TimerFlag
<1>3. ASSUME NEW k \in Lags, Proceed(k) PROVE FlagInv'
  <2>1. CASE ReadGrant(k)
    <3>1. checks[k].at = "grant" /\ "grant" \in Refreshing /\ raced' = raced
      BY <2>1 DEF ReadGrant, Refreshing
    <3>2. CASE RefreshFails(k)
      BY <3>1, <3>2, FailFlag
    <3>3. CASE \E r \in Current :
                 /\ Goes(k, [checks[k] EXCEPT !.at = "fetch", !.grant = rows[r].grant])
                 /\ UNCHANGED memory
      <4>1. PICK r \in Current :
              Goes(k, [checks[k] EXCEPT !.at = "fetch", !.grant = rows[r].grant])
        BY <3>3
      <4>2. rows[r].grant \in Grants
        BY TokenTypes, CurrentFacts DEF TokenRows
      <4> DEFINE c == [checks[k] EXCEPT !.at = "fetch", !.grant = rows[r].grant]
      <4>3. c \in Calls /\ c.at = "fetch"
        <5>1. c \in Calls
          BY <4>2, TokenTypes, CallGoes
        <5> QED
          BY <5>1, TokenTypes DEF Calls
      <4> HIDE DEF c
      <4> QED
        BY <3>1, <3>3, <4>1, <4>3, RefreshGoesOn DEF c, memory, Refreshing
    <3> QED
      BY <2>1, <3>2, <3>3 DEF ReadGrant
  <2>2. CASE Fetch(k)
    <3>1. checks[k].at = "fetch" /\ "fetch" \in Refreshing /\ raced' = raced
      BY <2>2 DEF Fetch, Refreshing, history
    <3>2. CASE RefreshFails(k)
      BY <3>1, <3>2, FailFlag
    <3>3. CASE Goes(k, Found(checks[k])) /\ UNCHANGED memory
      <4>1. checks[k].row = NoRow /\ checks[k] \in Calls
        BY <3>1, TokenTypes DEF Storing
      <4>2. Found(checks[k]) \in Calls /\ Found(checks[k]).at \in Refreshing
        BY <4>1, FoundFacts DEF Refreshing
      <4> QED
        BY <3>1, <3>3, <4>2, RefreshGoesOn DEF memory
    <3> QED
      BY <2>2, <3>2, <3>3 DEF Fetch
  <2>3. CASE Collapse(k)
    <3> DEFINE c == [checks[k] EXCEPT !.at = "save"]
    <3>1. /\ checks[k].at = "collapse" /\ Goes(k, c)
          /\ UNCHANGED <<inFlight, count, raced>>
      BY <2>3 DEF Collapse, memory, history
    <3>2. c \in Calls /\ c.at \in Refreshing /\ "collapse" \in Refreshing
      BY TokenTypes DEF Calls, Refreshing, Storing
    <3> HIDE DEF c
    <3> QED
      BY <3>1, <3>2, RefreshGoesOn
  <2> QED
    BY <1>3, <2>1, <2>2, <2>3, HealthFlag, DecideFlag, SaveFlag DEF Proceed
<1>4. ASSUME NEW k \in Lags, StoreFails(k) PROVE FlagInv'
  <2>1. checks[k].at \in Refreshing /\ RefreshFails(k) /\ raced' = raced
    BY <1>4 DEF StoreFails, Refreshing, history
  <2> QED
    BY <2>1, FailFlag
<1>5. ASSUME NEW l \in Logins, \/ StartLogin(l, "none") \/ StartLogin(l, "newest")
                               \/ CollapseLogin(l)
      PROVE  FlagInv'
  BY <1>5, StartLoginMoves, CollapseLoginMoves, SameStage
<1>6. ASSUME NEW l \in Logins, SaveLogin(l) PROVE FlagInv'
  <2>1. PICK r \in Rows : /\ \A k \in Lags : checks'[k] = Overtaken(Rekeyed(r, checks[k]))
                          /\ UNCHANGED <<inFlight, count, raced>>
    BY <1>6, SaveLoginMoves
  <2>2. \A k \in Lags : checks'[k].at = checks[k].at
    <3> SUFFICES ASSUME NEW k \in Lags PROVE checks'[k].at = checks[k].at
      OBVIOUS
    <3>1. checks[k] \in Calls /\ Rekeyed(r, checks[k]) \in Calls
      BY TokenTypes, CallGoes
    <3> QED
      BY <2>1, <3>1, CallKeeps
  <2> QED
    BY <2>1, <2>2, SameStage
<1>7. CASE AppRestarts
  BY <1>7, AppRestartMoves, SameStage
<1> QED
  BY <1>1, <1>2, <1>3, <1>4, <1>5, <1>6, <1>7, RestartFlag, ReadFailsFlag DEF TokenNext

LEMMA FlagInit == TokenInit => FlagInv
<1> SUFFICES ASSUME TokenInit PROVE FlagInv
  OBVIOUS
<1>1. TokensTyped
  BY TokensTypedInit
<1>2. \A k \in Lags : checks[k].at \notin Admitted
  BY CallFacts DEF TokenInit, Admitted, Refreshing, Storing
<1>3. count = 0
  BY DEF TokenInit
<1>4. Counted
  BY <1>1, <1>3, RefreshersFinite, TokenNumbers DEF Counted
<1> QED
  BY <1>1, <1>2, <1>3, <1>4, TokenNumbers DEF FlagInv, FlagHolds, Admitted

\* One call at a time is past the reading of what it will write.
LoneWriter ==
  /\ \A j, k \in Lags : Busy(checks[j].at) /\ Busy(checks[k].at) => j = k
  /\ \A k \in Lags, l \in Logins : Busy(checks[k].at) => logins[l] = Idle
  /\ \A l, m \in Logins : logins[l] # Idle /\ logins[m] # Idle => l = m

\* It will write over the active row, and leave no other.
Placed(call) ==
  /\ call.at = "collapse" => first # NoRow /\ call.row = first
  /\ call.at = "save" => Active = {call.row} \ {NoRow}

AllPlaced == /\ \A k \in Lags : Placed(checks[k])
             /\ \A l \in Logins : Placed(logins[l])

\* What the last login brought is in the row, and in the hands of the check that will
\* store it again.
NewestKept ==
  newest # "never" =>
    /\ \A r, q \in Active : r = q
    /\ \A r \in Active : rows[r].grant = newest
    /\ \A k \in Lags : Busy(checks[k].at) => checks[k].grant = newest

Orderly == LoneWriter /\ AllPlaced /\ NewestKept

LEMMA BusyFacts ==
  /\ ~Busy("idle") /\ ~Busy("health") /\ ~Busy("key") /\ ~Busy("grant")
  /\ Busy("fetch") /\ Busy("collapse") /\ Busy("save")
  /\ Idle.at = "idle"
BY CallFacts DEF Busy, Storing

\* A step that writes nothing, and after which nobody writes who did not before.
LEMMA WritersStay ==
  ASSUME TokensTyped, TokensTyped', Orderly,
         Active' = Active, first' = first, newest' = newest,
         \A r \in Rows : rows'[r].grant = rows[r].grant,
         \A k \in Lags : Busy(checks'[k].at) => checks'[k] = checks[k],
         \A l \in Logins : logins'[l] = logins[l] \/ logins'[l] = Idle
  PROVE  Orderly'
<1>1. LoneWriter'
  BY DEF Orderly, LoneWriter
<1>2. \A k \in Lags : Placed(checks[k])'
  <2> SUFFICES ASSUME NEW k \in Lags PROVE Placed(checks[k])'
    OBVIOUS
  <2>1. CASE Busy(checks'[k].at)
    BY <2>1 DEF Orderly, AllPlaced, Placed
  <2>2. CASE ~Busy(checks'[k].at)
    BY <2>2, BusyFacts DEF Placed
  <2> QED
    BY <2>1, <2>2
<1>3. \A l \in Logins : Placed(logins[l])'
  <2> SUFFICES ASSUME NEW l \in Logins PROVE Placed(logins[l])'
    OBVIOUS
  <2>1. CASE logins'[l] = logins[l]
    BY <2>1 DEF Orderly, AllPlaced, Placed
  <2>2. CASE logins'[l] = Idle
    BY <2>2, CallFacts DEF Placed
  <2> QED
    BY <2>1, <2>2
<1>4. NewestKept'
  <2> SUFFICES ASSUME newest # "never" PROVE NewestKept'
    BY DEF NewestKept
  <2>1. Active \subseteq Rows
    BY CurrentFacts
  <2> QED
    BY <2>1 DEF Orderly, NewestKept
<1> QED
  BY <1>1, <1>2, <1>3, <1>4 DEF Orderly, AllPlaced

LEMMA TimerOrderly ==
  ASSUME TokensTyped, TokensTyped', Orderly, Timer
  PROVE  Orderly'
<1>1. /\ checks'[0] = Begun
      /\ \A k \in Lags \ {0} : k - 1 \in Lags /\ checks'[k] = checks[k - 1]
      /\ Active' = Active /\ first' = first
      /\ \A r \in Rows : rows'[r].grant = rows[r].grant
  BY TimerShifts
<1>2. logins' = logins /\ newest' = newest
  BY DEF Timer, history
<1>3. ~Busy(Begun.at)
  BY CallFacts, BusyFacts
<1>4. \A k \in Lags : Busy(checks'[k].at) => k # 0
  BY <1>1, <1>3
<1>5. LoneWriter'
  <2>1. ASSUME NEW j \in Lags, NEW k \in Lags, Busy(checks'[j].at), Busy(checks'[k].at)
        PROVE  j = k
    <3>1. j - 1 = k - 1
      BY <1>1, <1>4, <2>1 DEF Orderly, LoneWriter
    <3> QED
      BY <3>1, TokenNumbers
  <2> QED
    BY <1>1, <1>2, <1>4, <2>1 DEF Orderly, LoneWriter
<1>6. \A k \in Lags : Placed(checks[k])'
  <2> SUFFICES ASSUME NEW k \in Lags PROVE Placed(checks[k])'
    OBVIOUS
  <2>1. CASE k # 0
    BY <1>1, <2>1 DEF Orderly, AllPlaced, Placed
  <2>2. CASE k = 0
    BY <1>1, <2>2, CallFacts DEF Placed
  <2> QED
    BY <2>1, <2>2
<1>7. \A l \in Logins : Placed(logins[l])'
  BY <1>1, <1>2 DEF Orderly, AllPlaced, Placed
<1>8. NewestKept'
  <2> SUFFICES ASSUME newest # "never" PROVE NewestKept'
    BY <1>2 DEF NewestKept
  <2>1. Active \subseteq Rows
    BY CurrentFacts
  <2> QED
    BY <1>1, <1>2, <1>4, <2>1 DEF Orderly, NewestKept
<1> QED
  BY <1>5, <1>6, <1>7, <1>8 DEF Orderly, AllPlaced

\* The only check that writes takes its next step, and the others are as they were.
LEMMA WriterGoesOn ==
  ASSUME TokensTyped, TokensTyped', NEW k \in Lags,
         \A j \in Lags \ {k} : ~Busy(checks'[j].at),
         \A l \in Logins : logins'[l] = Idle,
         Placed(checks[k])', NewestKept'
  PROVE  Orderly'
<1>1. LoneWriter'
  BY DEF LoneWriter
<1>2. \A j \in Lags : Placed(checks[j])'
  BY BusyFacts DEF Placed
<1>3. \A l \in Logins : Placed(logins[l])'
  BY CallFacts DEF Placed
<1> QED
  BY <1>1, <1>2, <1>3 DEF Orderly, AllPlaced

LEMMA LoginGoesOn ==
  ASSUME TokensTyped, TokensTyped', NEW l \in Logins,
         \A j \in Lags : ~Busy(checks'[j].at),
         \A m \in Logins \ {l} : logins'[m] = Idle,
         Placed(logins[l])', NewestKept'
  PROVE  Orderly'
<1>1. LoneWriter'
  BY DEF LoneWriter
<1>2. \A j \in Lags : Placed(checks[j])'
  BY BusyFacts DEF Placed
<1>3. \A m \in Logins : Placed(logins[m])'
  BY CallFacts DEF Placed
<1> QED
  BY <1>1, <1>2, <1>3 DEF Orderly, AllPlaced

LEMMA FailOrderly ==
  ASSUME TokensTyped, TokensTyped', Orderly, NEW k \in Lags, RefreshFails(k), newest' = newest
  PROVE  Orderly'
<1>1. /\ checks'[k] = Idle /\ \A j \in Lags \ {k} : checks'[j] = checks[j]
      /\ first' = first /\ logins' = logins
  BY FailMoves
<1>2. Active' = Active /\ \A r \in Rows : rows'[r].grant = rows[r].grant
  BY FailedRows
<1>3. \A j \in Lags : Busy(checks'[j].at) => checks'[j] = checks[j]
  BY <1>1, BusyFacts
<1> QED
  BY <1>1, <1>2, <1>3, WritersStay

LEMMA ReadGrantOrderly ==
  ASSUME TokensTyped, TokensTyped', Orderly, NEW k \in Lags, ReadGrant(k), ~contested'
  PROVE  Orderly'
<1>1. checks[k].at = "grant" /\ newest' = newest
  BY DEF ReadGrant
<1>2. CASE RefreshFails(k)
  BY <1>1, <1>2, FailOrderly
<1>3. CASE \E r \in Current :
          /\ Goes(k, [checks[k] EXCEPT !.at = "fetch", !.grant = rows[r].grant])
          /\ contested' = (contested \/ OthersBusy(k))
          /\ UNCHANGED <<table, logins>>
  <2>1. PICK r \in Current :
          /\ Goes(k, [checks[k] EXCEPT !.at = "fetch", !.grant = rows[r].grant])
          /\ ~OthersBusy(k)
          /\ UNCHANGED <<rows, first, logins>>
    BY <1>3 DEF table
  <2>2. r \in Active /\ Active' = Active
    BY <2>1, CurrentFacts DEF Active
  <2>3. checks'[k].at = "fetch" /\ checks'[k].grant = rows[r].grant
        /\ \A j \in Lags \ {k} : checks'[j] = checks[j]
    BY <2>1, TokenTypes DEF Goes, TokensTyped, Calls
  <2>4. \A j \in Lags \ {k} : ~Busy(checks'[j].at)
    BY <2>1, <2>3 DEF OthersBusy
  <2>5. \A l \in Logins : logins'[l] = Idle
    BY <2>1 DEF OthersBusy
  <2>6. Placed(checks[k])'
    BY <2>3 DEF Placed
  <2>7. NewestKept'
    <3> SUFFICES ASSUME newest # "never" PROVE NewestKept'
      BY <1>1 DEF NewestKept
    <3>1. rows[r].grant = newest
      BY <2>2 DEF Orderly, NewestKept
    <3> QED
      BY <1>1, <2>1, <2>2, <2>3, <2>4, <3>1 DEF Orderly, NewestKept
  <2> QED
    BY <2>4, <2>5, <2>6, <2>7, WriterGoesOn
<1> QED
  BY <1>2, <1>3 DEF ReadGrant

LEMMA FetchOrderly ==
  ASSUME TokensTyped, TokensTyped', Orderly, NEW k \in Lags, Fetch(k)
  PROVE  Orderly'
<1>1. checks[k].at = "fetch" /\ newest' = newest
  BY DEF Fetch, history
<1>2. CASE RefreshFails(k)
  BY <1>1, <1>2, FailOrderly
<1>3. CASE Goes(k, Found(checks[k])) /\ UNCHANGED <<table, logins>>
  <2>1. UNCHANGED <<rows, first, logins>> /\ Active' = Active
    BY <1>3 DEF table, Active
  <2>2. checks[k].row = NoRow /\ checks[k] \in Calls
    BY <1>1, TokenTypes DEF Storing
  <2>3. /\ Found(checks[k]).grant = checks[k].grant
        /\ Found(checks[k]).at = "save" => Found(checks[k]).row = NoRow /\ Active = {}
        /\ Found(checks[k]).at = "collapse" => Found(checks[k]).row = first /\ first \in Active
    BY <2>2, FoundFacts
  <2>4. checks'[k] = Found(checks[k]) /\ \A j \in Lags \ {k} : checks'[j] = checks[j]
    BY <1>3 DEF Goes, TokensTyped
  <2>5. \A j \in Lags \ {k} : ~Busy(checks'[j].at)
    BY <1>1, <2>4, BusyFacts DEF Orderly, LoneWriter
  <2>6. \A l \in Logins : logins'[l] = Idle
    BY <1>1, <2>1, BusyFacts DEF Orderly, LoneWriter
  <2>7. Placed(checks[k])'
    <3>1. first \in Active => first # NoRow
      BY TokenNumbers DEF Active
    <3> QED
      BY <2>1, <2>3, <2>4, <3>1 DEF Placed
  <2>8. NewestKept'
    BY <1>1, <2>1, <2>3, <2>4, <2>5, BusyFacts DEF Orderly, NewestKept
  <2> QED
    BY <2>5, <2>6, <2>7, <2>8, WriterGoesOn
<1> QED
  BY <1>2, <1>3 DEF Fetch

\* All rows but the one that is kept are revoked, and that is the row that was active.
LEMMA Collapsed ==
  ASSUME TokensTyped, TokensTyped', NEW r \in Rows, r = first, CollapseBut(r)
  PROVE  /\ Active' = {r} /\ r \in Active /\ first' = r
         /\ \A q \in Rows : rows'[q].grant = rows[q].grant /\ rows'[q].failed = rows[q].failed
<1>1. r \in Active
  BY TokenNumbers DEF TokensTyped, FirstTyped
<1>2. Active' = {r}
  BY <1>1, CollapseRows
<1>3. first' = r
  BY <1>2 DEF TokensTyped, FirstTyped
<1> QED
  BY <1>1, <1>2, <1>3, CollapseRows

LEMMA CollapseOrderly ==
  ASSUME TokensTyped, TokensTyped', Orderly, NEW k \in Lags, Collapse(k)
  PROVE  Orderly'
<1>1. /\ checks[k].at = "collapse" /\ CollapseBut(checks[k].row)
      /\ Goes(k, [checks[k] EXCEPT !.at = "save"])
      /\ UNCHANGED <<logins, newest>>
  BY DEF Collapse, history
<1>2. checks[k].row = first /\ first \in Rows
  BY <1>1, CurrentFacts DEF Orderly, AllPlaced, Placed
<1>3. /\ Active' = {first} /\ first \in Active /\ first' = first
      /\ \A q \in Rows : rows'[q].grant = rows[q].grant
  BY <1>1, <1>2, Collapsed
<1>4. /\ checks'[k].at = "save" /\ checks'[k].row = first /\ checks'[k].grant = checks[k].grant
      /\ \A j \in Lags \ {k} : checks'[j] = checks[j]
  BY <1>1, <1>2, TokenTypes DEF Goes, TokensTyped, Calls
<1>5. \A j \in Lags \ {k} : ~Busy(checks'[j].at)
  BY <1>1, <1>4, BusyFacts DEF Orderly, LoneWriter
<1>6. \A l \in Logins : logins'[l] = Idle
  BY <1>1, BusyFacts DEF Orderly, LoneWriter
<1>7. Placed(checks[k])'
  BY <1>2, <1>3, <1>4, TokenNumbers DEF Placed
<1>8. NewestKept'
  BY <1>1, <1>2, <1>3, <1>4, <1>5, BusyFacts DEF Orderly, NewestKept
<1> QED
  BY <1>5, <1>6, <1>7, <1>8, WriterGoesOn

\* The row that is written is the only active one.
LEMMA OnlyTarget ==
  ASSUME TokensTyped, NEW c \in Calls, c.at = "save", Placed(c), NEW r \in Target(c)
  PROVE  /\ r \in Rows /\ Active \cup {r} = {r} /\ first \in {r, NoRow}
<1>1. r \in Rows /\ (c.row # NoRow => r = c.row)
  BY TargetRows
<1>2. Active \subseteq {r}
  BY <1>1 DEF Placed
<1> QED
  BY <1>1, <1>2, CurrentFacts

LEMMA SaveOrderly ==
  ASSUME TokensTyped, TokensTyped', Orderly, NEW k \in Lags, Save(k)
  PROVE  Orderly'
<1>1. PICK r \in Target(checks[k]) :
           /\ checks[k].at = "save" /\ r \in Rows
           /\ Active' = Active \cup {r}
           /\ rows'[r] = Stored(checks[k].grant)
           /\ checks'[k] = Idle
           /\ \A j \in Lags \ {k} : checks'[j] = Rekeyed(r, checks[j])
           /\ UNCHANGED <<logins, newest>>
  BY Saved
<1>2. Active' = {r}
  BY <1>1, OnlyTarget, TokenTypes DEF Orderly, AllPlaced
<1>3. rows'[r].grant = checks[k].grant
  BY <1>1, StoredRow, TokenTypes DEF Calls
<1>4. \A j \in Lags : ~Busy(checks'[j].at)
  BY <1>1, BusyFacts, CallKeeps, TokenTypes DEF Orderly, LoneWriter
<1>5. \A l \in Logins : logins'[l] = Idle
  BY <1>1, BusyFacts DEF Orderly, LoneWriter
<1>6. Placed(checks[k])'
  BY <1>1, BusyFacts DEF Placed
<1>7. NewestKept'
  BY <1>1, <1>2, <1>3, <1>4, BusyFacts DEF Orderly, NewestKept
<1> QED
  BY <1>4, <1>5, <1>6, <1>7, WriterGoesOn

LEMMA StartLoginOrderly ==
  ASSUME TokensTyped, TokensTyped', Orderly, ~contested',
         NEW l \in Logins, NEW g \in {"none", "newest"}, StartLogin(l, g)
  PROVE  Orderly'
<1>1. /\ logins'[l].at = "save" => logins'[l].row = NoRow /\ Active = {}
      /\ logins'[l].at = "collapse" => logins'[l].row = first /\ first \in Active
      /\ \A m \in Logins \ {l} : logins'[m] = logins[m]
      /\ UNCHANGED <<rows, first, checks, newest>>
      /\ \A k \in Lags : ~Busy(checks[k].at)
      /\ \A m \in Logins : logins[m] = Idle
  BY StartLoginMoves
<1>2. Active' = Active /\ (first \in Active => first # NoRow)
  BY <1>1, TokenNumbers DEF Active
<1>3. Placed(logins[l])'
  BY <1>1, <1>2 DEF Placed
<1>4. NewestKept'
  BY <1>1, <1>2 DEF Orderly, NewestKept
<1> QED
  BY <1>1, <1>3, <1>4, LoginGoesOn

LEMMA CollapseLoginOrderly ==
  ASSUME TokensTyped, TokensTyped', Orderly, NEW l \in Logins, CollapseLogin(l)
  PROVE  Orderly'
<1>1. /\ logins[l].at = "collapse" /\ CollapseBut(logins[l].row)
      /\ logins'[l].at = "save" /\ logins'[l].row = logins[l].row
      /\ \A m \in Logins \ {l} : logins'[m] = logins[m]
      /\ UNCHANGED <<checks, newest>>
  BY CollapseLoginMoves
<1>2. logins[l].row = first /\ first \in Rows
  BY <1>1, CurrentFacts DEF Orderly, AllPlaced, Placed
<1>3. /\ Active' = {first} /\ first \in Active /\ first' = first
      /\ \A q \in Rows : rows'[q].grant = rows[q].grant
  BY <1>1, <1>2, Collapsed
<1>4. logins[l] # Idle
  BY <1>1, BusyFacts
<1>5. (\A j \in Lags : ~Busy(checks'[j].at)) /\ (\A m \in Logins \ {l} : logins'[m] = Idle)
  BY <1>1, <1>4 DEF Orderly, LoneWriter
<1>6. Placed(logins[l])'
  BY <1>1, <1>2, <1>3, TokenNumbers DEF Placed
<1>7. NewestKept'
  BY <1>1, <1>2, <1>3, <1>5 DEF Orderly, NewestKept
<1> QED
  BY <1>5, <1>6, <1>7, LoginGoesOn

LEMMA SaveLoginOrderly ==
  ASSUME TokensTyped, TokensTyped', Orderly, NEW l \in Logins, SaveLogin(l)
  PROVE  Orderly'
<1>1. PICK r \in Target(logins[l]) :
              /\ logins[l].at = "save" /\ r \in Rows
              /\ Active' = Active \cup {r}
              /\ rows'[r] = Stored(logins[l].grant)
              /\ \A k \in Lags : checks'[k] = Overtaken(Rekeyed(r, checks[k]))
              /\ newest' = logins[l].grant
              /\ logins'[l] = Idle /\ \A m \in Logins \ {l} : logins'[m] = logins[m]
  BY SaveLoginMoves
<1>2. Active' = {r}
  BY <1>1, OnlyTarget, TokenTypes DEF Orderly, AllPlaced
<1>3. rows'[r].grant = newest'
  BY <1>1, StoredRow, TokenTypes DEF Calls
<1>4. logins[l] # Idle
  BY <1>1, BusyFacts
<1>5. \A k \in Lags : ~Busy(checks'[k].at)
  <2> SUFFICES ASSUME NEW k \in Lags PROVE ~Busy(checks'[k].at)
    OBVIOUS
  <2>1. checks[k] \in Calls /\ Rekeyed(r, checks[k]) \in Calls
    BY <1>1, TokenTypes, CallGoes
  <2>2. checks'[k].at = checks[k].at
    BY <1>1, <2>1, CallKeeps
  <2> QED
    BY <2>2, <1>4 DEF Orderly, LoneWriter
<1>6. \A m \in Logins : logins'[m] = Idle
  BY <1>1, <1>4 DEF Orderly, LoneWriter
<1>7. Placed(logins[l])'
  BY <1>1, BusyFacts DEF Placed
<1>8. NewestKept'
  BY <1>2, <1>3, <1>5 DEF NewestKept
<1> QED
  BY <1>5, <1>6, <1>7, <1>8, LoginGoesOn

\* The failures of a row are those the process has counted for it, if it is the active
\* one, and a refresh under way fails for this row or for none.
FailuresCounted ==
  /\ \A k \in Lags : checks[k].at \in Refreshing =>
       /\ checks[k].key \in {countedFor, Outdated}
       /\ checks[k].key \in {first, NoRow, Outdated}
  /\ \A r \in Rows : rows[r].failed <= MaxFailures
  /\ \A r \in Active : rows[r].failed <= IF r = first /\ countedFor = r THEN count ELSE 0

TokenInv == /\ FlagInv
            /\ ~contested => Orderly
            /\ ~contested /\ ~raced => FailuresCounted

LEMMA FailuresStay ==
  ASSUME TokensTyped, FailuresCounted,
         first' = first, Active' \subseteq Active, countedFor' = countedFor, count' = count,
         \A r \in Rows : rows'[r].failed = rows[r].failed,
         \A k \in Lags : checks'[k].at \in Refreshing =>
           checks[k].at \in Refreshing /\ checks'[k].key = checks[k].key
  PROVE  FailuresCounted'
<1>1. Active \subseteq Rows
  BY CurrentFacts
<1> QED
  BY <1>1 DEF FailuresCounted

\* Of check k nothing changes but its step, its refresh token and its row.
LEMMA KeyKept ==
  ASSUME TokensTyped, FailuresCounted, NEW k \in Lags, NEW c \in Calls, Goes(k, c),
         c.at \in Refreshing => checks[k].at \in Refreshing /\ c.key = checks[k].key,
         first' = first, Active' \subseteq Active, countedFor' = countedFor, count' = count,
         \A r \in Rows : rows'[r].failed = rows[r].failed
  PROVE  FailuresCounted'
<1>1. checks'[k] = c /\ \A j \in Lags \ {k} : checks'[j] = checks[j]
  BY DEF Goes, TokensTyped
<1> QED
  BY <1>1, FailuresStay

LEMMA TimerCounted ==
  ASSUME TokensTyped, TokensTyped', FailuresCounted, Timer
  PROVE  FailuresCounted'
<1>1. /\ checks'[0] = Begun
      /\ \A k \in Lags \ {0} : k - 1 \in Lags /\ checks'[k] = checks[k - 1]
      /\ Active' = Active /\ first' = first
      /\ \A r \in Rows : rows'[r].failed = rows[r].failed
  BY TimerShifts
<1>2. countedFor' = countedFor /\ count' = count
  BY DEF Timer
<1>3. "health" \notin Refreshing /\ Active \subseteq Rows
  BY CurrentFacts DEF Refreshing, Storing
<1>4. \A k \in Lags : checks'[k].at \in Refreshing => k # 0
  BY <1>1, <1>3, CallFacts
<1> QED
  BY <1>1, <1>2, <1>3, <1>4 DEF FailuresCounted

LEMMA DecideCounted ==
  ASSUME TokensTyped, TokensTyped', FlagHolds, FailuresCounted, NEW k \in Lags, Decide(k)
  PROVE  FailuresCounted'
<1>1. PICK n \in Nat, go \in BOOLEAN :
           /\ checks[k].at = "key"
           /\ n = (IF countedFor = first THEN count ELSE 0)
           /\ countedFor' = first /\ count' = n
           /\ Goes(k, IF go THEN [checks[k] EXCEPT !.at = "grant", !.key = first] ELSE Idle)
           /\ UNCHANGED <<rows, first>>
  BY Decided
<1>2. \A j \in Lags \ {k} : checks'[j].at \notin Refreshing
  BY <1>1 DEF Goes, TokensTyped, FlagHolds, Admitted
<1>3. checks'[k].at \in Refreshing => checks'[k].key = first
  <2>1. CASE go
    BY <1>1, <2>1, TokenTypes DEF Goes, TokensTyped, Calls
  <2>2. CASE ~go
    BY <1>1, <2>2, CallFacts DEF Goes, TokensTyped, Refreshing, Storing
  <2> QED
    BY <2>1, <2>2
<1>4. Active' = Active /\ Active \subseteq Rows
  BY <1>1, CurrentFacts DEF Active
<1>5. ASSUME NEW r \in Active
      PROVE  rows'[r].failed <= IF r = first' /\ countedFor' = r THEN count' ELSE 0
  <2>1. rows[r].failed <= IF r = first /\ countedFor = r THEN count ELSE 0
    BY DEF FailuresCounted
  <2>2. rows[r].failed \in Nat
    BY <1>4, TokenTypes DEF TokenRows
  <2> QED
    BY <1>1, <2>1, <2>2
<1> QED
  BY <1>1, <1>2, <1>3, <1>4, <1>5 DEF FailuresCounted

LEMMA FailCounted ==
  ASSUME TokensTyped, TokensTyped', FlagHolds, FailuresCounted, NEW k \in Lags,
         RefreshFails(k), checks[k].at \in Refreshing
  PROVE  FailuresCounted'
<1>1. /\ checks'[k] = Idle /\ \A j \in Lags \ {k} : checks'[j] = checks[j]
      /\ count' = count + 1 /\ UNCHANGED <<first, countedFor>>
  BY FailMoves
<1>2. /\ Active' = Active /\ Active \subseteq Rows
      /\ \A q \in Rows : rows'[q].failed = IF q = checks[k].key THEN OneMore(rows[q].failed)
                                           ELSE rows[q].failed
  BY FailedRows, CurrentFacts
<1>3. count < MaxFailures /\ count \in Nat
  BY TokenTypes DEF FlagHolds
<1>4. "idle" \notin Refreshing
  BY DEF Refreshing, Storing
<1>5. \A q \in Rows : rows[q].failed \in Nat
  BY TokenTypes DEF TokenRows
<1>6. ASSUME NEW q \in Rows, q = checks[k].key
      PROVE  /\ q = first /\ q = countedFor /\ q \in Active
             /\ rows[q].failed <= count /\ rows'[q].failed = rows[q].failed + 1
  <2>1. q = first /\ q = countedFor
    BY <1>6, TokenNumbers DEF FailuresCounted
  <2>2. q \in Active
    BY <2>1, CurrentFacts, TokenNumbers
  <2>3. rows[q].failed <= count
    BY <2>1, <2>2 DEF FailuresCounted
  <2>4. OneMore(rows[q].failed) = rows[q].failed + 1
    BY <1>3, <1>5, <2>3, TokenNumbers DEF OneMore
  <2> QED
    BY <1>2, <1>6, <2>1, <2>2, <2>3, <2>4
<1>7. \A r \in Rows : rows'[r].failed <= MaxFailures
  <2> SUFFICES ASSUME NEW r \in Rows PROVE rows'[r].failed <= MaxFailures
    OBVIOUS
  <2>1. CASE r = checks[k].key
    BY <1>3, <1>5, <1>6, <2>1, TokenNumbers
  <2>2. CASE r # checks[k].key
    BY <1>2, <2>2 DEF FailuresCounted
  <2> QED
    BY <2>1, <2>2
<1>8. ASSUME NEW r \in Active
      PROVE  rows'[r].failed <= IF r = first' /\ countedFor' = r THEN count' ELSE 0
  <2>1. r \in Rows /\ rows[r].failed \in Nat
    BY <1>2, <1>5
  <2>2. rows[r].failed <= IF r = first /\ countedFor = r THEN count ELSE 0
    BY DEF FailuresCounted
  <2>3. CASE r = checks[k].key
    BY <1>1, <1>3, <1>6, <2>1, <2>3
  <2>4. CASE r # checks[k].key
    BY <1>1, <1>2, <1>3, <2>1, <2>2, <2>4
  <2> QED
    BY <2>3, <2>4
<1>9. \A j \in Lags : checks'[j].at \in Refreshing =>
        /\ checks'[j].key \in {countedFor', Outdated}
        /\ checks'[j].key \in {first', NoRow, Outdated}
  BY <1>1, <1>4, CallFacts DEF FailuresCounted
<1> QED
  BY <1>2, <1>7, <1>8, <1>9 DEF FailuresCounted

LEMMA SaveCounted ==
  ASSUME TokensTyped, TokensTyped', Orderly, FlagHolds, FailuresCounted, NEW k \in Lags, Save(k)
  PROVE  FailuresCounted'
<1>1. PICK r \in Target(checks[k]) :
           /\ checks[k].at = "save" /\ r \in Rows
           /\ Active' = Active \cup {r}
           /\ rows'[r] = Stored(checks[k].grant)
           /\ \A q \in Rows \ {r} : rows'[q] = rows[q]
           /\ checks'[k] = Idle
           /\ \A j \in Lags \ {k} : checks'[j] = Rekeyed(r, checks[j])
           /\ count' = 0
  BY Saved
<1>2. Active' = {r}
  BY <1>1, OnlyTarget, TokenTypes DEF Orderly, AllPlaced
<1>3. rows'[r].failed = 0
  BY <1>1, StoredRow, TokenTypes DEF Calls
<1>4. "idle" \notin Refreshing /\ Refreshing \subseteq Admitted /\ "save" \in Refreshing
  BY DEF Refreshing, Storing, Admitted
<1>5. \A j \in Lags : checks'[j].at \notin Refreshing
  BY <1>1, <1>4, CallFacts, CallKeeps, TokenTypes DEF FlagHolds
<1>6. \A q \in Rows : rows'[q].failed <= MaxFailures
  BY <1>1, <1>3, TokenNumbers DEF FailuresCounted
<1> QED
  BY <1>1, <1>2, <1>3, <1>5, <1>6 DEF FailuresCounted

LEMMA SaveLoginCounted ==
  ASSUME TokensTyped, TokensTyped', Orderly, FailuresCounted, NEW l \in Logins, SaveLogin(l)
  PROVE  FailuresCounted'
<1>1. PICK r \in Target(logins[l]) :
              /\ logins[l].at = "save" /\ r \in Rows
              /\ Active' = Active \cup {r}
              /\ rows'[r] = Stored(logins[l].grant)
              /\ \A q \in Rows \ {r} : rows'[q].failed = rows[q].failed
              /\ \A k \in Lags : checks'[k] = Overtaken(Rekeyed(r, checks[k]))
              /\ countedFor' = IF countedFor = r THEN Outdated ELSE countedFor
              /\ UNCHANGED count
  BY SaveLoginMoves
<1>2. Active' = {r} /\ first \in {r, NoRow}
  BY <1>1, OnlyTarget, TokenTypes DEF Orderly, AllPlaced
<1>3. rows'[r].failed = 0 /\ count' \in Nat
  BY <1>1, StoredRow, TokenTypes DEF Calls
<1>4. ASSUME NEW k \in Lags, checks'[k].at \in Refreshing
      PROVE  /\ checks'[k].key \in {countedFor', Outdated}
             /\ checks'[k].key \in {first', NoRow, Outdated}
  <2>1. checks[k] \in Calls /\ Rekeyed(r, checks[k]) \in Calls
    BY <1>1, TokenTypes, CallGoes
  <2>2. /\ checks'[k].at = checks[k].at
        /\ checks'[k].key = IF checks[k].key = r THEN Outdated ELSE checks[k].key
    BY <1>1, <2>1, CallKeeps
  <2>3. /\ checks[k].key \in {countedFor, Outdated}
        /\ checks[k].key \in {first, NoRow, Outdated}
    BY <1>4, <2>2 DEF FailuresCounted
  <2> QED
    BY <1>1, <1>2, <2>2, <2>3
<1>5. \A q \in Rows : rows'[q].failed <= MaxFailures
  BY <1>1, <1>3, TokenNumbers DEF FailuresCounted
<1> QED
  BY <1>2, <1>3, <1>4, <1>5 DEF FailuresCounted

LEMMA Remembered ==
  ASSUME TokensTyped, [TokenNext]_tokenVars
  PROVE  (contested => contested') /\ (raced => raced')
<1>1. CASE UNCHANGED tokenVars \/ Timer
  BY <1>1 DEF tokenVars, Timer, history
<1>2. ASSUME NEW k \in Lags, Proceed(k) PROVE (contested => contested') /\ (raced => raced')
  <2>1. CASE CheckHealth(k)
    BY <2>1 DEF CheckHealth
  <2>2. CASE Decide(k)
    BY <2>2 DEF Decide, history
  <2>3. CASE ReadGrant(k)
    <3>1. raced' = raced
      BY <2>3 DEF ReadGrant
    <3>2. contested' = contested \/ contested' = (contested \/ OthersBusy(k))
      BY <2>3, Zenon DEF ReadGrant
    <3>3. contested \in BOOLEAN /\ contested' \in BOOLEAN
      BY TokenTypes, TokensTypedStep DEF TokensTyped
    <3> QED
      BY <3>1, <3>2, <3>3
  <2>4. CASE Fetch(k) \/ Collapse(k) \/ Save(k)
    BY <2>4 DEF Fetch, Collapse, Save, history
  <2> QED
    BY <1>2, <2>1, <2>2, <2>3, <2>4 DEF Proceed
<1>3. ASSUME NEW k \in Lags, ReadFails(k) \/ StoreFails(k)
      PROVE  (contested => contested') /\ (raced => raced')
  BY <1>3 DEF ReadFails, StoreFails, history
<1>4. ASSUME NEW l \in Logins, \/ StartLogin(l, "none") \/ StartLogin(l, "newest")
                               \/ CollapseLogin(l) \/ SaveLogin(l)
      PROVE  (contested => contested') /\ (raced => raced')
  <2>1. UNCHANGED raced /\ (contested => contested')
    <3>1. CASE StartLogin(l, "none") \/ StartLogin(l, "newest")
      BY <3>1, StartLoginMoves
    <3>2. CASE CollapseLogin(l) \/ SaveLogin(l)
      BY <3>2 DEF CollapseLogin, SaveLogin, history
    <3> QED
      BY <1>4, <3>1, <3>2
  <2> QED
    BY <2>1
<1>5. CASE WorkerRestarts \/ AppRestarts
  BY <1>5 DEF WorkerRestarts, AppRestarts, history
<1> QED
  BY <1>1, <1>2, <1>3, <1>4, <1>5 DEF TokenNext

LEMMA OrderlyStep ==
  ASSUME TokensTyped, TokensTyped', Orderly, [TokenNext]_tokenVars, ~contested'
  PROVE  Orderly'
<1>1. CASE UNCHANGED tokenVars
  BY <1>1, WritersStay DEF tokenVars, table, history, Active
<1>2. ASSUME NEW k \in Lags, CheckHealth(k) \/ Decide(k) \/ ReadFails(k)
      PROVE  Orderly'
  <2>1. /\ checks'[k].at \in {"idle", "key", "grant"}
        /\ \A j \in Lags \ {k} : checks'[j] = checks[j]
        /\ UNCHANGED <<rows, first, logins, newest>>
    <3>1. CASE CheckHealth(k)
      BY <3>1, TokenTypes, CallFacts DEF CheckHealth, Goes, table, TokensTyped, Calls
    <3>2. CASE Decide(k)
      BY <3>2, TokenTypes, CallFacts DEF Decide, Goes, table, history, TokensTyped, Calls
    <3>3. CASE ReadFails(k)
      BY <3>3, CallFacts DEF ReadFails, Goes, table, history, TokensTyped
    <3> QED
      BY <1>2, <3>1, <3>2, <3>3
  <2>2. Active' = Active
    BY <2>1 DEF Active
  <2>3. \A j \in Lags : Busy(checks'[j].at) => checks'[j] = checks[j]
    BY <2>1, BusyFacts
  <2> QED
    BY <2>1, <2>2, <2>3, WritersStay
<1>3. ASSUME NEW k \in Lags, StoreFails(k) PROVE Orderly'
  BY <1>3, FailOrderly DEF StoreFails, history
<1>4. CASE WorkerRestarts
  <2>1. \A k \in Lags : ~Busy(checks'[k].at)
    BY <1>4, RestartMoves, BusyFacts
  <2> QED
    BY <1>4, <2>1, RestartMoves, WritersStay
<1>5. CASE AppRestarts
  <2>1. Active' = Active
    BY <1>5, AppRestartMoves DEF Active
  <2> QED
    BY <1>5, <2>1, AppRestartMoves, WritersStay
<1>6. ASSUME NEW k \in Lags, Proceed(k) PROVE Orderly'
  BY <1>2, <1>6, ReadGrantOrderly, FetchOrderly, CollapseOrderly, SaveOrderly DEF Proceed
<1>7. ASSUME NEW l \in Logins, \/ StartLogin(l, "none") \/ StartLogin(l, "newest")
                               \/ CollapseLogin(l) \/ SaveLogin(l)
      PROVE  Orderly'
  BY <1>7, StartLoginOrderly, CollapseLoginOrderly, SaveLoginOrderly
<1> QED
  BY <1>1, <1>2, <1>3, <1>4, <1>5, <1>6, <1>7, TimerOrderly DEF TokenNext

LEMMA FailuresStep ==
  ASSUME FlagInv, TokensTyped', Orderly, FlagHolds, FailuresCounted,
         [TokenNext]_tokenVars
  PROVE  FailuresCounted'
<1> TokensTyped
  BY DEF FlagInv
<1>0. "idle" \notin Refreshing /\ "key" \notin Refreshing
  BY DEF Refreshing, Storing
<1>1. CASE UNCHANGED tokenVars
  BY <1>1, FailuresStay DEF tokenVars, table, memory, Active
<1>2. ASSUME NEW k \in Lags, CheckHealth(k) \/ ReadFails(k) PROVE FailuresCounted'
  <2>1. /\ checks'[k].at \in {"idle", "key"} /\ \A j \in Lags \ {k} : checks'[j] = checks[j]
        /\ UNCHANGED <<rows, first, countedFor, count>>
    <3>1. CASE CheckHealth(k)
      BY <3>1, TokenTypes, CallFacts DEF CheckHealth, Goes, table, memory, TokensTyped, Calls
    <3>2. CASE ReadFails(k)
      BY <3>2, CallFacts DEF ReadFails, Goes, table, TokensTyped
    <3> QED
      BY <1>2, <3>1, <3>2
  <2>2. Active' = Active
    BY <2>1 DEF Active
  <2> QED
    BY <1>0, <2>1, <2>2, FailuresStay
<1>3. ASSUME NEW k \in Lags, ReadGrant(k) PROVE FailuresCounted'
  <2>1. checks[k].at = "grant" /\ "grant" \in Refreshing
    BY <1>3 DEF ReadGrant, Refreshing
  <2>2. CASE RefreshFails(k)
    BY <2>1, <2>2, FailCounted
  <2>3. CASE \E r \in Current :
               /\ Goes(k, [checks[k] EXCEPT !.at = "fetch", !.grant = rows[r].grant])
               /\ UNCHANGED <<table, memory>>
    <3>1. PICK r \in Current :
            Goes(k, [checks[k] EXCEPT !.at = "fetch", !.grant = rows[r].grant])
      BY <2>3
    <3> DEFINE c == [checks[k] EXCEPT !.at = "fetch", !.grant = rows[r].grant]
    <3>2. rows[r].grant \in Grants
      BY TokenTypes, CurrentFacts DEF TokenRows
    <3>3. c \in Calls
      BY <3>2, TokenTypes, CallGoes
    <3>4. c.key = checks[k].key
      BY TokenTypes DEF Calls
    <3> HIDE DEF c
    <3>5. UNCHANGED <<rows, first, count, countedFor>> /\ Active' = Active
      BY <2>3 DEF table, memory, Active
    <3> QED
      BY <2>1, <3>1, <3>3, <3>4, <3>5, KeyKept DEF c
  <2> QED
    BY <1>3, <2>2, <2>3 DEF ReadGrant
<1>4. ASSUME NEW k \in Lags, Fetch(k) PROVE FailuresCounted'
  <2>1. checks[k].at = "fetch" /\ "fetch" \in Refreshing
    BY <1>4 DEF Fetch, Refreshing
  <2>2. CASE RefreshFails(k)
    BY <2>1, <2>2, FailCounted
  <2>3. CASE Goes(k, Found(checks[k])) /\ UNCHANGED <<table, memory>>
    <3>1. checks[k].row = NoRow /\ checks[k] \in Calls
      BY <2>1, TokenTypes DEF Storing
    <3>2. Found(checks[k]) \in Calls /\ Found(checks[k]).key = checks[k].key
      BY <3>1, FoundFacts
    <3>3. UNCHANGED <<rows, first, count, countedFor>> /\ Active' = Active
      BY <2>3 DEF table, memory, Active
    <3> QED
      BY <2>1, <2>3, <3>2, <3>3, KeyKept
  <2> QED
    BY <1>4, <2>2, <2>3 DEF Fetch
<1>5. ASSUME NEW k \in Lags, Collapse(k) PROVE FailuresCounted'
  <2>1. /\ checks[k].at = "collapse" /\ CollapseBut(checks[k].row)
        /\ Goes(k, [checks[k] EXCEPT !.at = "save"])
        /\ UNCHANGED <<count, countedFor>>
    BY <1>5 DEF Collapse, memory
  <2>2. checks[k].row = first /\ first \in Rows
    BY <2>1, CurrentFacts DEF Orderly, AllPlaced, Placed
  <2>3. /\ Active' \subseteq Active /\ first' = first
        /\ \A q \in Rows : rows'[q].failed = rows[q].failed
    BY <2>1, <2>2, Collapsed
  <2> DEFINE c == [checks[k] EXCEPT !.at = "save"]
  <2>4. c \in Calls /\ c.key = checks[k].key /\ "collapse" \in Refreshing
    BY TokenTypes DEF Calls, Refreshing, Storing
  <2> HIDE DEF c
  <2> QED
    BY <2>1, <2>3, <2>4, KeyKept DEF c
<1>6. ASSUME NEW k \in Lags, StoreFails(k) PROVE FailuresCounted'
  <2>1. checks[k].at \in Refreshing /\ RefreshFails(k)
    BY <1>6 DEF StoreFails, Refreshing
  <2> QED
    BY <2>1, FailCounted
<1>7. ASSUME NEW k \in Lags, Proceed(k) PROVE FailuresCounted'
  BY <1>2, <1>3, <1>4, <1>5, <1>7, DecideCounted, SaveCounted DEF Proceed
<1>8. ASSUME NEW l \in Logins, StartLogin(l, "none") \/ StartLogin(l, "newest")
      PROVE  FailuresCounted'
  <2>1. UNCHANGED <<rows, first, checks, count, countedFor>>
    BY <1>8, StartLoginMoves
  <2> QED
    BY <2>1, FailuresStay DEF Active
<1>9. ASSUME NEW l \in Logins, CollapseLogin(l) PROVE FailuresCounted'
  <2>1. /\ logins[l].at = "collapse" /\ CollapseBut(logins[l].row)
        /\ UNCHANGED <<checks, count, countedFor>>
    BY <1>9, CollapseLoginMoves
  <2>2. logins[l].row = first /\ first \in Rows
    BY <2>1, CurrentFacts DEF Orderly, AllPlaced, Placed
  <2>3. /\ Active' \subseteq Active /\ first' = first
        /\ \A q \in Rows : rows'[q].failed = rows[q].failed
    BY <2>1, <2>2, Collapsed
  <2> QED
    BY <2>1, <2>3, FailuresStay
<1>10. ASSUME NEW l \in Logins, SaveLogin(l) PROVE FailuresCounted'
  BY <1>10, SaveLoginCounted
<1>11. CASE WorkerRestarts
  <2>1. \A k \in Lags : checks'[k].at \notin Refreshing
    BY <1>11, RestartMoves DEF Refreshing, Storing
  <2> QED
    BY <1>11, <2>1, RestartMoves, CurrentFacts, TokenNumbers DEF FailuresCounted
<1>12. CASE AppRestarts
  BY <1>12, AppRestartMoves, FailuresStay DEF Active
<1> QED
  BY <1>1, <1>2, <1>6, <1>7, <1>8, <1>9, <1>10, <1>11, <1>12, TimerCounted DEF TokenNext

LEMMA TokenInvInit == TokenInit => TokenInv
<1> SUFFICES ASSUME TokenInit PROVE TokenInv
  OBVIOUS
<1>1. FlagInv /\ TokensTyped
  BY FlagInit DEF FlagInv
<1>2. (\A k \in Lags : checks[k].at \in {"idle", "health"}) /\ \A l \in Logins : logins[l] = Idle
  BY CallFacts DEF TokenInit
<1>3. Orderly
  BY <1>2, BusyFacts DEF TokenInit, Orderly, LoneWriter, AllPlaced, Placed, NewestKept
<1>4. \A r \in Rows : rows[r].failed = 0
  <2>1. Unused.failed = 0
    BY DEF Unused
  <2>2. \A w \in Legacy : w.failed = 0
    BY <2>1 DEF Legacy
  <2> QED
    BY <2>2 DEF TokenInit
<1>5. FailuresCounted
  <2>1. \A k \in Lags : checks[k].at \notin Refreshing
    BY <1>2 DEF Refreshing, Storing
  <2> QED
    BY <1>1, <1>4, <2>1, CurrentFacts, TokenTypes, TokenNumbers DEF FailuresCounted
<1> QED
  BY <1>1, <1>3, <1>5 DEF TokenInv

LEMMA TokenInvStep == TokenInv /\ [TokenNext]_tokenVars => TokenInv'
<1> SUFFICES ASSUME TokenInv, [TokenNext]_tokenVars PROVE TokenInv'
  OBVIOUS
<1>1. FlagInv' /\ TokensTyped /\ TokensTyped'
  BY FlagStep DEF TokenInv, FlagInv
<1>2. (contested => contested') /\ (raced => raced')
  BY <1>1, Remembered
<1>3. ~contested' => Orderly'
  BY <1>1, <1>2, OrderlyStep DEF TokenInv
<1>4. ~contested' /\ ~raced' => FailuresCounted'
  BY <1>1, <1>2, FailuresStep DEF TokenInv, FlagInv
<1> QED
  BY <1>1, <1>3, <1>4 DEF TokenInv

\* The token row, the checks and the logins keep their types, and the counter of failures
\* stays below the limit plus the checks that can be under way.
THEOREM TokensWellTyped == TokenSpec => []TokenTypeOK
<1>1. TokenInv => TokenTypeOK
  <2> SUFFICES ASSUME TokenInv PROVE TokenTypeOK
    OBVIOUS
  <2>1. count \in 0..(MaxFailures + MaxLag)
    BY RefreshersFinite, TokenNumbers DEF TokenInv, FlagInv, Counted, TokensTyped
  <2> QED
    BY <2>1 DEF TokenInv, FlagInv, TokensTyped, FirstTyped, TokenTypeOK
<1> QED
  BY <1>1, TokenInvInit, TokenInvStep, PTL DEF TokenSpec

\* FYERS is not stormed: one refresh at a time, and no stored content is asked for more
\* often than allowed, although checks outlast the timer and logins come in between.
THEOREM RefreshesAreBounded == TokenSpec => []RefreshesBounded
<1>1. TokenInv => RefreshesBounded
  <2> SUFFICES ASSUME TokenInv PROVE RefreshesBounded
    OBVIOUS
  <2>1. ASSUME ~raced PROVE Cardinality(Refreshers) <= 1
    <3>1. \A j, k \in Refreshers : j = k
      BY <2>1 DEF TokenInv, FlagInv, FlagHolds, Refreshers, Admitted
    <3>2. Refreshers = {} \/ \E k \in Refreshers : Refreshers = {k}
      BY <3>1
    <3> QED
      BY <3>2, FS_EmptySet, FS_Singleton
  <2>2. ~raced /\ ~contested => \A r \in Rows : rows[r].failed <= MaxFailures
    BY DEF TokenInv, FailuresCounted
  <2> QED
    BY <2>1, <2>2 DEF RefreshesBounded, Refreshers
<1> QED
  BY <1>1, TokenInvInit, TokenInvStep, PTL DEF TokenSpec

\* storeTokens keeps one active row, and no refresh brings back an earlier login, as long
\* as one of them writes at a time; whatever fails or restarts.
THEOREM LoginsHold == TokenSpec => []LoginHolds
<1>1. TokenInv => LoginHolds
  <2> SUFFICES ASSUME TokenInv, ~contested, newest # "never"
               PROVE  Cardinality(Active) <= 1 /\ \A r \in Active : rows[r].grant = newest
    BY DEF LoginHolds
  <2>1. (\A r, q \in Active : r = q) /\ \A r \in Active : rows[r].grant = newest
    BY DEF TokenInv, Orderly, NewestKept
  <2>2. Active = {} \/ \E r \in Active : Active = {r}
    BY <2>1
  <2> QED
    BY <2>1, <2>2, FS_EmptySet, FS_Singleton
<1> QED
  BY <1>1, TokenInvInit, TokenInvStep, PTL DEF TokenSpec
-----------------------------------------------------------------------------
\* While the flag is up, some check is between setting it and its finally clause.
FlagOwned == inFlight => \E k \in Lags : checks[k].at \in Refreshing

\* A check that refreshes goes on to refresh.
LEMMA OwnerGoesOn ==
  ASSUME TokensTyped, FlagOwned, inFlight' = inFlight,
         NEW k \in Lags, NEW c, Goes(k, c), checks[k].at \in Refreshing => c.at \in Refreshing
  PROVE  FlagOwned'
BY TokenTypes DEF TokensTyped, Goes, FlagOwned

LEMMA FlagOwnedStep == TokensTyped /\ FlagOwned /\ [TokenNext]_tokenVars => FlagOwned'
<1> SUFFICES ASSUME TokensTyped, FlagOwned, [TokenNext]_tokenVars PROVE FlagOwned'
  OBVIOUS
<1>1. ASSUME ~inFlight' PROVE FlagOwned'
  BY <1>1 DEF FlagOwned
<1>2. CASE Timer
  <2> SUFFICES ASSUME inFlight' PROVE \E k \in Lags : checks'[k].at \in Refreshing
    BY DEF FlagOwned
  <2>1. PICK k \in Lags : checks[k].at \in Refreshing
    BY <1>2 DEF Timer, FlagOwned
  <2>2. k # MaxLag
    BY <1>2, <2>1, TimerShifts, CallFacts DEF Refreshing, Storing
  <2>3. k + 1 \in Lags \ {0} /\ (k + 1) - 1 = k
    BY <2>2, TokenNumbers DEF Lags
  <2>4. checks'[k + 1] = checks[k]
    BY <1>2, <2>3, TimerShifts
  <2> QED
    BY <2>1, <2>3, <2>4
<1>3. ASSUME NEW k \in Lags, CheckHealth(k) PROVE FlagOwned'
  BY <1>3, OwnerGoesOn DEF CheckHealth, Refreshing, Storing, memory
<1>4. ASSUME NEW k \in Lags, Decide(k) PROVE FlagOwned'
  <2> DEFINE key == IF Current = {} THEN NoRow ELSE CHOOSE r \in Current : TRUE
             n   == IF countedFor = key THEN count ELSE 0
             go  == n < MaxFailures /\ since - k >= Cooldown
             c   == [checks[k] EXCEPT !.at = "grant", !.key = key]
  <2>1. /\ checks[k].at = "key" /\ inFlight' = (inFlight \/ go)
        /\ Goes(k, IF go THEN c ELSE Idle)
    BY <1>4 DEF Decide
  <2>2. c.at = "grant"
    BY TokenTypes DEF Calls
  <2> HIDE DEF go, c
  <2>3. CASE go
    <3>1. checks'[k] = c
      BY <2>1, <2>3 DEF Goes, TokensTyped
    <3> QED
      BY <2>2, <3>1 DEF FlagOwned, Refreshing
  <2>4. CASE ~go
    <3>1. inFlight' = inFlight /\ Goes(k, Idle) /\ checks[k].at \notin Refreshing
      BY <2>1, <2>4, TokenTypes DEF Refreshing, Storing
    <3> QED
      BY <3>1, OwnerGoesOn
  <2> QED
    BY <2>3, <2>4
<1>5. ASSUME NEW k \in Lags, ReadGrant(k) PROVE FlagOwned'
  <2>1. CASE RefreshFails(k)
    BY <1>1, <2>1 DEF RefreshFails
  <2>2. CASE ~RefreshFails(k)
    <3>1. PICK r \in Current :
            /\ Goes(k, [checks[k] EXCEPT !.at = "fetch", !.grant = rows[r].grant])
            /\ inFlight' = inFlight
      BY <1>5, <2>2 DEF ReadGrant, memory
    <3>2. [checks[k] EXCEPT !.at = "fetch", !.grant = rows[r].grant].at = "fetch"
      BY TokenTypes DEF Calls
    <3> QED
      BY <3>1, <3>2, OwnerGoesOn DEF Refreshing
  <2> QED
    BY <2>1, <2>2
<1>6. ASSUME NEW k \in Lags, Fetch(k) PROVE FlagOwned'
  <2>1. CASE RefreshFails(k)
    BY <1>1, <2>1 DEF RefreshFails
  <2>2. CASE ~RefreshFails(k)
    <3>1. Goes(k, Found(checks[k])) /\ inFlight' = inFlight
      BY <1>6, <2>2 DEF Fetch, memory
    <3>2. Found(checks[k]).at \in Refreshing
      BY TokenTypes DEF Found, Calls, Refreshing, Storing
    <3> QED
      BY <3>1, <3>2, OwnerGoesOn
  <2> QED
    BY <2>1, <2>2
<1>7. ASSUME NEW k \in Lags, Collapse(k) PROVE FlagOwned'
  <2>1. Goes(k, [checks[k] EXCEPT !.at = "save"]) /\ inFlight' = inFlight
    BY <1>7 DEF Collapse, memory
  <2>2. [checks[k] EXCEPT !.at = "save"].at \in Refreshing
    BY TokenTypes DEF Calls, Refreshing, Storing
  <2> QED
    BY <2>1, <2>2, OwnerGoesOn
<1>8. ASSUME NEW k \in Lags, Save(k) \/ StoreFails(k) PROVE FlagOwned'
  BY <1>1, <1>8 DEF Save, StoreFails, RefreshFails
<1>9. ASSUME NEW k \in Lags, ReadFails(k) PROVE FlagOwned'
  <2>1. /\ checks[k].at \in {"health", "key", "grant"} /\ Goes(k, Idle)
        /\ inFlight' = (inFlight /\ checks[k].at # "grant")
    BY <1>9 DEF ReadFails
  <2>2. CASE checks[k].at = "grant"
    BY <1>1, <2>1, <2>2
  <2>3. CASE checks[k].at # "grant"
    <3>1. checks[k].at \notin Refreshing /\ inFlight' = inFlight
      BY <2>1, <2>3, TokenTypes DEF Refreshing, Storing
    <3> QED
      BY <2>1, <3>1, OwnerGoesOn
  <2> QED
    BY <2>2, <2>3
<1>10. ASSUME NEW l \in Logins, StartLogin(l, "none") \/ StartLogin(l, "newest") \/ CollapseLogin(l)
       PROVE  FlagOwned'
  BY <1>10 DEF StartLogin, CollapseLogin, FlagOwned, memory
<1>11. ASSUME NEW l \in Logins, SaveLogin(l) PROVE FlagOwned'
  <2>1. PICK r \in Target(logins[l]) :
          /\ checks' = [k \in Lags |-> Overtaken(Rekeyed(r, checks[k]))]
          /\ inFlight' = inFlight
    BY <1>11 DEF SaveLogin
  <2>2. \A k \in Lags : Overtaken(Rekeyed(r, checks[k])).at = checks[k].at
    BY TokenTypes DEF Calls, Overtaken, Rekeyed
  <2> QED
    BY <2>1, <2>2 DEF FlagOwned
<1>12. CASE WorkerRestarts
  BY <1>1, <1>12 DEF WorkerRestarts
<1>13. CASE AppRestarts
  BY <1>13 DEF AppRestarts, FlagOwned, memory
<1>14. CASE UNCHANGED tokenVars
  BY <1>14 DEF tokenVars, memory, FlagOwned
<1> QED
  BY <1>2, <1>3, <1>4, <1>5, <1>6, <1>7, <1>8, <1>9, <1>10, <1>11, <1>12, <1>13, <1>14
  DEF TokenNext, Proceed

\* The flag of the supervisor is never left up: while it is, some check is between its
\* setting and the finally clause, whatever raced, failed or restarted.  This is the
\* safety that Renews rests on.
THEOREM FlagIsReleased ==
  TokenSpec => [](inFlight => \E k \in Lags : checks[k].at \in Refreshing)
<1>1. TokenInit => FlagOwned
  BY DEF TokenInit, FlagOwned
<1>2. TokenInv => TokensTyped
  BY DEF TokenInv, FlagInv
<1>3. TokenSpec => []FlagOwned
  BY <1>1, <1>2, FlagOwnedStep, TokenInvInit, TokenInvStep, PTL DEF TokenSpec
<1>4. FlagOwned <=> (inFlight => \E k \in Lags : checks[k].at \in Refreshing)
  BY DEF FlagOwned
<1> QED
  BY <1>3, <1>4, PTL
=============================================================================
