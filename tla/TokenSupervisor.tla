--------------------------- MODULE TokenSupervisor ---------------------------
(***************************************************************************)
(* The FYERS access token: the worker's supervisor renews it from the       *)
(* stored refresh token, the app's OAuth callbacks store what a new login    *)
(* brings, and both write the provider_tokens row through storeTokens.       *)
(*                                                                         *)
(* A check runs every ten minutes, whether or not the one before has ended.  *)
(* Its first three reads come before the flag that keeps two refreshes       *)
(* apart is set.  storeTokens is three statements without a transaction: it  *)
(* looks for the active row, revokes the others, and saves.                  *)
(*                                                                         *)
(* Time is counted in checks.  The PIN is configured in the worker, and in   *)
(* no other process, so nobody else refreshes.  The reports only reach the   *)
(* log; the Upstox request flow is switched off in the code.                 *)
(***************************************************************************)
EXTENDS Integers, FiniteSets

CONSTANTS
  Logins,       \* OAuth callbacks that may be in flight at once
  MaxRows,      \* rows the table remembers: when it is full, an insertion takes the place
                \* of a revoked row that nobody has in hand
  Cooldown,     \* checks between two attempts (15 minutes: 2)
  MaxFailures,  \* FYERS_MAX_CONSECUTIVE_FAILURES
  MaxLag,       \* bound on the checks that begin while one is still running
  MaxBreaks

ASSUME SupervisorAssumption ==
  /\ {Cooldown, MaxLag, MaxBreaks} \subseteq Nat
  /\ {MaxRows, MaxFailures} \subseteq Nat \ {0}

VARIABLES
  rows,         \* provider_tokens of fyers/live
  first,        \* the active row that findOne returns; each write may bring another first
  checks,       \* the running checks, by their age
  logins,
  inFlight,     \* fyersRefreshInFlight
  since,        \* checks since fyersLastAttemptAt
  count,        \* fyersFailureCount
  countedFor,   \* the row whose content fyersFailuresForContentKey is the key of
  newest,       \* history: what the last login brought
  raced,        \* history: two checks were past the flag, and short of setting it
  contested,    \* history: a login overlapped a refresh or another login
  breaks

table     == <<rows, first>>
memory    == <<inFlight, since, count, countedFor>>
history   == <<newest, raced, contested>>
tokenVars == <<table, checks, logins, memory, history, breaks>>

Rows    == 1..MaxRows
Lags    == 0..MaxLag
NoRow   == 0            \* the key of "no-row"
Outdated == -1           \* a key that no stored row has

\* Refresh tokens: of the last login that stored one, or of one before it.
Grants  == {"none", "newest", "older"}
Storing == {"collapse", "save"}
Refreshing == {"grant", "fetch"} \cup Storing

\* failed (history): the failed attempts of this process with the stored content, no more
\* than one too many.
TokenRows == [status: {"unused", "active", "revoked"}, fresh: BOOLEAN, grant: Grants,
              failed: 0..(MaxFailures + 1)]
Unused    == [status |-> "unused", fresh |-> FALSE, grant |-> "none", failed |-> 0]

\* A check or a login between two awaits: its next step, the key and the refresh token it
\* has read, and the row storeTokens has found.
Calls == [at: {"idle", "health", "key"} \cup Refreshing,
          key: Rows \cup {NoRow, Outdated}, grant: Grants, row: Rows \cup {NoRow}]
Idle  == [at |-> "idle", key |-> Outdated, grant |-> "none", row |-> NoRow]
Begun == [Idle EXCEPT !.at = "health"]

Active  == {r \in Rows : rows[r].status = "active"}
Current == {first} \ {NoRow}

\* After a write: findOne names no order.
Reordered == first' \in IF Active' = {} THEN {NoRow} ELSE Active'

Busy(at) == at \in {"fetch"} \cup Storing
OthersBusy(k) == \/ \E j \in Lags \ {k} : Busy(checks[j].at)
                 \/ \E l \in Logins : logins[l] # Idle
-----------------------------------------------------------------------------
\* "Historical rows retained for audit", "stray duplicate active rows": the table may hold
\* rows from before the rule of the single row.
Legacy == {Unused} \cup
          [status: {"active", "revoked"}, fresh: {FALSE}, grant: {"older"}, failed: {0}]

TokenInit ==
  /\ rows \in [Rows -> Legacy]
  /\ first = IF Active = {} THEN NoRow ELSE CHOOSE r \in Active : TRUE
  /\ checks = [k \in Lags |-> IF k = 0 THEN Begun ELSE Idle]
  /\ logins = [l \in Logins |-> Idle]
  /\ inFlight = FALSE /\ since = MaxLag + Cooldown
  /\ count = 0 /\ countedFor = Outdated
  /\ newest = "never" /\ raced = FALSE /\ contested = FALSE
  /\ breaks = 0
-----------------------------------------------------------------------------
(* checkFyers and maybeRefreshFyers                                            *)

\* setInterval: ten minutes pass, in which tokens may come due, and the next check begins.
Timer ==
  /\ checks[MaxLag] = Idle
  /\ \E due \in SUBSET Active :
       rows' = [r \in Rows |-> [rows[r] EXCEPT !.fresh = @ /\ r \notin due]]
  /\ checks' = [k \in Lags |-> IF k = 0 THEN Begun ELSE checks[k - 1]]
  /\ since' = IF since < MaxLag + Cooldown THEN since + 1 ELSE since
  /\ UNCHANGED <<first, logins, inFlight, count, countedFor, history, breaks>>

Goes(k, call) == checks' = [checks EXCEPT ![k] = call]

\* getActiveTokenInfo: the token has at most half an hour left; getRefreshStatus counts the
\* refresh tokens of all rows, the revoked ones included; then the flag.
CheckHealth(k) ==
  LET goesOn == /\ \E r \in Current : ~rows[r].fresh
                /\ \E r \in Rows : rows[r].grant # "none"
                /\ ~inFlight
  IN
  /\ checks[k].at = "health"
  /\ Goes(k, IF goesOn THEN [checks[k] EXCEPT !.at = "key"] ELSE Idle)
  /\ raced' = (raced \/ (goesOn /\ \E j \in Lags : checks[j].at = "key"))
  /\ UNCHANGED <<table, logins, memory, newest, contested, breaks>>

\* Slip: the flag is never set.
DecideUnflagged(k) ==
  LET key == IF Current = {} THEN NoRow ELSE CHOOSE r \in Current : TRUE
      n   == IF countedFor = key THEN count ELSE 0
      go  == n < MaxFailures /\ since - k >= Cooldown
  IN
  /\ checks[k].at = "key"
  /\ countedFor' = key /\ count' = n
  /\ since' = IF go THEN k ELSE since
  /\ Goes(k, IF go THEN [checks[k] EXCEPT !.at = "grant", !.key = key] ELSE Idle)
  /\ UNCHANGED <<table, logins, inFlight, history, breaks>>

\* Slip: a check that makes no attempt is counted as one by the cooldown.
DecideRestamped(k) ==
  LET key == IF Current = {} THEN NoRow ELSE CHOOSE r \in Current : TRUE
      n   == IF countedFor = key THEN count ELSE 0
      go  == n < MaxFailures /\ since - k >= Cooldown
  IN
  /\ checks[k].at = "key"
  /\ countedFor' = key /\ count' = n
  /\ inFlight' = (inFlight \/ go)
  /\ since' = k
  /\ Goes(k, IF go THEN [checks[k] EXCEPT !.at = "grant", !.key = key] ELSE Idle)
  /\ UNCHANGED <<table, logins, history, breaks>>

\* fyersContentKey, the failures of this content, the cooldown, and the flag.
Decide(k) ==
  LET key == IF Current = {} THEN NoRow ELSE CHOOSE r \in Current : TRUE
      n   == IF countedFor = key THEN count ELSE 0
      go  == n < MaxFailures /\ since - k >= Cooldown
  IN
  /\ checks[k].at = "key"
  /\ countedFor' = key /\ count' = n
  /\ inFlight' = (inFlight \/ go)
  /\ since' = IF go THEN k ELSE since
  /\ Goes(k, IF go THEN [checks[k] EXCEPT !.at = "grant", !.key = key] ELSE Idle)
  /\ UNCHANGED <<table, logins, history, breaks>>

OneMore(n) == IF n <= MaxFailures THEN n + 1 ELSE n

\* refreshAccessToken returns false; the finally clause.
RefreshFails(k) ==
  /\ count' = count + 1
  /\ inFlight' = FALSE
  /\ rows' = [r \in Rows |-> IF r = checks[k].key THEN [rows[r] EXCEPT !.failed = OneMore(@)]
                             ELSE rows[r]]
  /\ Goes(k, Idle)
  /\ UNCHANGED <<first, logins, since, countedFor>>

\* getActiveRefreshToken
ReadGrant(k) ==
  /\ checks[k].at = "grant"
  /\ \/ \E r \in Current :
          /\ rows[r].grant # "none"
          /\ Goes(k, [checks[k] EXCEPT !.at = "fetch", !.grant = rows[r].grant])
          /\ contested' = (contested \/ OthersBusy(k))
          /\ UNCHANGED <<table, logins, memory>>
     \/ /\ \A r \in Current : rows[r].grant = "none"
        /\ RefreshFails(k)
        /\ UNCHANGED contested
  /\ UNCHANGED <<newest, raced, breaks>>
-----------------------------------------------------------------------------
(* The answer of FYERS, and storeTokens                                        *)

\* The active row is read; without one a row will be inserted.
Found(call) == IF Current = {} THEN [call EXCEPT !.at = "save"]
               ELSE [call EXCEPT !.at = "collapse", !.row = CHOOSE r \in Current : TRUE]

\* FYERS answers with a new access token, or it does not.
Fetch(k) ==
  /\ checks[k].at = "fetch"
  /\ \/ Goes(k, Found(checks[k]))
        /\ UNCHANGED <<table, logins, memory>>
     \/ RefreshFails(k)
  /\ UNCHANGED <<history, breaks>>

\* Slip: the row that is kept is revoked with the others.
CollapseAll(keep) ==
  /\ rows' = [r \in Rows |-> IF r \in Active THEN [rows[r] EXCEPT !.status = "revoked"]
                             ELSE rows[r]]
  /\ UNCHANGED first

CollapseBut(keep) ==
  /\ rows' = [r \in Rows |-> IF r \in Active \ {keep}
                             THEN [rows[r] EXCEPT !.status = "revoked"] ELSE rows[r]]
  /\ Reordered

\* Where the row is written: over the one found, or anywhere if there was none.
InHand == {checks[k].row : k \in Lags} \cup {logins[l].row : l \in Logins}
Vacant == LET unused == {r \in Rows : rows[r].status = "unused"}
              places == IF unused # {} THEN unused ELSE Rows \ (Active \cup InHand)
          IN  {r \in places : \A q \in places : r <= q}
Target(call) == IF call.row # NoRow THEN {call.row} ELSE Vacant

\* Row r gets new content, and its key changes.
Rekeyed(r, call) == IF call.key = r THEN [call EXCEPT !.key = Outdated] ELSE call

\* What the others have of the login before the last.
Aged(g)         == IF g = "newest" THEN "older" ELSE g
Overtaken(call) == [call EXCEPT !.grant = Aged(@)]

Stored(grant) == [status |-> "active", fresh |-> TRUE, grant |-> grant, failed |-> 0]

Collapse(k) ==
  /\ checks[k].at = "collapse"
  /\ CollapseBut(checks[k].row)
  /\ Goes(k, [checks[k] EXCEPT !.at = "save"])
  /\ UNCHANGED <<logins, memory, history, breaks>>

\* Slip: the answer of FYERS has no refresh token, and none is stored.
SaveWiped(k) ==
  /\ checks[k].at = "save"
  /\ \E r \in Target(checks[k]) :
       /\ rows' = [rows EXCEPT ![r] = Stored("none")]
       /\ Reordered
       /\ checks' = [j \in Lags |-> IF j = k THEN Idle ELSE Rekeyed(r, checks[j])]
       /\ countedFor' = IF countedFor = r THEN Outdated ELSE countedFor
  /\ count' = 0 /\ inFlight' = FALSE
  /\ UNCHANGED <<logins, since, newest, raced, contested, breaks>>

\* The refresh token the check began with is stored again; the finally clause.
Save(k) ==
  /\ checks[k].at = "save"
  /\ \E r \in Target(checks[k]) :
       /\ rows' = [rows EXCEPT ![r] = Stored(checks[k].grant)]
       /\ Reordered
       /\ checks' = [j \in Lags |-> IF j = k THEN Idle ELSE Rekeyed(r, checks[j])]
       /\ countedFor' = IF countedFor = r THEN Outdated ELSE countedFor
  /\ count' = 0 /\ inFlight' = FALSE
  /\ UNCHANGED <<logins, since, newest, raced, contested, breaks>>

\* A user has logged in, and FYERS has given tokens for the code; a refresh token may be
\* missing.
StartLogin(l, grant) ==
  /\ logins[l] = Idle
  /\ logins' = [logins EXCEPT ![l] = Found([Idle EXCEPT !.grant = grant])]
  /\ contested' = (contested \/ (\E k \in Lags : Busy(checks[k].at))
                             \/ (\E m \in Logins : logins[m] # Idle))
  /\ UNCHANGED <<table, checks, memory, newest, raced, breaks>>

CollapseLogin(l) ==
  /\ logins[l].at = "collapse"
  /\ CollapseBut(logins[l].row)
  /\ logins' = [logins EXCEPT ![l].at = "save"]
  /\ UNCHANGED <<checks, memory, history, breaks>>

SaveLogin(l) ==
  /\ logins[l].at = "save"
  /\ \E r \in Target(logins[l]) :
       /\ rows' = [q \in Rows |-> IF q = r THEN Stored(logins[l].grant)
                                  ELSE [rows[q] EXCEPT !.grant = Aged(@)]]
       /\ Reordered
       /\ checks' = [k \in Lags |-> Overtaken(Rekeyed(r, checks[k]))]
       /\ countedFor' = IF countedFor = r THEN Outdated ELSE countedFor
  /\ logins' = [logins EXCEPT ![l] = Idle]
  /\ newest' = logins[l].grant
  /\ UNCHANGED <<inFlight, since, count, raced, contested, breaks>>
-----------------------------------------------------------------------------
(* Failing statements, crashes                                                 *)

Break == breaks < MaxBreaks /\ breaks' = breaks + 1

\* A read fails: before the flag the check just ends; the read of the refresh token is
\* outside the try block of refreshAccessToken, and counts as no failure.
ReadFails(k) ==
  /\ checks[k].at \in {"health", "key", "grant"}
  /\ Break
  /\ inFlight' = (inFlight /\ checks[k].at # "grant")
  /\ Goes(k, Idle)
  /\ UNCHANGED <<table, logins, since, count, countedFor, history>>

StoreFails(k) ==
  /\ checks[k].at \in Storing
  /\ Break
  /\ RefreshFails(k)
  /\ UNCHANGED history

WorkerRestarts ==
  /\ Break
  /\ checks' = [k \in Lags |-> IF k = 0 THEN Begun ELSE Idle]
  /\ inFlight' = FALSE /\ since' = MaxLag + Cooldown
  /\ count' = 0 /\ countedFor' = Outdated
  /\ rows' = [r \in Rows |-> [rows[r] EXCEPT !.failed = 0]]
  /\ UNCHANGED <<first, logins, history>>

\* The app dies, or the statement of the only login fails.
AppRestarts ==
  /\ \E l \in Logins : logins[l] # Idle
  /\ Break
  /\ logins' = [l \in Logins |-> Idle]
  /\ UNCHANGED <<table, checks, memory, history>>
-----------------------------------------------------------------------------
Proceed(k) == \/ CheckHealth(k) \/ Decide(k)
              \/ ReadGrant(k) \/ Fetch(k) \/ Collapse(k) \/ Save(k)

TokenNext ==
  \/ Timer
  \/ \E k \in Lags : Proceed(k) \/ ReadFails(k) \/ StoreFails(k)
  \/ \E l \in Logins :
       \/ StartLogin(l, "none") \/ StartLogin(l, "newest")
       \/ CollapseLogin(l) \/ SaveLogin(l)
  \/ WorkerRestarts \/ AppRestarts

\* The timer goes off, and the statements and requests of the checks end.
Fairness == WF_tokenVars(Timer) /\ WF_tokenVars(\E k \in Lags : Proceed(k))

TokenSpec     == TokenInit /\ [][TokenNext]_tokenVars
TokenFairSpec == TokenSpec /\ Fairness
-----------------------------------------------------------------------------
(* Properties *)

TokenTypeOK ==
  /\ rows \in [Rows -> TokenRows]
  /\ first \in Active \/ (first = NoRow /\ Active = {})
  /\ checks \in [Lags -> Calls] /\ logins \in [Logins -> Calls]
  /\ inFlight \in BOOLEAN /\ since \in 0..(MaxLag + Cooldown)
  /\ count \in 0..(MaxFailures + MaxLag)
  /\ countedFor \in Rows \cup {NoRow, Outdated}
  /\ newest \in {"never"} \cup Grants /\ {raced, contested} \subseteq BOOLEAN
  /\ breaks \in 0..MaxBreaks

(***************************************************************************)
(* "at most FYERS_MAX_CONSECUTIVE_FAILURES attempts per stored-token content *)
(* per process", and one refresh at a time: unless two checks were between   *)
(* the test of the flag and its setting, or logins fought over the row.      *)
(***************************************************************************)
RefreshesBounded ==
  /\ raced \/ Cardinality({k \in Lags : checks[k].at \in Refreshing}) <= 1
  /\ raced \/ contested \/ \A r \in Rows : rows[r].failed <= MaxFailures

(***************************************************************************)
(* "one active row per provider+environment, UPDATED IN PLACE", "PRESERVE    *)
(* the stored refresh token": with one writer at a time, there is one active  *)
(* row and it holds what the last login brought.                             *)
(***************************************************************************)
LoginHolds ==
  \/ contested \/ newest = "never"
  \/ Cardinality(Active) <= 1 /\ \A r \in Active : rows[r].grant = newest

(***************************************************************************)
(* "so the process never sits on an expired FYERS token it could have        *)
(* refreshed": a token that is due is renewed, unless FYERS refused it as    *)
(* often as the supervisor asks, or the row has no refresh token.            *)
(***************************************************************************)
RenewalDue == \E r \in Current : ~rows[r].fresh /\ rows[r].grant # "none"
GivenUp    == count >= MaxFailures /\ countedFor \in Current
Renews     == RenewalDue ~> (~RenewalDue \/ GivenUp)
=============================================================================
