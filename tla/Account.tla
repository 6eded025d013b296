------------------------------- MODULE Account -------------------------------
(***************************************************************************)
(* What the paper desk promises, with every request a single step: capital *)
(* the operator sets, trades held and trades settled, and the two figures  *)
(* the portfolio row derives from them.  PaperDesk implements this module  *)
(* statement by statement when one request runs at a time (see Implements  *)
(* there), and WeekRoll builds the weekly capital roll on top of it.       *)
(*                                                                         *)
(* The entry guards are stated in the form that openTrade leaves of them:  *)
(* a session starts at the configured capital and the peak passed along is *)
(* capital + max(0, netPnl), so the loss limit and the drawdown limit are  *)
(* two percentages of one amount, the loss booked so far.                  *)
(***************************************************************************)
EXTENDS Integers, FiniteSets

CONSTANTS
  Trades, Instruments, Outlays, Grosses, Capitals,
  EntryCost, ExitCost, MaxOpen, MaxLossPct, MaxDrawdownPct

VARIABLES
  capital,   \* configured capital, which is also the exposure ceiling
  deployed,  \* premium outlay of the trades held
  netPnl,    \* profit and loss booked so far, entry costs included
  held,      \* the trades held: instrument and outlay of each
  settled    \* the trades closed: net result of each round trip

accountVars == <<capital, deployed, netPnl, held, settled>>

Loss == IF netPnl < 0 THEN -netPnl ELSE 0

WithinLimits ==
  /\ MaxLossPct > 0 => Loss * 100 < capital * MaxLossPct
  /\ MaxDrawdownPct > 0 => Loss * 100 < capital * MaxDrawdownPct

Admits(i, o) ==
  /\ WithinLimits
  /\ Cardinality(DOMAIN held) < MaxOpen
  /\ \A t \in DOMAIN held : held[t].instrument # i
  /\ deployed + o <= capital

Init ==
  /\ capital \in Capitals
  /\ deployed = 0 /\ netPnl = 0
  /\ held = [t \in {} |-> 0]
  /\ settled = [t \in {} |-> 0]

Open(t, i, o) ==
  /\ t \notin DOMAIN held \cup DOMAIN settled
  /\ Admits(i, o)
  /\ held' = [u \in DOMAIN held \cup {t} |->
                IF u = t THEN [instrument |-> i, outlay |-> o] ELSE held[u]]
  /\ deployed' = deployed + o
  /\ netPnl' = netPnl - EntryCost
  /\ UNCHANGED <<capital, settled>>

Close(t, g) ==
  /\ t \in DOMAIN held
  /\ held' = [u \in DOMAIN held \ {t} |-> held[u]]
  /\ settled' = [u \in DOMAIN settled \cup {t} |->
                   IF u = t THEN g - EntryCost - ExitCost ELSE settled[u]]
  /\ deployed' = deployed - held[t].outlay
  /\ netPnl' = netPnl + g - ExitCost
  /\ UNCHANGED capital

SetCapital(k) ==
  /\ capital' = k
  /\ UNCHANGED <<deployed, netPnl, held, settled>>

Next ==
  \/ \E t \in Trades, i \in Instruments, o \in Outlays : Open(t, i, o)
  \/ \E t \in Trades, g \in Grosses : Close(t, g)
  \/ \E k \in Capitals : SetCapital(k)

Spec == Init /\ [][Next]_accountVars
=============================================================================
