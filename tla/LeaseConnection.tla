--------------------------- MODULE LeaseConnection ---------------------------
(***************************************************************************)
(* DedicatedLeaseStore: the one MySQL connection that carries the feed     *)
(* leases.  It is opened by the first operation that needs it, shared by   *)
(* every operation in flight, and thrown away by recycle() after any       *)
(* operation that failed or that its caller (withTimeout in                *)
(* FeedArbitrationService) gave up on.                                     *)
(*                                                                         *)
(* `conn` and `opening` are the fields of the class.  A pending socket that*)
(* recycle() comes across is doomed: it is destroyed as soon as it is      *)
(* connected, but the handler that open() attached runs first.  A query    *)
(* that an operation issues after its caller gave up is left out.          *)
(***************************************************************************)
EXTENDS Integers, FiniteSets

CONSTANTS
  Ops,        \* lease operations that may be in flight at once
  Sockets,    \* identities of connections; a dead one is used again
  MaxFaults,  \* bound on the faults of one behaviour
  None

ASSUME LeaseAssumption ==
  /\ IsFiniteSet(Ops) /\ IsFiniteSet(Sockets)
  /\ None \notin Sockets /\ MaxFaults \in Nat

VARIABLES
  conn,     \* the connection operations are sent on
  opening,  \* the connection being opened
  socket,   \* what has become of each connection
  op,       \* per operation, where it is and the socket it is on
  last,     \* history: per operation, how its last execution ended
  faults    \* slow or failed connects, and peers that died

leaseVars == <<conn, opening, socket, op, last, faults>>

SocketStates == {"dead", "pending", "doomed", "live", "wedged"}
OpStates == [at: {"idle", "opening", "querying"}, on: Sockets \cup {None}]

Connecting(s) == socket[s] \in {"pending", "doomed"}

Idle == [at |-> "idle", on |-> None]

On(o, step, s) == op[o] = [at |-> step, on |-> s]

\* Connected, in no field of the class, and never to be destroyed by it.
Stranded == {s \in Sockets : socket[s] \in {"live", "wedged"} /\ conn # s}

\* Out of the reach of the class and of every operation: the identity is free.
Unused == {s \in Sockets : /\ socket[s] = "dead" \/ s \in Stranded
                           /\ conn # s /\ \A o \in Ops : op[o].on # s}
-----------------------------------------------------------------------------
LeaseInit ==
  /\ conn = None /\ opening = None
  /\ socket = [s \in Sockets |-> "dead"]
  /\ op = [o \in Ops |-> Idle]
  /\ last = [o \in Ops |-> "none"]
  /\ faults = 0

\* Slip: a connection is opened although one is being opened already.
BeginTwice(o) ==
  /\ op[o] = Idle
  /\ \/ /\ conn # None
        /\ op' = [op EXCEPT ![o] = [at |-> "querying", on |-> conn]]
        /\ UNCHANGED <<opening, socket>>
     \/ /\ conn = None
        /\ \E s \in Unused :
             /\ op' = [op EXCEPT ![o] = [at |-> "opening", on |-> s]]
             /\ opening' = s
             /\ socket' = [socket EXCEPT ![s] = "pending"]
  /\ UNCHANGED <<conn, last, faults>>

\* find, upsert: open() returns the connection there is, or the one being
\* opened, or opens one.
Begin(o) ==
  /\ op[o] = Idle
  /\ \/ /\ conn # None
        /\ op' = [op EXCEPT ![o] = [at |-> "querying", on |-> conn]]
        /\ UNCHANGED <<opening, socket>>
     \/ /\ conn = None /\ opening # None
        /\ op' = [op EXCEPT ![o] = [at |-> "opening", on |-> opening]]
        /\ UNCHANGED <<opening, socket>>
     \/ /\ conn = None /\ opening = None
        /\ \E s \in Unused :
             /\ op' = [op EXCEPT ![o] = [at |-> "opening", on |-> s]]
             /\ opening' = s
             /\ socket' = [socket EXCEPT ![s] = "pending"]
  /\ UNCHANGED <<conn, last, faults>>

\* Slip: the operations that wait are not told.
ConnectUnheard(s) ==
  /\ Connecting(s)
  /\ conn' = s
  /\ opening' = IF opening = s THEN None ELSE opening
  /\ socket' = [socket EXCEPT ![s] = IF @ = "doomed" THEN "dead" ELSE "live"]
  /\ UNCHANGED <<op, last, faults>>

\* The connect completes.  The handler of open() installs the connection, the
\* operations that waited for it send their queries, and a recycle() that came
\* across it destroys it.
Connect(s) ==
  /\ Connecting(s)
  /\ conn' = s
  /\ opening' = IF opening = s THEN None ELSE opening
  /\ socket' = [socket EXCEPT ![s] = IF @ = "doomed" THEN "dead" ELSE "live"]
  /\ op' = [o \in Ops |-> IF On(o, "opening", s) THEN [at |-> "querying", on |-> s]
                          ELSE op[o]]
  /\ UNCHANGED <<last, faults>>

\* The peer stops answering on a connection in use.
Wedge(s) ==
  /\ socket[s] = "live"
  /\ faults < MaxFaults
  /\ socket' = [socket EXCEPT ![s] = "wedged"]
  /\ faults' = faults + 1
  /\ UNCHANGED <<conn, opening, op, last>>

Complete(o) ==
  /\ op[o].at = "querying" /\ socket[op[o].on] = "live"
  /\ op' = [op EXCEPT ![o] = Idle]
  /\ last' = [last EXCEPT ![o] = "ok"]
  /\ UNCHANGED <<conn, opening, socket, faults>>

\* Slip: a connection that is still being opened is left to itself.
RecycleOpened(states) ==
  /\ conn' = None /\ opening' = None
  /\ socket' = [s \in Sockets |-> IF s = conn THEN "dead" ELSE states[s]]

\* Slip: the destroyed connection stays in the field.
RecycleKept(states) ==
  /\ opening' = None
  /\ socket' = [s \in Sockets |->
                  IF s = conn THEN "dead"
                  ELSE IF s = opening /\ states[s] = "pending" THEN "doomed"
                  ELSE states[s]]
  /\ UNCHANGED conn

\* recycle(): whatever connection there is now goes, be it the one the failed
\* operation was on or a newer one.
Recycle(states) ==
  /\ conn' = None /\ opening' = None
  /\ socket' = [s \in Sockets |->
                  IF s = conn THEN "dead"
                  ELSE IF s = opening /\ states[s] = "pending" THEN "doomed"
                  ELSE states[s]]

\* The failed operations are over, and each of their callers recycles.
FailOps(os) ==
  /\ op' = [o \in Ops |-> IF o \in os THEN Idle ELSE op[o]]
  /\ last' = [o \in Ops |-> IF o \in os THEN "failed" ELSE last[o]]

\* The connect is rejected, and with it every operation that waits for it.
ConnectFails(s) ==
  LET waiting == {o \in Ops : On(o, "opening", s)}
      states  == [socket EXCEPT ![s] = "dead"]
  IN  /\ Connecting(s)
      /\ faults < MaxFaults
      /\ faults' = faults + 1
      /\ FailOps(waiting)
      /\ \/ waiting # {} /\ Recycle(states)
         \/ /\ waiting = {}
            /\ socket' = states
            /\ opening' = IF opening = s THEN None ELSE opening
            /\ UNCHANGED conn

\* The query fails or times out, as it must on a connection that is no more.
QueryFails(o) ==
  /\ op[o].at = "querying" /\ socket[op[o].on] \in {"dead", "wedged"}
  /\ FailOps({o})
  /\ Recycle(socket)
  /\ UNCHANGED faults

\* The connect takes longer than the caller is ready to wait.
GiveUp(o) ==
  /\ op[o].at = "opening"
  /\ faults < MaxFaults
  /\ faults' = faults + 1
  /\ FailOps({o})
  /\ Recycle(socket)

LeaseNext ==
  \/ \E o \in Ops : Begin(o) \/ Complete(o) \/ QueryFails(o) \/ GiveUp(o)
  \/ \E s \in Sockets : Connect(s) \/ ConnectFails(s) \/ Wedge(s)

LeaseSpec == LeaseInit /\ [][LeaseNext]_leaseVars

\* The heartbeat and the ownership poll come round again, a connect completes
\* and a query is answered or fails; the faults are bounded.
LeaseFairSpec ==
  /\ LeaseSpec
  /\ \A o \in Ops : WF_leaseVars(Begin(o)) /\ WF_leaseVars(Complete(o) \/ QueryFails(o))
  /\ \A s \in Sockets : WF_leaseVars(Connect(s))
-----------------------------------------------------------------------------
(* Properties *)

\* Every variable has its type, and an operation waits for a connection that is
\* still being opened or uses one that was opened.
LeaseTypeOK ==
  /\ conn \in Sockets \cup {None} /\ opening \in Sockets \cup {None}
  /\ socket \in [Sockets -> SocketStates]
  /\ op \in [Ops -> OpStates]
  /\ \A o \in Ops :
       /\ op[o].at = "opening" <=> op[o].on \in Sockets /\ Connecting(op[o].on)
       /\ op[o].at = "idle" <=> op[o].on = None
  /\ last \in [Ops -> {"none", "ok", "failed"}]
  /\ faults \in 0..MaxFaults

\* "Exactly one connection, opened lazily": however operations and failures
\* interleave, only the connection in `opening` is opened with a future, and the
\* connects that recycle() came across are all doomed.
OneOpening == \A s \in Sockets : socket[s] = "pending" <=> opening = s

\* The only way to lose track of a working connection is a doomed connect that
\* completes late and takes its place.
StrandedByLateConnect ==
  [][\A s \in Sockets : conn = s /\ s \in Stranded' => socket'[conn'] = "dead"]_leaseVars

\* No operation is under way and nothing is being opened.
Quiet == (\A o \in Ops : op[o] = Idle) /\ \A s \in Sockets : ~Connecting(s)

\* What recycle() is for: once the faults are over, and if the operations are
\* spaced out enough to leave quiet moments, as the heartbeat interval does, an
\* operation that failed succeeds in the end.
Recovers == []<>Quiet => \A o \in Ops : last[o] = "failed" ~> last[o] = "ok"
=============================================================================
