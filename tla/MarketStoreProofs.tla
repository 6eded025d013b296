-------------------------- MODULE MarketStoreProofs --------------------------
(***************************************************************************)
(* Theorems about the two ways the market data reaches MySQL: WriteBehind, *)
(* over the application's pool, for any rows, buffers, batches and pools   *)
(* that satisfy WriteBehindAssumption; and LeaseConnection, over the one   *)
(* connection that was set apart from that pool, for any number of         *)
(* operations, sockets and faults.                                         *)
(***************************************************************************)
EXTENDS WriteBehind, LeaseConnection, NaturalsInduction,
        WellFoundedInduction, TLAPS

(* WriteBehind: the counters *)

\* The health machine has counted at least the timeouts that the service has counted
\* since the last release, as far as it counts.
CountersAgree ==
  /\ timeoutRun \in 0..(RecycleAfter - 1)
  /\ failures \in 0..FailureCap
  /\ gated \in BOOLEAN
  /\ failures >= timeoutRun \/ failures = FailureCap

\* Only the end of a flush and the gate touch the counters.
LEMMA CountersStay ==
  ASSUME CountersAgree, UNCHANGED <<timeoutRun, failures>>, gated' \in BOOLEAN
  PROVE  CountersAgree'
BY DEF CountersAgree, FailureCap

\* What a timeout does to the counters.
LEMMA TimeoutCounts ==
  ASSUME CountersAgree, NEW t \in Tables, FlushTimesOut(t)
  PROVE  /\ CountersAgree'
         /\ timeoutRun' = 0 => failures' >= DegradedAfter
<1>1. /\ RecycleAfter \in Nat \ {0} /\ DegradedAfter \in Nat \ {0} /\ DownAfter \in Nat \ {0}
      /\ DegradedAfter <= RecycleAfter
  BY WriteBehindAssumption DEF WriteBehindAssumption
<1>2. /\ gated' = TRUE
      /\ failures' = IF failures + 1 < FailureCap THEN failures + 1 ELSE FailureCap
      /\ timeoutRun' = IF timeoutRun + 1 >= RecycleAfter THEN 0 ELSE timeoutRun + 1
  BY DEF FlushTimesOut, Least
<1> QED
  BY <1>1, <1>2 DEF CountersAgree, FailureCap

\* What the other steps leave of them.
LEMMA StepCounts ==
  ASSUME CountersAgree, [Next]_vars
  PROVE  /\ CountersAgree'
         /\ timeoutRun > 0 /\ timeoutRun' = 0 /\ gated' => failures' >= DegradedAfter
<1>1. ASSUME NEW t \in Tables, SomeIngest(t)
      PROVE  UNCHANGED <<timeoutRun, failures, gated>>
  BY <1>1 DEF SomeIngest, Ingest
<1>2. ASSUME NEW t \in Tables, FlushOk(t)
      PROVE  timeoutRun' = 0 /\ failures' = 0 /\ gated' = FALSE
  BY <1>2 DEF FlushOk
<1>3. ASSUME NEW t \in Tables, FlushFails(t)
      PROVE  UNCHANGED <<timeoutRun, failures, gated>>
  BY <1>3 DEF FlushFails
<1>4. ASSUME NEW t \in Tables, FlushTimesOut(t)
      PROVE  CountersAgree' /\ (timeoutRun' = 0 => failures' >= DegradedAfter)
  BY <1>4, TimeoutCounts
<1>5. CASE TimerFires \/ UNCHANGED vars
  BY <1>5 DEF TimerFires, vars, CountersAgree, FailureCap
<1>6. CASE GateOpens
  BY <1>6 DEF GateOpens, CountersAgree, FailureCap
<1>7. ASSUME NEW i \in DOMAIN pool, LateAnswer(i)
      PROVE  UNCHANGED <<timeoutRun, failures, gated>>
  BY <1>7 DEF LateAnswer
<1>8. CASE UNCHANGED <<timeoutRun, failures, gated>>
  BY <1>8 DEF CountersAgree, FailureCap
<1>9. CASE timeoutRun' = 0 /\ failures' = 0 /\ gated' = FALSE
  <2>1. RecycleAfter \in Nat \ {0} /\ DegradedAfter \in Nat \ {0} /\ DownAfter \in Nat \ {0}
    BY WriteBehindAssumption DEF WriteBehindAssumption
  <2>2. gated' \in BOOLEAN /\ ~gated'
    BY <1>9
  <2>3. timeoutRun' = 0 /\ failures' = 0
    BY <1>9
  <2>4. CountersAgree'
    BY <2>1, <2>2, <2>3 DEF CountersAgree, FailureCap
  <2> QED
    BY <2>2, <2>4
<1> QED
  BY <1>1, <1>2, <1>3, <1>4, <1>5, <1>6, <1>7, <1>8, <1>9 DEF Next, FlushEnds

\* releasePoolConnections: the shared pool is destroyed only when the health machine
\* has been told of enough timeouts to report the path as degraded or down.
THEOREM ReleasesAreReported == Spec => ReleaseOnlyWhenDegraded
<1>1. Init => CountersAgree
  <2>1. RecycleAfter \in Nat \ {0} /\ DegradedAfter \in Nat \ {0} /\ DownAfter \in Nat \ {0}
    BY WriteBehindAssumption DEF WriteBehindAssumption
  <2>2. Init => timeoutRun = 0 /\ failures = 0 /\ gated \in BOOLEAN
    BY DEF Init
  <2> QED
    BY <2>1, <2>2 DEF CountersAgree, FailureCap
<1>2. CountersAgree /\ [Next]_vars =>
        [timeoutRun > 0 /\ timeoutRun' = 0 /\ gated' => Health' # "HEALTHY"]_vars
  <2> SUFFICES ASSUME CountersAgree, [Next]_vars,
                      timeoutRun > 0, timeoutRun' = 0, gated'
               PROVE  Health' # "HEALTHY"
    OBVIOUS
  <2>1. failures' >= DegradedAfter
    BY StepCounts
  <2> QED
    BY <2>1 DEF Health
<1>3. CountersAgree /\ [Next]_vars => CountersAgree'
  BY StepCounts
<1> QED
  BY <1>1, <1>2, <1>3, PTL DEF Spec, ReleaseOnlyWhenDegraded

-----------------------------------------------------------------------------
(* WriteBehind: what the operators on sequences keep *)

\* A non-empty set of naturals has a least member.
LEMMA LeastNatural ==
  ASSUME NEW B, B \subseteq Nat, B # {}
  PROVE  \E n \in B : \A m \in B : n <= m
<1>1. PICK n \in B : \A m \in B : ~ (<<m, n>> \in OpToRel(<, Nat))
  BY NatLessThanWellFounded, WFMin
<1>2. ASSUME NEW m \in B PROVE n <= m
  <2>1. m \in Nat /\ n \in Nat
    BY <1>1
  <2>2. m < n => <<m, n>> \in OpToRel(<, Nat)
    BY <2>1 DEF OpToRel
  <2>3. ~(m < n)
    BY <1>1, <2>2
  <2> QED
    BY <2>1, <2>3
<1> QED
  BY <1>1, <1>2

\* f lists, for every prefix of q, what it has outside B.
Rests(f, q, B, n) ==
  f = [m \in 0..n |-> IF m = 0 THEN <<>>
                      ELSE IF q[m] \in B THEN f[m - 1] ELSE Append(f[m - 1], q[m])]

LEMMA RestsExist ==
  ASSUME NEW q, NEW B, NEW n \in Nat
  PROVE  \E f : Rests(f, q, B, n)
<1> DEFINE Bad == {m \in Nat : ~ \E f : Rests(f, q, B, m)}
<1> SUFFICES ASSUME Bad # {} PROVE FALSE
  OBVIOUS
<1>1. PICK m \in Bad : \A k \in Bad : m <= k
  <2>1. Bad \subseteq Nat
    OBVIOUS
  <2> HIDE DEF Bad
  <2> QED
    BY <2>1, LeastNatural
<1>2. m \in Nat /\ ~ \E f : Rests(f, q, B, m)
  BY <1>1
<1>3. CASE m = 0
  <2> DEFINE f == [k \in 0..0 |-> <<>>]
  <2>1. Rests(f, q, B, 0)
    BY DEF Rests
  <2> QED
    BY <1>2, <1>3, <2>1
<1>4. CASE m # 0
  <2>1. m - 1 \in Nat /\ m - 1 \notin Bad
    BY <1>1, <1>2, <1>4
  <2>2. PICK g : Rests(g, q, B, m - 1)
    BY <2>1
  <2> DEFINE f == [k \in 0..m |-> IF k < m THEN g[k]
                                  ELSE IF q[m] \in B THEN g[m - 1]
                                  ELSE Append(g[m - 1], q[m])]
  <2>3. \A k \in 0..(m - 1) : g[k] = IF k = 0 THEN <<>>
                      ELSE IF q[k] \in B THEN g[k - 1] ELSE Append(g[k - 1], q[k])
    BY <2>2 DEF Rests
  <2>4. \A k \in 0..m : f[k] = IF k = 0 THEN <<>>
                      ELSE IF q[k] \in B THEN f[k - 1] ELSE Append(f[k - 1], q[k])
    <3> SUFFICES ASSUME NEW k \in 0..m
                 PROVE  f[k] = IF k = 0 THEN <<>>
                      ELSE IF q[k] \in B THEN f[k - 1] ELSE Append(f[k - 1], q[k])
      OBVIOUS
    <3>1. CASE k = 0
      BY <1>2, <1>4, <2>3, <3>1
    <3>2. CASE k # 0 /\ k < m
      <4>1. f[k] = g[k] /\ f[k - 1] = g[k - 1] /\ k \in 0..(m - 1)
        BY <1>2, <3>2
      <4> QED
        BY <2>3, <3>2, <4>1
    <3>3. CASE k = m
      <4>1. f[m - 1] = g[m - 1]
        BY <1>2, <1>4
      <4> QED
        BY <1>2, <1>4, <3>3, <4>1
    <3> QED
      BY <1>2, <3>1, <3>2, <3>3
  <2>5. f = [k \in 0..m |-> f[k]]
    OBVIOUS
  <2>6. Rests(f, q, B, m)
    <3> HIDE DEF f
    <3> QED
      BY <2>4, <2>5 DEF Rests
  <2> QED
    BY <1>2, <2>6
<1> QED
  BY <1>3, <1>4

LEMMA HomelessRests ==
  ASSUME NEW t, NEW rows, Len(rows) \in Nat
  PROVE  \E f : /\ Rests(f, rows, Buffered(t), Len(rows))
                /\ Homeless(t, rows) = f[Len(rows)]
<1> DEFINE f == CHOOSE g : Rests(g, rows, Buffered(t), Len(rows))
<1>1. Rests(f, rows, Buffered(t), Len(rows))
  BY RestsExist
<1>2. Homeless(t, rows) = f[Len(rows)]
  BY DEF Homeless, Rests
<1> QED
  BY <1>1, <1>2

\* The homeless rows are the rows whose id is not buffered, each as often as before.
LEMMA HomelessRows ==
  ASSUME NEW t, NEW S, NEW rows \in Seq(S), IsInjective(rows)
  PROVE  /\ Homeless(t, rows) \in Seq(S)
         /\ IsInjective(Homeless(t, rows))
         /\ ToSet(Homeless(t, rows)) = ToSet(rows) \ Buffered(t)
<1>1. PICK f : /\ Rests(f, rows, Buffered(t), Len(rows))
               /\ Homeless(t, rows) = f[Len(rows)]
  BY HomelessRests
<1> DEFINE B == Buffered(t)
           N == Len(rows)
<1>2. N \in Nat /\ \A i \in 1..N : rows[i] \in S
  OBVIOUS
<1>3. \A k \in 0..N : f[k] = IF k = 0 THEN <<>>
                 ELSE IF rows[k] \in B THEN f[k - 1] ELSE Append(f[k - 1], rows[k])
  BY <1>1 DEF Rests
<1>4. \A i, j \in 1..N : rows[i] = rows[j] => i = j
  BY DEF IsInjective
<1> DEFINE Good(m) ==
      /\ f[m] \in Seq(S)
      /\ \A i, j \in 1..Len(f[m]) : f[m][i] = f[m][j] => i = j
      /\ \A i \in 1..Len(f[m]) : f[m][i] \notin B /\ \E j \in 1..m : f[m][i] = rows[j]
      /\ \A j \in 1..m : rows[j] \notin B => \E i \in 1..Len(f[m]) : f[m][i] = rows[j]
<1>5. Good(N)
  <2> DEFINE Bad == {m \in 0..N : ~Good(m)}
  <2> SUFFICES ASSUME Bad # {} PROVE FALSE
    BY <1>2
  <2>1. PICK m \in Bad : \A k \in Bad : m <= k
    <3>1. Bad \subseteq Nat
      BY <1>2
    <3> HIDE DEF Bad
    <3> QED
      BY <3>1, LeastNatural
  <2>2. m \in 0..N /\ ~Good(m)
    BY <2>1
  <2>3. CASE m = 0
    <3>1. f[0] = <<>>
      BY <1>2, <1>3
    <3>2. Good(0)
      BY <3>1
    <3> QED
      BY <2>2, <2>3, <3>2
  <2>4. CASE m # 0
    <3> DEFINE g == f[m - 1]
    <3>1. m - 1 \in 0..N /\ m \in 1..N /\ Good(m - 1)
      <4>1. m - 1 \in 0..N /\ m \in 1..N /\ ~(m <= m - 1)
        BY <1>2, <2>2, <2>4
      <4>2. m - 1 \notin Bad
        <5> HIDE DEF Bad
        <5> QED
          BY <2>1, <4>1
      <4> QED
        BY <4>1, <4>2
    <3>2. /\ g \in Seq(S)
          /\ \A i, j \in 1..Len(g) : g[i] = g[j] => i = j
          /\ \A i \in 1..Len(g) : g[i] \notin B /\ \E j \in 1..(m - 1) : g[i] = rows[j]
          /\ \A j \in 1..(m - 1) : rows[j] \notin B => \E i \in 1..Len(g) : g[i] = rows[j]
      BY <3>1
    <3>3. f[m] = IF rows[m] \in B THEN g ELSE Append(g, rows[m])
      BY <1>3, <2>2, <2>4
    <3>4. CASE rows[m] \in B
      <4>1. f[m] = g
        BY <3>3, <3>4
      <4>2. 1..m = 1..(m - 1) \cup {m}
        BY <3>1
      <4> HIDE DEF g, B
      <4>3. Good(m)
        BY <3>2, <3>4, <4>1, <4>2
      <4> QED
        BY <2>2, <4>3
    <3>5. CASE rows[m] \notin B
      <4>1. f[m] = Append(g, rows[m])
        BY <3>3, <3>5
      <4>2. 1..m = 1..(m - 1) \cup {m} /\ m \notin 1..(m - 1) /\ 1..m \subseteq 1..N
        BY <3>1, <1>2
      <4>3. rows[m] \in S /\ Len(g) \in Nat
        BY <1>2, <3>1, <3>2
      <4> HIDE DEF g, B
      <4> DEFINE h == Append(g, rows[m])
      <4>4. /\ h \in Seq(S) /\ Len(h) = Len(g) + 1 /\ h[Len(g) + 1] = rows[m]
            /\ \A i \in 1..Len(g) : h[i] = g[i]
        BY <3>2, <4>3
      <4>5. 1..Len(h) = 1..Len(g) \cup {Len(g) + 1}
        BY <4>3, <4>4
      <4> HIDE DEF h
      <4>6. \A i \in 1..Len(g) : h[i] # rows[m]
        <5> SUFFICES ASSUME NEW i \in 1..Len(g), h[i] = rows[m] PROVE FALSE
          OBVIOUS
        <5>1. PICK j \in 1..(m - 1) : g[i] = rows[j]
          BY <3>2
        <5>2. rows[j] = rows[m] /\ j \in 1..N /\ m \in 1..N
          BY <4>2, <4>4, <5>1
        <5>3. j = m
          BY <1>4, <5>2
        <5> QED
          BY <4>2, <5>3
      <4>7. \A i, j \in 1..Len(h) : h[i] = h[j] => i = j
        <5> SUFFICES ASSUME NEW i \in 1..Len(h), NEW j \in 1..Len(h), h[i] = h[j]
                     PROVE  i = j
          OBVIOUS
        <5>1. CASE i \in 1..Len(g) /\ j \in 1..Len(g)
          BY <3>2, <4>4, <5>1
        <5>2. CASE i = Len(g) + 1 /\ j \in 1..Len(g)
          BY <4>4, <4>6, <5>2
        <5>3. CASE i \in 1..Len(g) /\ j = Len(g) + 1
          BY <4>4, <4>6, <5>3
        <5> QED
          BY <4>5, <5>1, <5>2, <5>3
      <4>8. \A i \in 1..Len(h) : h[i] \notin B /\ \E j \in 1..m : h[i] = rows[j]
        <5> SUFFICES ASSUME NEW i \in 1..Len(h)
                     PROVE  h[i] \notin B /\ \E j \in 1..m : h[i] = rows[j]
          OBVIOUS
        <5>1. CASE i = Len(g) + 1
          BY <3>5, <4>2, <4>4, <5>1
        <5>2. CASE i \in 1..Len(g)
          <6>1. h[i] = g[i] /\ g[i] \notin B
            BY <3>2, <4>4, <5>2
          <6>2. PICK j \in 1..(m - 1) : g[i] = rows[j]
            BY <3>2, <5>2
          <6>3. j \in 1..m
            BY <4>2
          <6> QED
            BY <6>1, <6>2, <6>3
        <5> QED
          BY <4>5, <5>1, <5>2
      <4>9. \A j \in 1..m : rows[j] \notin B => \E i \in 1..Len(h) : h[i] = rows[j]
        <5> SUFFICES ASSUME NEW j \in 1..m, rows[j] \notin B
                     PROVE  \E i \in 1..Len(h) : h[i] = rows[j]
          OBVIOUS
        <5>1. CASE j = m
          <6>1. Len(g) + 1 \in 1..Len(h)
            BY <4>5
          <6> QED
            BY <4>4, <5>1, <6>1
        <5>2. CASE j \in 1..(m - 1)
          BY <3>2, <4>4, <4>5, <5>2
        <5> QED
          BY <4>2, <5>1, <5>2
      <4>10. f[m] = h
        BY <4>1 DEF h
      <4>11. Good(m)
        BY <4>4, <4>7, <4>8, <4>9, <4>10
      <4> QED
        BY <2>2, <4>11
    <3> QED
      BY <3>4, <3>5
  <2> QED
    BY <2>3, <2>4
<1> DEFINE h == Homeless(t, rows)
<1>6. /\ h \in Seq(S)
      /\ \A i, j \in 1..Len(h) : h[i] = h[j] => i = j
      /\ \A i \in 1..Len(h) : h[i] \notin B /\ \E j \in 1..N : h[i] = rows[j]
      /\ \A j \in 1..N : rows[j] \notin B => \E i \in 1..Len(h) : h[i] = rows[j]
  BY <1>1, <1>5
<1> HIDE DEF h, B
<1>7. DOMAIN h = 1..Len(h) /\ DOMAIN rows = 1..N
  BY <1>6
<1>8. ToSet(h) = ToSet(rows) \ B
  <2>1. ASSUME NEW x \in ToSet(h) PROVE x \in ToSet(rows) \ B
    <3>1. PICK i \in 1..Len(h) : x = h[i]
      BY <1>7 DEF ToSet
    <3>2. h[i] \notin B /\ \E j \in 1..N : h[i] = rows[j]
      BY <1>6
    <3> QED
      BY <1>7, <3>1, <3>2 DEF ToSet
  <2>2. ASSUME NEW x \in ToSet(rows) \ B PROVE x \in ToSet(h)
    <3>1. PICK j \in 1..N : x = rows[j]
      BY <1>7 DEF ToSet
    <3>2. PICK i \in 1..Len(h) : h[i] = rows[j]
      BY <1>6, <2>2, <3>1
    <3> QED
      BY <1>7, <3>1, <3>2 DEF ToSet
  <2> QED
    BY <2>1, <2>2
<1> QED
  BY <1>6, <1>7, <1>8 DEF h, B, IsInjective

\* A sequence is cut in two: the first n places, and the rest.
LEMMA CutRows ==
  ASSUME NEW S, NEW s \in Seq(S), NEW n \in Nat
  PROVE  /\ First(s, n) \in Seq(S) /\ After(s, n) \in Seq(S)
         /\ Len(First(s, n)) <= n
         /\ n >= 1 /\ s # <<>> => First(s, n) # <<>>
         /\ ToSet(s) = ToSet(First(s, n)) \cup ToSet(After(s, n))
         /\ IsInjective(s) => IsInjective(First(s, n)) /\ IsInjective(After(s, n))
<1> DEFINE c == Least(n, Len(s))
           a == First(s, n)
           b == After(s, n)
           N == Len(s)
<1>1. c \in Nat /\ c <= N /\ c <= n /\ N \in Nat /\ (n >= 1 /\ N >= 1 => c >= 1)
  BY DEF Least
<1>2. /\ a \in Seq(S) /\ Len(a) = c /\ \A i \in 1..c : a[i] = s[i]
  <2>1. a = SubSeq(s, 1, c)
    BY DEF First
  <2> HIDE DEF c
  <2> QED
    BY <1>1, <2>1
<1>3. /\ b \in Seq(S) /\ Len(b) = N - c /\ \A i \in 1..(N - c) : b[i] = s[i + c]
  <2>1. b = SubSeq(s, c + 1, N)
    BY DEF After
  <2> HIDE DEF c
  <2> QED
    BY <1>1, <2>1
<1>4. DOMAIN a = 1..c /\ DOMAIN b = 1..(N - c) /\ DOMAIN s = 1..N
  BY <1>2, <1>3
<1> HIDE DEF a, b, c
<1>5. ToSet(s) = ToSet(a) \cup ToSet(b)
  <2>1. ASSUME NEW x \in ToSet(s) PROVE x \in ToSet(a) \cup ToSet(b)
    <3>1. PICK i \in 1..N : x = s[i]
      BY <1>4 DEF ToSet
    <3>2. CASE i <= c
      <4>1. i \in 1..c /\ x = a[i]
        BY <1>1, <1>2, <3>1, <3>2
      <4> QED
        BY <1>4, <4>1 DEF ToSet
    <3>3. CASE i > c
      <4>1. i - c \in 1..(N - c) /\ (i - c) + c = i
        BY <1>1, <3>3
      <4>2. x = b[i - c]
        BY <1>3, <3>1, <4>1
      <4> QED
        BY <1>4, <4>1, <4>2 DEF ToSet
    <3> QED
      BY <1>1, <3>2, <3>3
  <2>2. ASSUME NEW x \in ToSet(a) PROVE x \in ToSet(s)
    <3>1. PICK i \in 1..c : x = a[i]
      BY <1>4 DEF ToSet
    <3>2. i \in 1..N /\ x = s[i]
      BY <1>1, <1>2, <3>1
    <3> QED
      BY <1>4, <3>2 DEF ToSet
  <2>3. ASSUME NEW x \in ToSet(b) PROVE x \in ToSet(s)
    <3>1. PICK i \in 1..(N - c) : x = b[i]
      BY <1>4 DEF ToSet
    <3>2. i + c \in 1..N /\ x = s[i + c]
      BY <1>1, <1>3, <3>1
    <3> QED
      BY <1>4, <3>2 DEF ToSet
  <2> QED
    BY <2>1, <2>2, <2>3
<1>6. IsInjective(s) => IsInjective(a) /\ IsInjective(b)
  <2> SUFFICES ASSUME \A i, j \in 1..N : s[i] = s[j] => i = j
               PROVE  IsInjective(a) /\ IsInjective(b)
    BY <1>4 DEF IsInjective
  <2>1. \A i, j \in 1..c : a[i] = a[j] => i = j
    BY <1>1, <1>2
  <2>2. ASSUME NEW i \in 1..(N - c), NEW j \in 1..(N - c), b[i] = b[j] PROVE i = j
    <3>1. i + c \in 1..N /\ j + c \in 1..N /\ s[i + c] = s[j + c]
      BY <1>1, <1>3, <2>2
    <3>2. i + c = j + c
      BY <3>1
    <3> QED
      BY <1>1, <3>2
  <2> QED
    BY <1>4, <2>1, <2>2 DEF IsInjective
<1>7. n >= 1 /\ s # <<>> => a # <<>>
  <2> SUFFICES ASSUME n >= 1, s # <<>> PROVE a # <<>>
    OBVIOUS
  <2>1. Len(a) >= 1
    BY <1>1, <1>2
  <2> QED
    BY <2>1
<1> QED
  BY <1>1, <1>2, <1>3, <1>5, <1>6, <1>7 DEF a, b

\* Two sequences with nothing in common, one after the other.
LEMMA JoinRows ==
  ASSUME NEW S, NEW s \in Seq(S), NEW r \in Seq(S), IsInjective(s), IsInjective(r),
         ToSet(s) \cap ToSet(r) = {}
  PROVE  /\ s \o r \in Seq(S) /\ IsInjective(s \o r)
         /\ ToSet(s \o r) = ToSet(s) \cup ToSet(r)
         /\ Len(s \o r) = Len(s) + Len(r)
<1> DEFINE q == s \o r
           M == Len(s)
           N == Len(r)
<1>1. /\ M \in Nat /\ N \in Nat /\ q \in Seq(S) /\ Len(q) = M + N
      /\ \A i \in 1..M : q[i] = s[i]
      /\ \A i \in 1..N : q[i + M] = r[i]
      /\ DOMAIN s = 1..M /\ DOMAIN r = 1..N /\ DOMAIN q = 1..(M + N)
  OBVIOUS
<1>2. \A i \in 1..(M + N) : i \in 1..M \/ (i - M \in 1..N /\ (i - M) + M = i)
  BY <1>1
<1>3. \A i \in 1..M : \A j \in 1..N : s[i] # r[j]
  BY <1>1 DEF ToSet
<1>4. /\ \A i, j \in 1..M : s[i] = s[j] => i = j
      /\ \A i, j \in 1..N : r[i] = r[j] => i = j
  BY <1>1 DEF IsInjective
<1> HIDE DEF q
<1>5. \A i, j \in 1..(M + N) : q[i] = q[j] => i = j
  <2> SUFFICES ASSUME NEW i \in 1..(M + N), NEW j \in 1..(M + N), q[i] = q[j]
               PROVE  i = j
    OBVIOUS
  <2>1. CASE i \in 1..M /\ j \in 1..M
    BY <1>1, <1>4, <2>1
  <2>2. CASE i \in 1..M /\ j \notin 1..M
    <3>1. q[j] = r[j - M] /\ j - M \in 1..N
      BY <1>1, <1>2, <2>2
    <3> QED
      BY <1>1, <1>3, <2>2, <3>1
  <2>3. CASE i \notin 1..M /\ j \in 1..M
    <3>1. q[i] = r[i - M] /\ i - M \in 1..N
      BY <1>1, <1>2, <2>3
    <3> QED
      BY <1>1, <1>3, <2>3, <3>1
  <2>4. CASE i \notin 1..M /\ j \notin 1..M
    <3>1. /\ q[i] = r[i - M] /\ i - M \in 1..N
          /\ q[j] = r[j - M] /\ j - M \in 1..N
      BY <1>1, <1>2, <2>4
    <3>2. i - M = j - M
      BY <1>4, <3>1
    <3> QED
      BY <1>1, <3>2
  <2> QED
    BY <2>1, <2>2, <2>3, <2>4
<1>6. ToSet(q) = ToSet(s) \cup ToSet(r)
  <2>1. ASSUME NEW x \in ToSet(q) PROVE x \in ToSet(s) \cup ToSet(r)
    <3>1. PICK i \in 1..(M + N) : x = q[i]
      BY <1>1 DEF ToSet
    <3>2. CASE i \in 1..M
      BY <1>1, <3>1, <3>2 DEF ToSet
    <3>3. CASE i \notin 1..M
      <4>1. i - M \in 1..N /\ x = r[i - M]
        BY <1>1, <1>2, <3>1, <3>3
      <4> QED
        BY <1>1, <4>1 DEF ToSet
    <3> QED
      BY <3>2, <3>3
  <2>2. ASSUME NEW x \in ToSet(s) PROVE x \in ToSet(q)
    <3>1. PICK i \in 1..M : x = s[i]
      BY <1>1 DEF ToSet
    <3>2. i \in 1..(M + N) /\ x = q[i]
      BY <1>1, <3>1
    <3> QED
      BY <1>1, <3>2 DEF ToSet
  <2>3. ASSUME NEW x \in ToSet(r) PROVE x \in ToSet(q)
    <3>1. PICK i \in 1..N : x = r[i]
      BY <1>1 DEF ToSet
    <3>2. i + M \in 1..(M + N) /\ x = q[i + M]
      BY <1>1, <3>1
    <3> QED
      BY <1>1, <3>2 DEF ToSet
  <2> QED
    BY <2>1, <2>2, <2>3
<1> QED
  BY <1>1, <1>5, <1>6 DEF q, IsInjective

-----------------------------------------------------------------------------
(* WriteBehind: the rows *)

\* What the buffer of table t holds once rows are put back.
Kept(t, rows) == pending[t] \o First(Homeless(t, rows), Room(t))

BuffersTyped ==
  /\ pending = [t \in Tables |-> pending[t]] /\ batch = [t \in Tables |-> batch[t]]
  /\ \A t \in Tables :
       /\ pending[t] \in Seq(RowsOf[t]) /\ IsInjective(pending[t])
       /\ batch[t] \in Seq(RowsOf[t]) /\ IsInjective(batch[t])
       /\ Len(batch[t]) <= MaxBatch

SetsTyped ==
  /\ timer \in BOOLEAN /\ pool \in Seq(Queries)
  /\ stored \subseteq Rows /\ dropped \subseteq Rows /\ accepted \subseteq Rows

RowsInv == BuffersTyped /\ SetsTyped /\ NothingLostSilently

LEMMA TwoTables ==
  /\ Tables = {"quote", "snapshot"}
  /\ RowsOf["quote"] = Quotes /\ RowsOf["snapshot"] = Snapshots
  /\ \A t \in Tables : RowsOf[t] \subseteq Rows
BY DEF Tables, RowsOf, Rows

\* Rows put back wait in the buffer, or were dropped and counted; the buffer does not
\* grow past its maximum.
LEMMA PutBack ==
  ASSUME BuffersTyped, NEW t \in Tables, NEW rows \in Seq(RowsOf[t]), IsInjective(rows)
  PROVE  /\ Kept(t, rows) \in Seq(RowsOf[t]) /\ IsInjective(Kept(t, rows))
         /\ Dropped(t, rows) \subseteq RowsOf[t]
         /\ Buffered(t) \cup ToSet(rows) \subseteq ToSet(Kept(t, rows)) \cup Dropped(t, rows)
         /\ Buffered(t) \subseteq ToSet(Kept(t, rows))
         /\ Len(Kept(t, rows)) <= Len(pending[t]) \/ Len(Kept(t, rows)) <= MaxPending
<1> DEFINE h == Homeless(t, rows)
           n == Room(t)
           p == pending[t]
           S == RowsOf[t]
<1>1. p \in Seq(S) /\ IsInjective(p) /\ Buffered(t) = ToSet(p)
  BY DEF BuffersTyped, Buffered
<1>2. h \in Seq(S) /\ IsInjective(h) /\ ToSet(h) = ToSet(rows) \ ToSet(p)
  BY <1>1, HomelessRows
<1>3. n \in Nat /\ (n = 0 \/ Len(p) + n = MaxPending) /\ Len(p) \in Nat
  <2>1. n = IF Len(p) < MaxPending THEN MaxPending - Len(p) ELSE 0
    BY DEF Room
  <2>2. Len(p) \in Nat /\ MaxPending \in Nat
    BY <1>1, WriteBehindAssumption DEF WriteBehindAssumption
  <2> HIDE DEF n, p
  <2> QED
    BY <2>1, <2>2
<1>4. Kept(t, rows) = p \o First(h, n) /\ Dropped(t, rows) = ToSet(After(h, n))
  BY DEF Kept, Dropped
<1> HIDE DEF h, n, p, S
<1>5. /\ First(h, n) \in Seq(S) /\ After(h, n) \in Seq(S)
      /\ Len(First(h, n)) <= n
      /\ ToSet(h) = ToSet(First(h, n)) \cup ToSet(After(h, n))
      /\ IsInjective(First(h, n))
  BY <1>2, <1>3, CutRows
<1> DEFINE a == First(h, n)
           b == After(h, n)
<1>6. ToSet(p) \cap ToSet(a) = {} /\ Len(a) \in Nat
  BY <1>2, <1>5
<1>7. /\ p \o a \in Seq(S) /\ IsInjective(p \o a)
      /\ ToSet(p \o a) = ToSet(p) \cup ToSet(a)
      /\ Len(p \o a) = Len(p) + Len(a)
  <2> HIDE DEF a
  <2> QED
    BY <1>1, <1>5, <1>6, JoinRows DEF a
<1>8. ToSet(b) \subseteq S
  <2>1. b \in Seq(S)
    BY <1>5
  <2> HIDE DEF b
  <2> QED
    BY <2>1 DEF ToSet
<1>9. Len(p \o a) <= Len(p) \/ Len(p \o a) <= MaxPending
  <2>1. Len(a) <= n
    BY <1>5
  <2> HIDE DEF a
  <2> QED
    BY <1>3, <1>6, <1>7, <2>1, WriteBehindAssumption DEF WriteBehindAssumption
<1>10. ToSet(h) = ToSet(a) \cup ToSet(b)
  BY <1>5
<1> HIDE DEF a, b
<1>11. Kept(t, rows) = p \o a /\ Dropped(t, rows) = ToSet(b)
  BY <1>4 DEF a, b
<1> QED
  BY <1>1, <1>2, <1>7, <1>8, <1>9, <1>10, <1>11 DEF p, S

\* The end of a flush: nothing of the buffers and the batches is lost but the batch that
\* ended, and of that nothing of what is put back.
LEMMA SettleRows ==
  ASSUME BuffersTyped, NEW t \in Tables, NEW rows, rows = <<>> \/ rows = batch[t],
         NEW rest, Settle(t, rows, rest)
  PROVE  /\ BuffersTyped'
         /\ dropped' = dropped \cup Dropped(t, rows) /\ Dropped(t, rows) \subseteq RowsOf[t]
         /\ timer' = (timer \/ Kept(t, rows) # <<>>)
         /\ accepted' = accepted
         /\ \A u \in Tables : Buffered(u) \subseteq Buffered(u)' \cup ToSet(batch'[u]) \cup dropped'
         /\ \A u \in Tables \ {t} : batch[u] # <<>> => batch'[u] = batch[u]
         /\ \A u \in Tables \ {t} : batch[u] = <<>> =>
              ToSet(batch[u]) \subseteq ToSet(batch'[u])
         /\ ToSet(rows) \subseteq Buffered(t)' \cup dropped'
         /\ batch'[t] = <<>> /\ pending'[t] = Kept(t, rows)
         /\ \A u \in Tables \ {t} : batch'[u] = batch[u] \/ batch'[u] # <<>>
         /\ \/ pool' = rest /\ \A u \in Tables \ {t} : batch'[u] = batch[u]
            \/ /\ t = "quote" /\ batch["snapshot"] = <<>> /\ batch'["snapshot"] # <<>>
               /\ pool' = Append(rest, Query("snapshot", ToSet(batch'["snapshot"])))
<1> DEFINE K == Kept(t, rows)
<1>0. rows \in Seq(RowsOf[t]) /\ IsInjective(rows)
  <2>1. <<>> \in Seq(RowsOf[t]) /\ IsInjective(<<>>)
    BY DEF IsInjective
  <2> QED
    BY <2>1 DEF BuffersTyped
<1>1. /\ K \in Seq(RowsOf[t]) /\ IsInjective(K)
      /\ Dropped(t, rows) \subseteq RowsOf[t]
      /\ Buffered(t) \cup ToSet(rows) \subseteq ToSet(K) \cup Dropped(t, rows)
      /\ Buffered(t) \subseteq ToSet(K)
  BY <1>0, PutBack
<1> DEFINE after == [pending EXCEPT ![t] = pending[t] \o First(Homeless(t, rows), Room(t))]
           then == First(after["snapshot"], MaxBatch)
           rem == After(after["snapshot"], MaxBatch)
<1>2. /\ after = [u \in Tables |-> after[u]] /\ after[t] = K
      /\ \A u \in Tables \ {t} : after[u] = pending[u]
  BY DEF BuffersTyped, Kept
<1>3. /\ timer' = (timer \/ after[t] # <<>>)
      /\ dropped' = dropped \cup Dropped(t, rows)
      /\ accepted' = accepted
  BY DEF Settle
<1>4. \/ /\ t = "quote" /\ batch["snapshot"] = <<>> /\ then # <<>>
         /\ pending' = [after EXCEPT !["snapshot"] = rem]
         /\ batch' = [batch EXCEPT ![t] = <<>>, !["snapshot"] = then]
         /\ pool' = Append(rest, Query("snapshot", ToSet(then)))
      \/ /\ pending' = after
         /\ batch' = [batch EXCEPT ![t] = <<>>]
         /\ pool' = rest
  BY DEF Settle, Flushing
<1>5. \A u \in Tables : after[u] \in Seq(RowsOf[u]) /\ IsInjective(after[u])
                        /\ Buffered(u) \subseteq ToSet(after[u])
  BY <1>1, <1>2 DEF BuffersTyped, Buffered
<1>6. "snapshot" \in Tables /\ MaxBatch \in Nat
  BY TwoTables, WriteBehindAssumption DEF WriteBehindAssumption
<1>7. /\ then \in Seq(RowsOf["snapshot"]) /\ rem \in Seq(RowsOf["snapshot"])
      /\ Len(then) <= MaxBatch /\ IsInjective(then) /\ IsInjective(rem)
      /\ ToSet(after["snapshot"]) = ToSet(then) \cup ToSet(rem)
  <2> DEFINE s == after["snapshot"]
  <2>1. s \in Seq(RowsOf["snapshot"]) /\ IsInjective(s)
    BY <1>5, <1>6
  <2> HIDE DEF after
  <2> QED
    BY <1>6, <2>1, CutRows
<1>8. <<>> \in Seq(RowsOf[t]) /\ IsInjective(<<>>) /\ Len(<<>>) = 0 /\ ToSet(<<>>) = {}
  BY DEF IsInjective, ToSet
<1> HIDE DEF after, then, rem, K
<1>9. CASE /\ pending' = after
           /\ batch' = [batch EXCEPT ![t] = <<>>]
           /\ pool' = rest
  <2>1. /\ pending' = [u \in Tables |-> pending'[u]]
        /\ batch' = [u \in Tables |-> batch'[u]]
        /\ batch'[t] = <<>> /\ pending'[t] = K
        /\ \A u \in Tables \ {t} : batch'[u] = batch[u]
        /\ \A u \in Tables : pending'[u] = after[u]
    BY <1>2, <1>9 DEF BuffersTyped
  <2>2. BuffersTyped'
    <3> SUFFICES ASSUME NEW u \in Tables
                 PROVE  /\ pending'[u] \in Seq(RowsOf[u]) /\ IsInjective(pending'[u])
                        /\ batch'[u] \in Seq(RowsOf[u]) /\ IsInjective(batch'[u])
                        /\ Len(batch'[u]) <= MaxBatch
      BY <2>1 DEF BuffersTyped
    <3>1. pending'[u] \in Seq(RowsOf[u]) /\ IsInjective(pending'[u])
      BY <1>5, <2>1
    <3>2. CASE u = t
      BY <1>6, <1>8, <2>1, <3>1, <3>2
    <3>3. CASE u # t
      BY <2>1, <3>1, <3>3 DEF BuffersTyped
    <3> QED
      BY <3>2, <3>3
  <2>3. \A u \in Tables : Buffered(u)' = ToSet(after[u])
    BY <2>1 DEF Buffered
  <2>4. ToSet(rows) \subseteq Buffered(t)' \cup dropped'
    BY <1>1, <1>2, <1>3, <2>3
  <2> QED
    BY <1>1, <1>2, <1>3, <1>5, <1>8, <1>9, <2>1, <2>2, <2>3, <2>4 DEF K
<1>10. CASE /\ t = "quote" /\ batch["snapshot"] = <<>> /\ then # <<>>
            /\ pending' = [after EXCEPT !["snapshot"] = rem]
            /\ batch' = [batch EXCEPT ![t] = <<>>, !["snapshot"] = then]
            /\ pool' = Append(rest, Query("snapshot", ToSet(then)))
  <2>0. Tables \ {t} = {"snapshot"} /\ t # "snapshot"
    BY <1>10, TwoTables
  <2>1. /\ pending' = [u \in Tables |-> pending'[u]]
        /\ batch' = [u \in Tables |-> batch'[u]]
        /\ batch'[t] = <<>> /\ pending'[t] = K
        /\ batch'["snapshot"] = then /\ pending'["snapshot"] = rem
    BY <1>2, <1>6, <1>10, <2>0 DEF BuffersTyped
  <2>2. BuffersTyped'
    <3> SUFFICES ASSUME NEW u \in Tables
                 PROVE  /\ pending'[u] \in Seq(RowsOf[u]) /\ IsInjective(pending'[u])
                        /\ batch'[u] \in Seq(RowsOf[u]) /\ IsInjective(batch'[u])
                        /\ Len(batch'[u]) <= MaxBatch
      BY <2>1 DEF BuffersTyped
    <3>1. CASE u = t
      BY <1>1, <1>6, <1>8, <2>1, <3>1 DEF K
    <3>2. CASE u = "snapshot"
      BY <1>7, <2>1, <3>2
    <3> QED
      BY <2>0, <3>1, <3>2
  <2>3. /\ Buffered(t)' = ToSet(K)
        /\ Buffered("snapshot")' = ToSet(rem)
    BY <2>1 DEF Buffered
  <2>4. ToSet(rows) \subseteq Buffered(t)' \cup dropped'
    BY <1>1, <1>3, <2>3 DEF K
  <2>5. \A u \in Tables : Buffered(u) \subseteq Buffered(u)' \cup ToSet(batch'[u]) \cup dropped'
    <3> SUFFICES ASSUME NEW u \in Tables
                 PROVE  Buffered(u) \subseteq Buffered(u)' \cup ToSet(batch'[u]) \cup dropped'
      OBVIOUS
    <3>1. CASE u = t
      BY <1>1, <2>3, <3>1 DEF K
    <3>2. CASE u = "snapshot"
      BY <1>5, <1>6, <1>7, <2>1, <2>3, <3>2
    <3> QED
      BY <2>0, <3>1, <3>2
  <2>7. pool' = Append(rest, Query("snapshot", ToSet(batch'["snapshot"])))
    BY <1>10, <2>1
  <2> QED
    BY <1>1, <1>2, <1>3, <1>8, <1>10, <2>0, <2>1, <2>2, <2>4, <2>5, <2>7 DEF K
<1> QED
  BY <1>4, <1>9, <1>10

-----------------------------------------------------------------------------
(* WriteBehind: the pool *)

AwaitedIn(q, t) == \E i \in DOMAIN q : q[i].table = t /\ q[i].state = "awaited"

\* How many of its queries the service still waits for, and how many it has given up.
Hopes(q) == (IF AwaitedIn(q, "quote") THEN 1 ELSE 0)
              + (IF AwaitedIn(q, "snapshot") THEN 1 ELSE 0)
Given(q) == Len(q) - Hopes(q)

Reach(i) == IF i > PoolSize THEN i ELSE PoolSize

\* Of the table of a query that is awaited nothing was sent after it.
LastOfTable(q) ==
  \A i \in DOMAIN q : q[i].state = "awaited" =>
    \A k \in DOMAIN q : k > i => q[k].table # q[i].table

\* A pool q while the tables of F are flushed and r timeouts have been counted.  What
\* was given up before the timeouts counted now is bounded, and it fits into the pool
\* while a query that has a connection is awaited: a query that is answered makes the
\* count start again.
PoolOK(q, F, r) ==
  /\ LastOfTable(q)
  /\ \A i \in DOMAIN q : q[i].state = "awaited" =>
       q[i].table \in F /\ Given(q) - r <= Reach(i) - 1
  /\ Given(q) - r <= PoolSize + RecycleAfter - 2

LEMMA PoolNumbers ==
  /\ PoolSize \in Nat /\ PoolSize > 1 /\ RecycleAfter \in Nat /\ RecycleAfter >= 1
  /\ 2 * RecycleAfter <= PoolSize + 1
BY WriteBehindAssumption DEF WriteBehindAssumption

LEMMA HopeFacts ==
  ASSUME NEW q \in Seq(Queries), LastOfTable(q)
  PROVE  /\ Hopes(q) \in {0, 1, 2} /\ Len(q) \in Nat /\ Given(q) \in Int
         /\ Given(q) = Len(q) - Hopes(q)
         /\ \A i \in DOMAIN q : q[i].state = "awaited" => Hopes(q) >= 1
         /\ \A i, j \in DOMAIN q :
              q[i].state = "awaited" /\ q[j].state = "awaited" /\ i < j =>
                j = Len(q) /\ Hopes(q) = 2
<1>1. Hopes(q) \in {0, 1, 2} /\ Len(q) \in Nat /\ Given(q) \in Int
  BY DEF Hopes, Given
<1>2. \A i \in DOMAIN q : q[i].table \in {"quote", "snapshot"}
  <2> SUFFICES ASSUME NEW i \in DOMAIN q PROVE q[i].table \in {"quote", "snapshot"}
    OBVIOUS
  <2>1. q[i] \in Queries
    OBVIOUS
  <2> QED
    BY <2>1, TwoTables DEF Queries
<1>3. \A i \in DOMAIN q : q[i].state = "awaited" => Hopes(q) >= 1
  BY <1>2 DEF Hopes, AwaitedIn
<1>4. ASSUME NEW i \in DOMAIN q, NEW j \in DOMAIN q,
             q[i].state = "awaited", q[j].state = "awaited", i < j
      PROVE  j = Len(q) /\ Hopes(q) = 2
  <2>1. q[j].table # q[i].table
    BY <1>4 DEF LastOfTable
  <2>2. AwaitedIn(q, "quote") /\ AwaitedIn(q, "snapshot")
    BY <1>2, <1>4, <2>1 DEF AwaitedIn
  <2>3. j \in 1..Len(q)
    OBVIOUS
  <2>4. CASE j < Len(q)
    <3>1. Len(q) \in DOMAIN q
      BY <2>3
    <3>2. q[Len(q)].table # q[i].table /\ q[Len(q)].table # q[j].table
      BY <1>4, <2>3, <2>4, <3>1 DEF LastOfTable
    <3> QED
      BY <1>2, <1>4, <2>1, <3>1, <3>2
  <2> QED
    BY <2>2, <2>3, <2>4 DEF Hopes
<1> QED
  BY <1>1, <1>3, <1>4 DEF Given

LEMMA RemoveFacts ==
  ASSUME NEW q \in Seq(Queries), NEW i \in DOMAIN q
  PROVE  /\ RemoveAt(q, i) \in Seq(Queries)
         /\ Len(RemoveAt(q, i)) = Len(q) - 1
         /\ \A k \in DOMAIN RemoveAt(q, i) :
              /\ k < i => k \in DOMAIN q /\ RemoveAt(q, i)[k] = q[k]
              /\ k >= i => k + 1 \in DOMAIN q /\ RemoveAt(q, i)[k] = q[k + 1]
         /\ \A k \in DOMAIN q :
              /\ k < i => k \in DOMAIN RemoveAt(q, i)
              /\ k > i => k - 1 \in DOMAIN RemoveAt(q, i) /\ k - 1 >= i
<1> DEFINE p == RemoveAt(q, i)
           a == SubSeq(q, 1, i - 1)
           b == SubSeq(q, i + 1, Len(q))
           N == Len(q)
<1>1. i \in 1..N /\ N \in Nat /\ DOMAIN q = 1..N
  OBVIOUS
<1>2. a \in Seq(Queries) /\ Len(a) = i - 1 /\ \A k \in 1..(i - 1) : a[k] = q[k]
  BY <1>1
<1>3. b \in Seq(Queries) /\ Len(b) = N - i /\ \A k \in 1..(N - i) : b[k] = q[k + i]
  BY <1>1
<1>4. p = a \o b
  BY DEF RemoveAt
<1> HIDE DEF a, b, p
<1>5. /\ p \in Seq(Queries) /\ Len(p) = N - 1 /\ DOMAIN p = 1..(N - 1)
      /\ \A k \in 1..(i - 1) : p[k] = a[k]
      /\ \A k \in i..(N - 1) : p[k] = b[k - (i - 1)]
  <2>1. /\ p \in Seq(Queries) /\ Len(p) = Len(a) + Len(b)
        /\ \A k \in 1..Len(a) : p[k] = a[k]
        /\ \A k \in 1..Len(b) : p[k + Len(a)] = b[k]
    <3>1. a \in Seq(Queries) /\ b \in Seq(Queries)
      BY <1>2, <1>3
    <3> QED
      BY <1>4, <3>1
  <2>2. Len(p) = N - 1 /\ DOMAIN p = 1..(N - 1)
    BY <1>1, <1>2, <1>3, <2>1
  <2>3. \A k \in 1..(i - 1) : p[k] = a[k]
    BY <1>1, <1>2, <2>1, <2>2
  <2>4. ASSUME NEW k \in i..(N - 1) PROVE p[k] = b[k - (i - 1)]
    <3>1. k - (i - 1) \in 1..Len(b) /\ (k - (i - 1)) + Len(a) = k
      BY <1>1, <1>2, <1>3
    <3>2. p[(k - (i - 1)) + Len(a)] = b[k - (i - 1)]
      BY <2>1, <3>1
    <3> QED
      BY <3>1, <3>2
  <2> QED
    BY <2>1, <2>2, <2>3, <2>4
<1>6. ASSUME NEW k \in DOMAIN p, k >= i
      PROVE  k + 1 \in DOMAIN q /\ p[k] = q[k + 1]
  <2>1. k - (i - 1) \in 1..(N - i) /\ (k - (i - 1)) + i = k + 1 /\ k \in i..(N - 1)
    BY <1>1, <1>5, <1>6
  <2>2. p[k] = b[k - (i - 1)]
    BY <1>5, <2>1
  <2>3. b[k - (i - 1)] = q[(k - (i - 1)) + i]
    BY <1>3, <2>1
  <2>4. k + 1 \in DOMAIN q
    BY <1>1, <2>1
  <2> QED
    BY <2>1, <2>2, <2>3, <2>4
<1>7. \A k \in DOMAIN p : k < i => k \in DOMAIN q /\ p[k] = q[k]
  BY <1>1, <1>2, <1>5
<1>8. \A k \in DOMAIN q : /\ k < i => k \in DOMAIN p
                          /\ k > i => k - 1 \in DOMAIN p /\ k - 1 >= i
  BY <1>1, <1>5
<1> QED
  BY <1>5, <1>6, <1>7, <1>8 DEF p

\* The place in q of what stands at place k once place i is taken out.
Was(i, k) == IF k < i THEN k ELSE k + 1

LEMMA RemoveLast ==
  ASSUME NEW q \in Seq(Queries), LastOfTable(q), NEW i \in DOMAIN q
  PROVE  /\ LastOfTable(RemoveAt(q, i))
         /\ \A k \in DOMAIN RemoveAt(q, i) :
              /\ Was(i, k) \in DOMAIN q \ {i} /\ RemoveAt(q, i)[k] = q[Was(i, k)]
         /\ \A t : AwaitedIn(RemoveAt(q, i), t) <=>
                     (AwaitedIn(q, t) /\ ~(q[i].table = t /\ q[i].state = "awaited"))
<1> DEFINE p == RemoveAt(q, i)
<1>1. /\ p \in Seq(Queries) /\ Len(p) = Len(q) - 1 /\ i \in Nat
      /\ DOMAIN p \subseteq Nat /\ DOMAIN q \subseteq Nat
      /\ \A k \in DOMAIN p :
           /\ k < i => k \in DOMAIN q /\ p[k] = q[k]
           /\ k >= i => k + 1 \in DOMAIN q /\ p[k] = q[k + 1]
      /\ \A k \in DOMAIN q :
           /\ k < i => k \in DOMAIN p
           /\ k > i => k - 1 \in DOMAIN p /\ k - 1 >= i
  BY RemoveFacts
<1> HIDE DEF p
<1>2. \A k \in DOMAIN p : Was(i, k) \in DOMAIN q \ {i} /\ p[k] = q[Was(i, k)]
  BY <1>1 DEF Was
<1>3. \A k, m \in DOMAIN p : k > m => Was(i, k) > Was(i, m)
  BY <1>1 DEF Was
<1>4. LastOfTable(p)
  BY <1>2, <1>3 DEF LastOfTable
<1>5. ASSUME NEW t
      PROVE  AwaitedIn(p, t) <=> (AwaitedIn(q, t) /\ ~(q[i].table = t /\ q[i].state = "awaited"))
  <2>1. ASSUME AwaitedIn(p, t)
        PROVE  AwaitedIn(q, t) /\ ~(q[i].table = t /\ q[i].state = "awaited")
    <3>1. PICK k \in DOMAIN p : p[k].table = t /\ p[k].state = "awaited"
      BY <2>1 DEF AwaitedIn
    <3> DEFINE m == Was(i, k)
    <3>2. m \in DOMAIN q /\ m # i /\ q[m].table = t /\ q[m].state = "awaited"
      BY <1>2, <3>1
    <3>3. ~(q[i].table = t /\ q[i].state = "awaited")
      <4>1. m \in Nat /\ i \in Nat
        BY <1>1, <3>2
      <4> HIDE DEF m
      <4> QED
        BY <3>2, <4>1 DEF LastOfTable
    <3> QED
      BY <3>2, <3>3 DEF AwaitedIn
  <2>2. ASSUME AwaitedIn(q, t), ~(q[i].table = t /\ q[i].state = "awaited")
        PROVE  AwaitedIn(p, t)
    <3>1. PICK m \in DOMAIN q : q[m].table = t /\ q[m].state = "awaited"
      BY <2>2 DEF AwaitedIn
    <3>2. m # i /\ m \in Nat
      BY <1>1, <2>2, <3>1
    <3>3. CASE m < i
      BY <1>1, <3>1, <3>3 DEF AwaitedIn
    <3>4. CASE m > i
      <4>1. m - 1 \in DOMAIN p /\ m - 1 >= i /\ (m - 1) + 1 = m
        BY <1>1, <3>2, <3>4
      <4>2. p[m - 1] = q[m]
        BY <1>1, <4>1
      <4> QED
        BY <3>1, <4>1, <4>2 DEF AwaitedIn
    <3> QED
      BY <1>1, <3>2, <3>3, <3>4
  <2> QED
    BY <2>1, <2>2
<1> QED
  BY <1>2, <1>4, <1>5 DEF p

\* What the arithmetic of PoolOK needs of a place.
LEMMA ReachFacts ==
  ASSUME NEW i \in Nat
  PROVE  /\ Reach(i) \in Nat /\ Reach(i) >= i /\ Reach(i) >= PoolSize
         /\ i <= PoolSize => Reach(i) = PoolSize
BY PoolNumbers DEF Reach

\* A query given up is answered, or fails, at last.
LEMMA LateLeaves ==
  ASSUME NEW q \in Seq(Queries), NEW F, NEW r \in Nat, PoolOK(q, F, r),
         NEW i \in DOMAIN q, q[i].state # "awaited"
  PROVE  PoolOK(RemoveAt(q, i), F, r)
<1> DEFINE p == RemoveAt(q, i)
<1>0. p \in Seq(Queries) /\ Len(p) = Len(q) - 1 /\ i \in Nat
      /\ DOMAIN p \subseteq Nat /\ DOMAIN q \subseteq Nat
  BY RemoveFacts
<1>1. /\ LastOfTable(p)
      /\ \A k \in DOMAIN p : Was(i, k) \in DOMAIN q \ {i} /\ p[k] = q[Was(i, k)]
      /\ \A t : AwaitedIn(p, t) <=> AwaitedIn(q, t)
  BY RemoveLast DEF PoolOK
<1> HIDE DEF p
<1>2. /\ Hopes(p) = Hopes(q) /\ Given(q) \in Int /\ Given(p) = Given(q) - 1
  <2>1. Hopes(p) = Hopes(q)
    BY <1>1 DEF Hopes
  <2>2. Given(p) = Len(p) - Hopes(p) /\ Given(q) = Len(q) - Hopes(q)
    BY DEF Given
  <2>3. Hopes(q) \in {0, 1, 2} /\ Len(q) \in Nat
    BY HopeFacts DEF PoolOK
  <2> QED
    BY <1>0, <2>1, <2>2, <2>3
<1>3. ASSUME NEW k \in DOMAIN p, p[k].state = "awaited"
      PROVE  p[k].table \in F /\ Given(p) - r <= Reach(k) - 1
  <2> DEFINE m == Was(i, k)
  <2>1. m \in DOMAIN q /\ p[k] = q[m] /\ m \in Nat /\ k \in Nat /\ m <= k + 1
    BY <1>0, <1>1 DEF Was
  <2>2. q[m].table \in F /\ Given(q) - r <= Reach(m) - 1
    BY <1>3, <2>1 DEF PoolOK
  <2>3. Reach(m) <= Reach(k) + 1 /\ Reach(m) \in Nat /\ Reach(k) \in Nat
    BY <2>1, PoolNumbers DEF Reach
  <2> HIDE DEF m
  <2> QED
    BY <1>2, <2>1, <2>2, <2>3
<1>4. Given(p) - r <= PoolSize + RecycleAfter - 2
  BY <1>2, PoolNumbers DEF PoolOK
<1> QED
  BY <1>1, <1>3, <1>4 DEF PoolOK, p

\* A query that is awaited ends: it fails, or it was answered and the count of timeouts
\* starts again.
LEMMA AwaitedLeaves ==
  ASSUME NEW q \in Seq(Queries), NEW F, NEW r \in Nat, r < RecycleAfter, PoolOK(q, F, r),
         NEW i \in DOMAIN q, q[i].state = "awaited", NEW t, q[i].table = t
  PROVE  /\ PoolOK(RemoveAt(q, i), F \ {t}, r)
         /\ i <= PoolSize => PoolOK(RemoveAt(q, i), F \ {t}, 0)
<1> DEFINE p == RemoveAt(q, i)
<1>0. p \in Seq(Queries) /\ Len(p) = Len(q) - 1 /\ i \in Nat
      /\ DOMAIN p \subseteq Nat /\ DOMAIN q \subseteq Nat
  BY RemoveFacts
<1>1. /\ LastOfTable(p)
      /\ \A k \in DOMAIN p : Was(i, k) \in DOMAIN q \ {i} /\ p[k] = q[Was(i, k)]
      /\ \A u : AwaitedIn(p, u) <=> (AwaitedIn(q, u) /\ u # t)
  BY RemoveLast DEF PoolOK
<1> HIDE DEF p
<1>2. /\ Hopes(q) \in {0, 1, 2} /\ Len(q) \in Nat /\ Given(q) \in Int
      /\ Given(q) = Len(q) - Hopes(q)
      /\ \A k, m \in DOMAIN q :
           q[k].state = "awaited" /\ q[m].state = "awaited" /\ k < m =>
             m = Len(q) /\ Hopes(q) = 2
  BY HopeFacts DEF PoolOK
<1>3. Given(p) = Given(q)
  <2>1. t \in {"quote", "snapshot"} /\ AwaitedIn(q, t)
    <3>1. q[i] \in Queries
      OBVIOUS
    <3> QED
      BY <3>1, TwoTables DEF Queries, AwaitedIn
  <2>2. Hopes(p) = Hopes(q) - 1
    BY <1>1, <2>1 DEF Hopes
  <2>3. Given(p) = Len(p) - Hopes(p)
    BY DEF Given
  <2> QED
    BY <1>0, <1>2, <2>2, <2>3
<1>4. ASSUME NEW k \in DOMAIN p, p[k].state = "awaited"
      PROVE  /\ p[k].table \in F \ {t}
             /\ Given(p) - r <= Reach(k) - 1
             /\ i <= PoolSize => Given(p) <= Reach(k) - 1
  <2> DEFINE m == Was(i, k)
  <2>1. m \in DOMAIN q /\ m # i /\ p[k] = q[m] /\ m \in Nat /\ k \in Nat
        /\ (m < i => m = k) /\ (m > i => m = k + 1)
    BY <1>0, <1>1 DEF Was
  <2>2. q[m].table \in F /\ Given(q) - r <= Reach(m) - 1 /\ q[m].state = "awaited"
    BY <1>4, <2>1 DEF PoolOK
  <2>3. AwaitedIn(p, p[k].table)
    BY <1>4 DEF AwaitedIn
  <2>4. p[k].table # t
    BY <1>1, <2>3
  <2> HIDE DEF m
  <2>5. CASE m < i
    <3>1. Given(q) = i - 2 /\ m = k /\ Reach(k) \in Nat /\ Reach(k) >= PoolSize
      BY <1>0, <1>2, <2>1, <2>2, <2>5, ReachFacts
    <3>2. p[k].table \in F \ {t} /\ Given(p) - r <= Reach(k) - 1
      BY <1>3, <2>1, <2>2, <2>4, <3>1
    <3>3. i <= PoolSize => Given(p) <= Reach(k) - 1
      BY <1>0, <1>3, <3>1, PoolNumbers
    <3> QED
      BY <3>2, <3>3
  <2>6. CASE m > i
    <3>1. Given(q) = m - 2 /\ m = k + 1 /\ Reach(k) \in Nat /\ Reach(k) >= k
      BY <1>0, <1>2, <2>1, <2>2, <2>6, ReachFacts
    <3>2. Given(p) = k - 1 /\ k \in Nat
      BY <1>3, <2>1, <3>1
    <3>3. Given(p) - r <= Reach(k) - 1 /\ Given(p) <= Reach(k) - 1
      BY <3>1, <3>2
    <3>4. p[k].table \in F \ {t}
      BY <2>1, <2>2, <2>4
    <3> QED
      BY <3>3, <3>4
  <2> QED
    BY <1>0, <2>1, <2>5, <2>6
<1>5. /\ Given(p) - r <= PoolSize + RecycleAfter - 2
      /\ i <= PoolSize => Given(p) - 0 <= PoolSize + RecycleAfter - 2
  <2>1. Given(q) - r <= PoolSize + RecycleAfter - 2 /\ Given(q) - r <= Reach(i) - 1
    BY DEF PoolOK
  <2>2. i <= PoolSize => Reach(i) = PoolSize
    BY <1>0, ReachFacts
  <2> QED
    BY <1>2, <1>3, <2>1, <2>2, PoolNumbers
<1>6. Given(p) - 0 = Given(p)
  BY <1>2, <1>3
<1> QED
  BY <1>1, <1>4, <1>5, <1>6 DEF PoolOK, p

\* A query is sent.
LEMMA QueryJoins ==
  ASSUME NEW q \in Seq(Queries), NEW F, NEW r \in Nat, PoolOK(q, F, r),
         NEW t \in Tables, t \notin F, NEW rows \in SUBSET Rows
  PROVE  /\ Append(q, Query(t, rows)) \in Seq(Queries)
         /\ PoolOK(Append(q, Query(t, rows)), F \cup {t}, r)
<1> DEFINE x == Query(t, rows)
           p == Append(q, x)
<1>1. x \in Queries /\ x.table = t /\ x.state = "awaited"
  BY DEF Query, Queries
<1> HIDE DEF x
<1>2. /\ p \in Seq(Queries) /\ Len(p) = Len(q) + 1 /\ Len(q) \in Nat
      /\ DOMAIN p = 1..(Len(q) + 1) /\ DOMAIN q = 1..Len(q)
      /\ \A i \in 1..Len(q) : p[i] = q[i]
      /\ p[Len(q) + 1] = x
  BY <1>1
<1> HIDE DEF p
<1>3. ~AwaitedIn(q, t)
  BY DEF PoolOK, AwaitedIn
<1>4. \A u : AwaitedIn(p, u) <=> (AwaitedIn(q, u) \/ u = t)
  <2>1. AwaitedIn(p, t)
    BY <1>1, <1>2 DEF AwaitedIn
  <2>2. ASSUME NEW u, u # t PROVE AwaitedIn(p, u) <=> AwaitedIn(q, u)
    <3>1. AwaitedIn(q, u) => AwaitedIn(p, u)
      <4> SUFFICES ASSUME NEW k \in DOMAIN q, q[k].table = u, q[k].state = "awaited"
                   PROVE  AwaitedIn(p, u)
        BY DEF AwaitedIn
      <4>1. k \in DOMAIN p /\ p[k] = q[k]
        BY <1>2
      <4> QED
        BY <4>1 DEF AwaitedIn
    <3>2. AwaitedIn(p, u) => AwaitedIn(q, u)
      <4> SUFFICES ASSUME NEW k \in DOMAIN p, p[k].table = u, p[k].state = "awaited"
                   PROVE  AwaitedIn(q, u)
        BY DEF AwaitedIn
      <4>1. k # Len(q) + 1
        BY <1>1, <1>2, <2>2
      <4>2. k \in DOMAIN q /\ p[k] = q[k]
        BY <1>2, <4>1
      <4> QED
        BY <4>2 DEF AwaitedIn
    <3> QED
      BY <3>1, <3>2
  <2> QED
    BY <2>1, <2>2
<1>5. Given(p) = Given(q) /\ Given(q) \in Int /\ Given(q) <= Len(q)
  <2>1. Hopes(p) = Hopes(q) + 1
    BY <1>3, <1>4, TwoTables DEF Hopes
  <2>2. Hopes(q) \in {0, 1, 2} /\ Given(q) = Len(q) - Hopes(q)
    BY HopeFacts DEF PoolOK
  <2>3. Given(p) = Len(p) - Hopes(p)
    BY DEF Given
  <2> QED
    BY <1>2, <2>1, <2>2, <2>3
<1>6. ASSUME NEW i \in DOMAIN p, p[i].state = "awaited"
      PROVE  /\ p[i].table \in F \cup {t} /\ Given(p) - r <= Reach(i) - 1
             /\ \A k \in DOMAIN p : k > i => p[k].table # p[i].table
  <2>1. CASE i = Len(q) + 1
    <3>1. i \in Nat /\ Reach(i) \in Nat /\ Reach(i) >= i
      BY <1>2, <2>1, ReachFacts
    <3>2. \A k \in DOMAIN p : ~(k > i)
      BY <1>2, <2>1
    <3> QED
      BY <1>1, <1>2, <1>5, <2>1, <3>1, <3>2
  <2>2. CASE i \in 1..Len(q)
    <3>1. p[i] = q[i] /\ i \in DOMAIN q
      BY <1>2, <2>2
    <3>2. q[i].table \in F /\ Given(q) - r <= Reach(i) - 1
          /\ \A k \in DOMAIN q : k > i => q[k].table # q[i].table
      BY <1>6, <3>1 DEF PoolOK, LastOfTable
    <3>3. \A k \in DOMAIN p : k > i => p[k].table # p[i].table
      <4> SUFFICES ASSUME NEW k \in DOMAIN p, k > i PROVE p[k].table # p[i].table
        OBVIOUS
      <4>1. CASE k = Len(q) + 1
        BY <1>1, <1>2, <3>1, <3>2, <4>1
      <4>2. CASE k \in 1..Len(q)
        BY <1>2, <3>1, <3>2, <4>2
      <4> QED
        BY <1>2, <4>1, <4>2
    <3> QED
      BY <1>5, <3>1, <3>2, <3>3
  <2> QED
    BY <1>2, <2>1, <2>2
<1>7. PoolOK(p, F \cup {t}, r)
  BY <1>5, <1>6 DEF PoolOK, LastOfTable
<1> QED
  BY <1>2, <1>7 DEF p, x

\* A flush gives up on the query it waits for, if that is still there.
Forsaken(q, t) ==
  [i \in DOMAIN q |->
     IF ~(q[i].table = t /\ q[i].state = "awaited") THEN q[i]
     ELSE [q[i] EXCEPT !.state = IF i <= PoolSize THEN "wedged" ELSE "late"]]

LEMMA ForsakenFacts ==
  ASSUME NEW q \in Seq(Queries), NEW t
  PROVE  /\ Forsaken(q, t) \in Seq(Queries) /\ Len(Forsaken(q, t)) = Len(q)
         /\ \A i \in DOMAIN q :
              /\ Forsaken(q, t)[i].table = q[i].table
              /\ Forsaken(q, t)[i].state = "awaited" <=> q[i].state = "awaited" /\ q[i].table # t
<1> DEFINE p == Forsaken(q, t)
<1>1. DOMAIN q = 1..Len(q) /\ Len(q) \in Nat /\ DOMAIN p = DOMAIN q
  BY DEF Forsaken
<1>2. \A i \in DOMAIN q : p[i] =
        IF ~(q[i].table = t /\ q[i].state = "awaited") THEN q[i]
        ELSE [q[i] EXCEPT !.state = IF i <= PoolSize THEN "wedged" ELSE "late"]
  BY DEF Forsaken
<1>3. p = [i \in 1..Len(q) |-> p[i]]
  BY <1>1 DEF Forsaken
<1> HIDE DEF p
<1>4. ASSUME NEW i \in DOMAIN q
      PROVE  /\ p[i] \in Queries /\ p[i].table = q[i].table
             /\ p[i].state = "awaited" <=> q[i].state = "awaited" /\ q[i].table # t
  <2>1. q[i] \in Queries
    OBVIOUS
  <2> DEFINE s == IF i <= PoolSize THEN "wedged" ELSE "late"
  <2>2. s \in {"wedged", "late"}
    OBVIOUS
  <2>3. p[i] = IF ~(q[i].table = t /\ q[i].state = "awaited") THEN q[i]
               ELSE [q[i] EXCEPT !.state = s]
    BY <1>2
  <2> HIDE DEF s
  <2> QED
    BY <2>1, <2>2, <2>3 DEF Queries
<1>5. p \in Seq(Queries) /\ Len(p) = Len(q)
  <2>1. \A i \in 1..Len(q) : p[i] \in Queries
    BY <1>1, <1>4
  <2> QED
    BY <1>1, <1>3, <2>1
<1> QED
  BY <1>4, <1>5 DEF p

LEMMA ForsakenHopes ==
  ASSUME NEW q \in Seq(Queries), LastOfTable(q), NEW t \in Tables
  PROVE  /\ LastOfTable(Forsaken(q, t))
         /\ \A u : AwaitedIn(Forsaken(q, t), u) <=> AwaitedIn(q, u) /\ u # t
         /\ AwaitedIn(q, t) => Given(Forsaken(q, t)) = Given(q) + 1
         /\ ~AwaitedIn(q, t) => Given(Forsaken(q, t)) = Given(q)
<1> DEFINE p == Forsaken(q, t)
<1>1. /\ Len(p) = Len(q) /\ DOMAIN p = DOMAIN q /\ Len(q) \in Nat
      /\ \A i \in DOMAIN q :
              /\ p[i].table = q[i].table
              /\ p[i].state = "awaited" <=> q[i].state = "awaited" /\ q[i].table # t
  BY ForsakenFacts
<1> HIDE DEF p
<1>2. LastOfTable(p)
  BY <1>1 DEF LastOfTable
<1>3. \A u : AwaitedIn(p, u) <=> AwaitedIn(q, u) /\ u # t
  BY <1>1 DEF AwaitedIn
<1>4. /\ AwaitedIn(q, t) => Hopes(p) = Hopes(q) - 1
      /\ ~AwaitedIn(q, t) => Hopes(p) = Hopes(q)
  BY <1>3, TwoTables DEF Hopes
<1>5. Hopes(q) \in {0, 1, 2} /\ Given(q) = Len(q) - Hopes(q) /\ Given(p) = Len(p) - Hopes(p)
  BY HopeFacts DEF Given
<1> QED
  BY <1>1, <1>2, <1>3, <1>4, <1>5 DEF p

\* A flush times out, and the connections are not destroyed.
LEMMA FlushForsakes ==
  ASSUME NEW q \in Seq(Queries), NEW F, NEW r \in Nat, PoolOK(q, F, r), NEW t \in Tables
  PROVE  PoolOK(Forsaken(q, t), F \ {t}, r + 1)
<1> DEFINE p == Forsaken(q, t)
<1>1. /\ LastOfTable(p) /\ LastOfTable(q) /\ DOMAIN p = DOMAIN q /\ DOMAIN q \subseteq Nat
      /\ \A i \in DOMAIN q :
              /\ p[i].table = q[i].table
              /\ p[i].state = "awaited" <=> q[i].state = "awaited" /\ q[i].table # t
  BY ForsakenFacts, ForsakenHopes DEF PoolOK
<1>2. Given(p) - (r + 1) <= Given(q) - r /\ Given(q) \in Int /\ Given(p) \in Int
  <2>1. Given(q) \in Int
    BY HopeFacts DEF PoolOK
  <2>2. Given(p) = Given(q) + 1 \/ Given(p) = Given(q)
    BY <1>1, ForsakenHopes
  <2> QED
    BY <2>1, <2>2
<1> HIDE DEF p
<1>3. ASSUME NEW i \in DOMAIN p, p[i].state = "awaited"
      PROVE  p[i].table \in F \ {t} /\ Given(p) - (r + 1) <= Reach(i) - 1
  <2>1. q[i].table \in F /\ Given(q) - r <= Reach(i) - 1 /\ p[i].table = q[i].table
        /\ q[i].table # t /\ Reach(i) \in Nat
    BY <1>1, <1>3, ReachFacts DEF PoolOK
  <2> QED
    BY <1>2, <2>1
<1>4. Given(p) - (r + 1) <= PoolSize + RecycleAfter - 2
  BY <1>2, PoolNumbers DEF PoolOK
<1> QED
  BY <1>1, <1>3, <1>4 DEF PoolOK, p

\* A flush whose query was cut off ends.
LEMMA CutOffEnds ==
  ASSUME NEW q \in Seq(Queries), NEW F, NEW r, PoolOK(q, F, r), NEW t, ~AwaitedIn(q, t)
  PROVE  PoolOK(q, F \ {t}, r)
BY DEF PoolOK, AwaitedIn

\* The connections are destroyed: what waited behind them is fewer than they are.
LEMMA PoolReleased ==
  ASSUME NEW q \in Seq(Queries), NEW F, PoolOK(q, F, RecycleAfter - 1), NEW t \in Tables
  PROVE  /\ After(Forsaken(q, t), PoolSize) \in Seq(Queries)
         /\ PoolOK(After(Forsaken(q, t), PoolSize), F \ {t}, 0)
<1> DEFINE f == Forsaken(q, t)
           p == After(f, PoolSize)
           r == RecycleAfter - 1
           L == Len(q)
<1>1. /\ f \in Seq(Queries) /\ LastOfTable(f) /\ LastOfTable(q) /\ Len(f) = L
      /\ \A i \in DOMAIN q :
              /\ f[i].table = q[i].table
              /\ f[i].state = "awaited" <=> q[i].state = "awaited" /\ q[i].table # t
      /\ DOMAIN f = 1..L /\ DOMAIN q = 1..L /\ L \in Nat
  BY ForsakenFacts, ForsakenHopes DEF PoolOK
<1> HIDE DEF f
<1>2. p \in Seq(Queries) /\ p = SubSeq(f, Least(PoolSize, L) + 1, L)
  BY <1>1, PoolNumbers, CutRows DEF After
<1>3. CASE L <= PoolSize
  <2>1. SubSeq(f, L + 1, L) = <<>>
    BY <1>1
  <2>2. p = <<>>
    <3>0. L \in Nat /\ PoolSize \in Nat /\ L <= PoolSize
      BY <1>1, <1>3, PoolNumbers
    <3> HIDE DEF L, p
    <3>1. Least(PoolSize, L) = L
      BY <3>0 DEF Least
    <3> QED
      BY <1>2, <2>1, <3>1
  <2> HIDE DEF p
  <2>3. Given(p) = 0 /\ DOMAIN p = {}
    BY <2>2 DEF Given, Hopes, AwaitedIn
  <2>4. PoolOK(p, F \ {t}, 0)
    BY <2>3, PoolNumbers DEF PoolOK, LastOfTable
  <2> QED
    BY <1>2, <2>4 DEF f, p
<1>4. CASE L > PoolSize
  <2>1. p = SubSeq(f, PoolSize + 1, L)
    BY <1>1, <1>2, <1>4, PoolNumbers DEF Least
  <2> HIDE DEF p
  <2>2. /\ Len(p) = L - PoolSize /\ DOMAIN p = 1..(L - PoolSize)
        /\ \A k \in DOMAIN p : p[k] = f[k + PoolSize] /\ k + PoolSize \in DOMAIN f /\ k \in Nat
    <3> DEFINE n == PoolSize
    <3>1. n \in Nat /\ n < L /\ f \in Seq(Queries) /\ Len(f) = L /\ L \in Nat
      BY <1>1, <1>4, PoolNumbers
    <3> HIDE DEF n
    <3>2. p = SubSeq(f, n + 1, L)
      BY <2>1 DEF n
    <3> HIDE DEF L
    <3>3. Len(p) = L - n /\ DOMAIN p = 1..(L - n)
      BY <3>1, <3>2
    <3>4. ASSUME NEW k \in 1..(L - n) PROVE p[k] = f[k + n] /\ k + n \in 1..L
      <4>1. p[k] = f[(n + 1) + k - 1]
        BY <3>1, <3>2
      <4>2. (n + 1) + k - 1 = k + n /\ k + n \in 1..L
        BY <3>1
      <4> QED
        BY <4>1, <4>2
    <3> QED
      BY <1>1, <3>3, <3>4 DEF n, L
  <2>3. LastOfTable(p)
    <3> SUFFICES ASSUME NEW i \in DOMAIN p, p[i].state = "awaited", NEW k \in DOMAIN p, k > i
                 PROVE  p[k].table # p[i].table
      BY DEF LastOfTable
    <3>1. k + PoolSize > i + PoolSize
      BY <2>2, PoolNumbers
    <3> QED
      BY <1>1, <2>2, <3>1 DEF LastOfTable
  <2>4. \A i \in DOMAIN p : p[i].state = "awaited" => p[i].table \in F \ {t}
    BY <1>1, <2>2 DEF PoolOK
  <2>5. /\ Hopes(q) \in {0, 1, 2} /\ Given(q) = L - Hopes(q)
        /\ Given(q) - r <= PoolSize + RecycleAfter - 2
    BY HopeFacts DEF PoolOK
  <2>6. CASE \E u \in Tables : AwaitedIn(p, u)
    <3>1. Hopes(p) >= 1 /\ Hopes(p) \in {1, 2} /\ Given(p) = Len(p) - Hopes(p)
      BY <2>6, TwoTables DEF Hopes, Given
    <3>2. Given(p) <= PoolSize - 1
      BY <1>1, <2>2, <2>5, <3>1, PoolNumbers
    <3>3. \A i \in DOMAIN p : PoolSize <= Reach(i) /\ Reach(i) \in Nat
      BY <2>2, ReachFacts
    <3>4. Given(p) \in Int /\ Given(p) - 0 = Given(p)
      BY <1>1, <2>2, <3>1, PoolNumbers
    <3>5. \A i \in DOMAIN p : Given(p) - 0 <= Reach(i) - 1
      BY <3>2, <3>3, <3>4, PoolNumbers
    <3>6. Given(p) - 0 <= PoolSize + RecycleAfter - 2
      BY <3>2, <3>4, PoolNumbers
    <3>7. PoolOK(p, F \ {t}, 0)
      BY <2>3, <2>4, <3>5, <3>6 DEF PoolOK
    <3> QED
      BY <1>2, <3>7 DEF f, p
  <2>7. CASE \A u \in Tables : ~AwaitedIn(p, u)
    <3>1. Hopes(p) = 0 /\ Given(p) = L - PoolSize
      BY <1>1, <2>2, <2>7, TwoTables, PoolNumbers DEF Hopes, Given
    <3>2. \A i \in DOMAIN p : p[i].state # "awaited"
      <4> SUFFICES ASSUME NEW i \in DOMAIN p, p[i].state = "awaited" PROVE FALSE
        OBVIOUS
      <4>1. p[i] \in Queries
        <5>1. p \in Seq(Queries)
          BY <1>2
        <5> QED
          BY <5>1
      <4> QED
        BY <2>7, <4>1 DEF AwaitedIn, Queries
    <3>3. Given(p) <= PoolSize + RecycleAfter - 2
      <4>1. CASE Hopes(q) <= 1
        BY <1>1, <2>5, <3>1, <4>1, PoolNumbers
      <4>2. CASE Hopes(q) = 2
        <5>1. AwaitedIn(q, "quote") /\ AwaitedIn(q, "snapshot")
          BY <4>2 DEF Hopes
        <5>2. PICK u \in Tables : u # t /\ AwaitedIn(q, u)
          BY <5>1, TwoTables
        <5>3. PICK j \in DOMAIN q : q[j].table = u /\ q[j].state = "awaited"
          BY <5>2 DEF AwaitedIn
        <5>4. j <= PoolSize
          <6> SUFFICES ASSUME j > PoolSize PROVE FALSE
            BY <1>1, PoolNumbers
          <6>1. j - PoolSize \in DOMAIN p /\ (j - PoolSize) + PoolSize = j
            BY <1>1, <2>2, PoolNumbers
          <6>2. p[j - PoolSize] = f[j]
            BY <2>2, <6>1
          <6>3. f[j].table = u /\ f[j].state = "awaited"
            BY <1>1, <5>2, <5>3
          <6> QED
            BY <2>7, <6>1, <6>2, <6>3 DEF AwaitedIn
        <5>5. Given(q) - r <= Reach(j) - 1 /\ Reach(j) = PoolSize
          BY <1>1, <5>3, <5>4, ReachFacts DEF PoolOK
        <5> QED
          BY <1>1, <2>5, <3>1, <4>2, <5>5, PoolNumbers
      <4> QED
        BY <2>5, <4>1, <4>2
    <3>4. Given(p) - 0 = Given(p)
      BY <1>1, <3>1, PoolNumbers
    <3>5. PoolOK(p, F \ {t}, 0)
      BY <2>3, <3>2, <3>3, <3>4 DEF PoolOK
    <3> QED
      BY <1>2, <3>5 DEF f, p
  <2> QED
    BY <2>6, <2>7
<1> QED
  BY <1>1, <1>3, <1>4, PoolNumbers

\* The queries in the pool are bounded at any moment.
LEMMA PoolBounded ==
  ASSUME NEW q \in Seq(Queries), NEW F, NEW r \in 0..(RecycleAfter - 1), PoolOK(q, F, r)
  PROVE  Len(q) <= PoolSize + 2 * RecycleAfter - 1
<1>1. /\ Hopes(q) \in {0, 1, 2} /\ Given(q) = Len(q) - Hopes(q) /\ Len(q) \in Nat
      /\ Given(q) - r <= PoolSize + RecycleAfter - 2
  BY HopeFacts DEF PoolOK
<1> QED
  BY <1>1, PoolNumbers

-----------------------------------------------------------------------------
(* WriteBehind: the steps *)

Flushed == {t \in Tables : batch[t] # <<>>}

TapeInv == CountersAgree /\ RowsInv /\ PoolOK(pool, Flushed, timeoutRun)

LEMMA TapeInit == Init => TapeInv
<1> SUFFICES ASSUME Init PROVE TapeInv
  OBVIOUS
<1>1. CountersAgree
  <2>1. timeoutRun = 0 /\ failures = 0 /\ gated = FALSE
    BY DEF Init
  <2>2. DegradedAfter + DownAfter \in Nat
    BY WriteBehindAssumption DEF WriteBehindAssumption
  <2>3. 0 \in 0..(RecycleAfter - 1) /\ 0 \in 0..FailureCap /\ 0 >= 0
    BY <2>2, PoolNumbers DEF FailureCap
  <2> QED
    BY <2>1, <2>3 DEF CountersAgree
<1>2. RowsInv
  <2>1. \A t \in Tables : pending[t] = <<>> /\ batch[t] = <<>>
    BY DEF Init
  <2>2. \A S : <<>> \in Seq(S)
    OBVIOUS
  <2>3. IsInjective(<<>>) /\ Len(<<>>) = 0
    BY DEF IsInjective
  <2>4. BuffersTyped
    BY <2>1, <2>2, <2>3, WriteBehindAssumption DEF Init, BuffersTyped, WriteBehindAssumption
  <2>5. SetsTyped /\ NothingLostSilently
    BY <2>2 DEF Init, SetsTyped, NothingLostSilently
  <2> QED
    BY <2>4, <2>5 DEF RowsInv
<1>3. PoolOK(pool, Flushed, timeoutRun)
  <2>1. pool = <<>> /\ timeoutRun = 0
    BY DEF Init
  <2>2. DOMAIN pool = {} /\ Given(pool) = 0
    BY <2>1 DEF Given, Hopes, AwaitedIn
  <2> QED
    BY <2>1, <2>2, PoolNumbers DEF PoolOK, LastOfTable
<1> QED
  BY <1>1, <1>2, <1>3 DEF TapeInv

\* Rows of a batch are rows.
LEMMA BatchRows ==
  ASSUME BuffersTyped, NEW t \in Tables
  PROVE  ToSet(batch[t]) \in SUBSET Rows /\ ToSet(batch[t]) \subseteq RowsOf[t]
<1>1. batch[t] \in Seq(RowsOf[t]) /\ RowsOf[t] \subseteq Rows
  BY TwoTables DEF BuffersTyped
<1> DEFINE s == batch[t]
<1> HIDE DEF s
<1>2. s \in Seq(RowsOf[t]) => ToSet(s) \subseteq RowsOf[t]
  BY DEF ToSet
<1> QED
  BY <1>1, <1>2 DEF s

LEMMA SettleKeeps ==
  ASSUME RowsInv, NEW t \in Tables, NEW rows, rows = <<>> \/ rows = batch[t],
         NEW rest \in Seq(Queries), NEW r \in Nat, PoolOK(rest, Flushed \ {t}, r),
         Settle(t, rows, rest),
         stored \subseteq stored', stored' \subseteq Rows,
         ToSet(batch[t]) \subseteq ToSet(rows) \cup stored'
  PROVE  RowsInv' /\ PoolOK(pool', Flushed', r)
<1>1. /\ BuffersTyped'
      /\ dropped' = dropped \cup Dropped(t, rows) /\ Dropped(t, rows) \subseteq RowsOf[t]
      /\ timer' = (timer \/ Kept(t, rows) # <<>>)
      /\ accepted' = accepted
      /\ \A u \in Tables : Buffered(u) \subseteq Buffered(u)' \cup ToSet(batch'[u]) \cup dropped'
      /\ \A u \in Tables \ {t} : batch[u] # <<>> => batch'[u] = batch[u]
      /\ \A u \in Tables \ {t} : batch[u] = <<>> =>
           ToSet(batch[u]) \subseteq ToSet(batch'[u])
      /\ ToSet(rows) \subseteq Buffered(t)' \cup dropped'
      /\ batch'[t] = <<>>
      /\ \A u \in Tables \ {t} : batch'[u] = batch[u] \/ batch'[u] # <<>>
      /\ \/ pool' = rest /\ \A u \in Tables \ {t} : batch'[u] = batch[u]
         \/ /\ t = "quote" /\ batch["snapshot"] = <<>> /\ batch'["snapshot"] # <<>>
            /\ pool' = Append(rest, Query("snapshot", ToSet(batch'["snapshot"])))
  BY SettleRows DEF RowsInv
<1>2. NothingLostSilently'
  <2> SUFFICES ASSUME NEW u \in Tables, NEW x \in accepted \cap RowsOf[u]
               PROVE  x \in Buffered(u)' \cup ToSet(batch'[u]) \cup stored' \cup dropped'
    BY <1>1 DEF NothingLostSilently
  <2>1. x \in Buffered(u) \cup ToSet(batch[u]) \cup stored \cup dropped
    BY DEF RowsInv, NothingLostSilently
  <2>2. CASE x \in Buffered(u)
    BY <1>1, <2>2
  <2>3. CASE x \in ToSet(batch[u]) /\ u # t
    BY <1>1, <2>3
  <2>4. CASE x \in ToSet(batch[u]) /\ u = t
    BY <1>1, <2>4
  <2>5. CASE x \in stored \/ x \in dropped
    BY <1>1, <2>5
  <2> QED
    BY <2>1, <2>2, <2>3, <2>4, <2>5
<1>3. /\ pool' \in Seq(Queries)
      /\ PoolOK(pool', Flushed', r)
  <2>1. CASE pool' = rest /\ \A u \in Tables \ {t} : batch'[u] = batch[u]
    <3>1. Flushed' = Flushed \ {t}
      BY <1>1, <2>1 DEF Flushed
    <3> QED
      BY <2>1, <3>1
  <2>2. CASE /\ t = "quote" /\ batch["snapshot"] = <<>> /\ batch'["snapshot"] # <<>>
             /\ pool' = Append(rest, Query("snapshot", ToSet(batch'["snapshot"])))
    <3>1. Flushed' = (Flushed \ {t}) \cup {"snapshot"} /\ "snapshot" \notin Flushed \ {t}
      BY <1>1, <2>2, TwoTables DEF Flushed
    <3>2. "snapshot" \in Tables
      BY TwoTables
    <3>3. ToSet(batch'["snapshot"]) \in SUBSET Rows
      <4>1. batch'["snapshot"] \in Seq(RowsOf["snapshot"]) /\ RowsOf["snapshot"] \subseteq Rows
        BY <1>1, <3>2, TwoTables DEF BuffersTyped
      <4> DEFINE s == batch'["snapshot"]
      <4> HIDE DEF s
      <4>2. s \in Seq(RowsOf["snapshot"]) => ToSet(s) \subseteq RowsOf["snapshot"]
        BY DEF ToSet
      <4> QED
        BY <4>1, <4>2 DEF s
    <3> QED
      BY <2>2, <3>1, <3>2, <3>3, QueryJoins
  <2> QED
    BY <1>1, <2>1, <2>2
<1>4. SetsTyped'
  <2>1. dropped' \subseteq Rows
    BY <1>1, TwoTables DEF RowsInv, SetsTyped
  <2>2. timer' \in BOOLEAN
    BY <1>1
  <2> QED
    BY <1>1, <1>3, <2>1, <2>2 DEF RowsInv, SetsTyped
<1> QED
  BY <1>1, <1>2, <1>3, <1>4 DEF RowsInv

LEMMA FlushKeeps ==
  ASSUME TapeInv, NEW t \in Tables, FlushEnds(t)
  PROVE  RowsInv' /\ PoolOK(pool', Flushed', timeoutRun')
<1> DEFINE r == timeoutRun
<1>0. /\ r \in Nat /\ r < RecycleAfter /\ pool \in Seq(Queries) /\ RowsInv
      /\ PoolOK(pool, Flushed, r) /\ r \in 0..(RecycleAfter - 1)
      /\ stored \subseteq Rows /\ ToSet(batch[t]) \subseteq Rows
  BY PoolNumbers, BatchRows DEF TapeInv, CountersAgree, RowsInv, SetsTyped
<1>1. CASE FlushOk(t)
  <2>1. PICK i \in DOMAIN pool : Connected(t, i) /\ Settle(t, <<>>, RemoveAt(pool, i))
    BY <1>1 DEF FlushOk
  <2>2. /\ pool[i].state = "awaited" /\ pool[i].table = t /\ i <= PoolSize
        /\ stored' = stored \cup ToSet(batch[t]) /\ timeoutRun' = 0
    BY <1>1, <2>1 DEF FlushOk, Connected, Awaits
  <2>3. RemoveAt(pool, i) \in Seq(Queries) /\ PoolOK(RemoveAt(pool, i), Flushed \ {t}, 0)
    BY <1>0, <2>2, AwaitedLeaves, RemoveFacts
  <2>4. /\ stored \subseteq stored' /\ stored' \subseteq Rows
        /\ ToSet(batch[t]) \subseteq ToSet(<<>>) \cup stored'
    BY <1>0, <2>2
  <2>5. RowsInv' /\ PoolOK(pool', Flushed', 0)
    BY <1>0, <2>1, <2>3, <2>4, SettleKeeps
  <2> QED
    BY <2>2, <2>5
<1>2. CASE FlushFails(t)
  <2>0. stored' = stored /\ timeoutRun' = r
    BY <1>2 DEF FlushFails
  <2>1. ASSUME NEW i \in DOMAIN pool, Connected(t, i), Settle(t, batch[t], RemoveAt(pool, i))
        PROVE  RowsInv' /\ PoolOK(pool', Flushed', r)
    <3>1. pool[i].state = "awaited" /\ pool[i].table = t
      BY <2>1 DEF Connected, Awaits
    <3>2. RemoveAt(pool, i) \in Seq(Queries) /\ PoolOK(RemoveAt(pool, i), Flushed \ {t}, r)
      BY <1>0, <3>1, AwaitedLeaves, RemoveFacts
    <3> QED
      BY <1>0, <2>0, <2>1, <3>2, SettleKeeps
  <2>2. ASSUME CutOff(t), Settle(t, batch[t], pool)
        PROVE  RowsInv' /\ PoolOK(pool', Flushed', r)
    <3>1. PoolOK(pool, Flushed \ {t}, r)
      BY <1>0, <2>2, CutOffEnds DEF CutOff, Awaits, AwaitedIn
    <3> QED
      BY <1>0, <2>0, <2>2, <3>1, SettleKeeps
  <2> QED
    BY <1>2, <2>0, <2>1, <2>2 DEF FlushFails
<1>3. CASE FlushTimesOut(t)
  <2>0. GivenUp(t) = Forsaken(pool, t)
    BY DEF GivenUp, Forsaken, Awaits
  <2>1. /\ stored' = stored
        /\ timeoutRun' = IF r + 1 >= RecycleAfter THEN 0 ELSE r + 1
        /\ Settle(t, batch[t], IF r + 1 >= RecycleAfter THEN After(Forsaken(pool, t), PoolSize)
                               ELSE Forsaken(pool, t))
    BY <1>3, <2>0 DEF FlushTimesOut
  <2>2. CASE r + 1 >= RecycleAfter
    <3>1. r = RecycleAfter - 1 /\ timeoutRun' = 0
          /\ Settle(t, batch[t], After(Forsaken(pool, t), PoolSize))
      BY <1>0, <2>1, <2>2, PoolNumbers
    <3>2. /\ After(Forsaken(pool, t), PoolSize) \in Seq(Queries)
          /\ PoolOK(After(Forsaken(pool, t), PoolSize), Flushed \ {t}, 0)
      BY <1>0, <3>1, PoolReleased
    <3>3. RowsInv' /\ PoolOK(pool', Flushed', 0)
      BY <1>0, <2>1, <3>1, <3>2, SettleKeeps
    <3> QED
      BY <3>1, <3>3
  <2>3. CASE ~(r + 1 >= RecycleAfter)
    <3>1. timeoutRun' = r + 1 /\ Settle(t, batch[t], Forsaken(pool, t)) /\ r + 1 \in Nat
      BY <1>0, <2>1, <2>3
    <3>2. /\ Forsaken(pool, t) \in Seq(Queries)
          /\ PoolOK(Forsaken(pool, t), Flushed \ {t}, r + 1)
      BY <1>0, FlushForsakes, ForsakenFacts
    <3>3. RowsInv' /\ PoolOK(pool', Flushed', r + 1)
      BY <1>0, <2>1, <3>1, <3>2, SettleKeeps
    <3> QED
      BY <3>1, <3>3
  <2> QED
    BY <2>2, <2>3
<1> QED
  BY <1>1, <1>2, <1>3 DEF FlushEnds

\* A row that is not in the buffer joins it.
LEMMA AppendRow ==
  ASSUME NEW S, NEW s \in Seq(S), IsInjective(s), NEW x \in S, x \notin ToSet(s)
  PROVE  /\ Append(s, x) \in Seq(S) /\ IsInjective(Append(s, x))
         /\ ToSet(Append(s, x)) = ToSet(s) \cup {x}
<1> DEFINE q == Append(s, x)
           N == Len(s)
<1>1. /\ q \in Seq(S) /\ N \in Nat /\ Len(q) = N + 1 /\ q[N + 1] = x
      /\ \A i \in 1..N : q[i] = s[i]
      /\ DOMAIN s = 1..N /\ DOMAIN q = 1..(N + 1)
  OBVIOUS
<1> HIDE DEF q
<1>2. 1..(N + 1) = 1..N \cup {N + 1} /\ N + 1 \notin 1..N
  BY <1>1
<1>3. \A i \in 1..N : s[i] # x
  BY <1>1 DEF ToSet
<1>4. ToSet(q) = ToSet(s) \cup {x}
  BY <1>1, <1>2 DEF ToSet
<1>5. IsInjective(q)
  BY <1>1, <1>2, <1>3 DEF IsInjective
<1> QED
  BY <1>1, <1>4, <1>5 DEF q

LEMMA IngestKeeps ==
  ASSUME TapeInv, NEW t \in Tables, NEW x \in RowsOf[t], Ingest(t, x)
  PROVE  RowsInv' /\ PoolOK(pool', Flushed', timeoutRun')
<1> DEFINE p == pending[t]
           q == IF x \in Buffered(t) THEN p ELSE Append(p, x)
<1>1. /\ pending' = [pending EXCEPT ![t] = q]
      /\ accepted' = accepted \cup {x} /\ timer' = TRUE
      /\ UNCHANGED <<batch, pool, timeoutRun, stored, dropped>>
  BY DEF Ingest
<1>2. p \in Seq(RowsOf[t]) /\ IsInjective(p) /\ Buffered(t) = ToSet(p)
  BY DEF TapeInv, RowsInv, BuffersTyped, Buffered
<1>3. q \in Seq(RowsOf[t]) /\ IsInjective(q) /\ ToSet(q) = ToSet(p) \cup {x}
  <2>1. CASE x \in Buffered(t)
    BY <1>2, <2>1
  <2>2. CASE x \notin Buffered(t)
    <3>1. q = Append(p, x)
      BY <2>2
    <3> HIDE DEF p, q
    <3> QED
      BY <1>2, <2>2, <3>1, AppendRow
  <2> QED
    BY <2>1, <2>2
<1> HIDE DEF p, q
<1>4. /\ pending' = [u \in Tables |-> pending'[u]]
      /\ pending'[t] = q /\ \A u \in Tables \ {t} : pending'[u] = pending[u]
  BY <1>1 DEF TapeInv, RowsInv, BuffersTyped
<1>5. BuffersTyped'
  BY <1>1, <1>3, <1>4 DEF TapeInv, RowsInv, BuffersTyped
<1>6. \A u \in Tables : Buffered(u) \subseteq Buffered(u)'
  BY <1>2, <1>3, <1>4 DEF Buffered
<1>7. x \in Buffered(t)'
  BY <1>3, <1>4 DEF Buffered
<1>8. \A u \in Tables \ {t} : x \notin RowsOf[u]
  BY TwoTables, WriteBehindAssumption DEF WriteBehindAssumption
<1>9. NothingLostSilently'
  BY <1>1, <1>6, <1>7, <1>8 DEF TapeInv, RowsInv, NothingLostSilently
<1>10. SetsTyped' /\ Flushed' = Flushed
  BY <1>1, TwoTables DEF TapeInv, RowsInv, SetsTyped, Flushed
<1> QED
  BY <1>1, <1>5, <1>9, <1>10 DEF TapeInv, RowsInv

LEMMA LaunchKeeps ==
  ASSUME TapeInv, NEW t \in Tables, CanStart(t), Launch(t), timer' \in BOOLEAN,
         UNCHANGED <<timeoutRun, stored, dropped, accepted>>
  PROVE  RowsInv' /\ PoolOK(pool', Flushed', timeoutRun') /\ batch'[t] # <<>>
<1> DEFINE p == pending[t]
           a == First(p, MaxBatch)
           b == After(p, MaxBatch)
<1>1. p \in Seq(RowsOf[t]) /\ IsInjective(p) /\ Buffered(t) = ToSet(p) /\ p # <<>>
      /\ batch[t] = <<>>
  BY DEF TapeInv, RowsInv, BuffersTyped, Buffered, CanStart, Flushing
<1>2. MaxBatch \in Nat /\ MaxBatch >= 1
  BY WriteBehindAssumption DEF WriteBehindAssumption
<1>3. /\ a \in Seq(RowsOf[t]) /\ b \in Seq(RowsOf[t]) /\ Len(a) <= MaxBatch /\ a # <<>>
      /\ ToSet(p) = ToSet(a) \cup ToSet(b) /\ IsInjective(a) /\ IsInjective(b)
  <2> HIDE DEF p
  <2> QED
    BY <1>1, <1>2, CutRows
<1>4. /\ batch' = [batch EXCEPT ![t] = a] /\ pending' = [pending EXCEPT ![t] = b]
      /\ pool' = Append(pool, Query(t, ToSet(batch'[t])))
  BY DEF Launch
<1> HIDE DEF p, a, b
<1>5. /\ pending' = [u \in Tables |-> pending'[u]] /\ batch' = [u \in Tables |-> batch'[u]]
      /\ pending'[t] = b /\ \A u \in Tables \ {t} : pending'[u] = pending[u]
      /\ batch'[t] = a /\ \A u \in Tables \ {t} : batch'[u] = batch[u]
  BY <1>4 DEF TapeInv, RowsInv, BuffersTyped
<1>6. BuffersTyped'
  BY <1>3, <1>5 DEF TapeInv, RowsInv, BuffersTyped
<1>7. \A u \in Tables : Buffered(u) \cup ToSet(batch[u]) \subseteq Buffered(u)' \cup ToSet(batch'[u])
  <2> SUFFICES ASSUME NEW u \in Tables
               PROVE  Buffered(u) \cup ToSet(batch[u]) \subseteq Buffered(u)' \cup ToSet(batch'[u])
    OBVIOUS
  <2>0. ToSet(<<>>) = {}
    BY DEF ToSet
  <2>1. CASE u = t
    BY <1>1, <1>3, <1>5, <2>0, <2>1 DEF Buffered
  <2>2. CASE u # t
    BY <1>5, <2>2 DEF Buffered
  <2> QED
    BY <2>1, <2>2
<1>8. NothingLostSilently'
  BY <1>7 DEF TapeInv, RowsInv, NothingLostSilently
<1>9. ToSet(a) \in SUBSET Rows
  <2>1. a \in Seq(RowsOf[t]) /\ RowsOf[t] \subseteq Rows
    BY <1>3, TwoTables
  <2> QED
    BY <2>1 DEF ToSet
<1>10. pool' \in Seq(Queries) /\ PoolOK(pool', Flushed', timeoutRun)
  <2>1. Flushed' = Flushed \cup {t} /\ t \notin Flushed
    BY <1>1, <1>3, <1>5 DEF Flushed
  <2>2. pool \in Seq(Queries) /\ timeoutRun \in Nat /\ PoolOK(pool, Flushed, timeoutRun)
    BY PoolNumbers DEF TapeInv, RowsInv, SetsTyped, CountersAgree
  <2> QED
    BY <1>4, <1>5, <1>9, <2>1, <2>2, QueryJoins
<1>11. SetsTyped'
  BY <1>10 DEF TapeInv, RowsInv, SetsTyped
<1> QED
  BY <1>3, <1>5, <1>6, <1>8, <1>10, <1>11 DEF RowsInv

\* Steps that touch neither a buffer nor a batch.
LEMMA OthersKeep ==
  ASSUME TapeInv, UNCHANGED <<pending, batch, timeoutRun, dropped, accepted>>,
         timer' \in BOOLEAN, stored \subseteq stored', stored' \subseteq Rows,
         pool' \in Seq(Queries), PoolOK(pool', Flushed, timeoutRun)
  PROVE  RowsInv' /\ PoolOK(pool', Flushed', timeoutRun')
<1>1. BuffersTyped' /\ Flushed' = Flushed /\ \A t \in Tables : Buffered(t)' = Buffered(t)
  BY DEF TapeInv, RowsInv, BuffersTyped, Flushed, Buffered
<1>2. NothingLostSilently'
  BY <1>1 DEF TapeInv, RowsInv, NothingLostSilently
<1>3. SetsTyped'
  BY DEF TapeInv, RowsInv, SetsTyped
<1> QED
  BY <1>1, <1>2, <1>3 DEF RowsInv

LEMMA TapeStep == TapeInv /\ [Next]_vars => TapeInv'
<1> SUFFICES ASSUME TapeInv, [Next]_vars PROVE TapeInv'
  OBVIOUS
<1>0. CountersAgree'
  BY StepCounts DEF TapeInv
<1>1. pool \in Seq(Queries) /\ PoolOK(pool, Flushed, timeoutRun) /\ timer \in BOOLEAN
      /\ stored \subseteq Rows /\ timeoutRun \in Nat
  BY PoolNumbers DEF TapeInv, RowsInv, SetsTyped, CountersAgree
<1>2. ASSUME NEW t \in Tables, SomeIngest(t) PROVE TapeInv'
  BY <1>0, <1>2, IngestKeeps DEF SomeIngest, TapeInv
<1>3. ASSUME NEW t \in Tables, FlushEnds(t) PROVE TapeInv'
  BY <1>0, <1>3, FlushKeeps DEF TapeInv
<1>4. CASE TimerFires
  <2>1. timer' = FALSE /\ UNCHANGED <<timeoutRun, stored, dropped, accepted>>
    BY <1>4 DEF TimerFires
  <2>2. ASSUME NEW t \in Tables, CanStart(t), Launch(t) PROVE TapeInv'
    BY <1>0, <2>1, <2>2, LaunchKeeps DEF TapeInv
  <2>3. CASE UNCHANGED <<pending, batch, pool>>
    BY <1>0, <1>1, <2>1, <2>3, OthersKeep DEF TapeInv
  <2> QED
    BY <1>4, <2>2, <2>3, TwoTables DEF TimerFires
<1>5. CASE GateOpens \/ UNCHANGED vars
  <2>1. UNCHANGED <<pending, batch, timer, timeoutRun, pool, stored, dropped, accepted>>
    BY <1>5 DEF GateOpens, vars
  <2> QED
    BY <1>0, <1>1, <2>1, OthersKeep DEF TapeInv
<1>6. ASSUME NEW i \in DOMAIN pool, LateAnswer(i) PROVE TapeInv'
  <2>1. /\ pool[i].state # "awaited" /\ pool' = RemoveAt(pool, i)
        /\ stored' \in {stored, stored \cup pool[i].rows}
        /\ UNCHANGED <<pending, batch, timer, timeoutRun, dropped, accepted>>
    BY <1>6 DEF LateAnswer
  <2>2. pool[i].rows \subseteq Rows
    <3>1. pool[i] \in Queries
      BY <1>1
    <3> QED
      BY <3>1 DEF Queries
  <2>3. pool' \in Seq(Queries) /\ PoolOK(pool', Flushed, timeoutRun)
    BY <1>1, <2>1, LateLeaves, RemoveFacts
  <2> QED
    BY <1>0, <1>1, <2>1, <2>2, <2>3, OthersKeep DEF TapeInv
<1> QED
  BY <1>2, <1>3, <1>4, <1>5, <1>6 DEF Next

\* Every row waits at most once in its buffer, and every counter, batch and query keeps
\* its kind and its limit.
THEOREM TapeWellTyped == Spec => []TypeOK
<1>1. TapeInv => TypeOK
  BY DEF TapeInv, CountersAgree, RowsInv, BuffersTyped, SetsTyped, TypeOK
<1> QED
  BY <1>1, TapeInit, TapeStep, PTL DEF Spec

\* ingestQuotes, requeueQuoteRows: whatever fails, times out, is cut off by the other
\* table's release or answered late, a row that was accepted is waiting, in flight, in the
\* table, or was dropped and counted.
THEOREM NothingIsLostSilently == Spec => []NothingLostSilently
<1>1. TapeInv => NothingLostSilently
  BY DEF TapeInv, RowsInv
<1> QED
  BY <1>1, TapeInit, TapeStep, PTL DEF Spec

\* releasePoolConnections: what the two flushes have given up on never piles up behind the
\* pool, though a success of either starts the count of timeouts again.
THEOREM WaitersAreBounded == Spec => []AbandonedBounded
<1>1. TapeInv => AbandonedBounded
  BY PoolBounded DEF TapeInv, CountersAgree, RowsInv, SetsTyped, AbandonedBounded
<1> QED
  BY <1>1, TapeInit, TapeStep, PTL DEF Spec

\* requeueQuoteRows, requeueSnapshotRows: a batch that is put back never takes its buffer
\* past the maximum, nor a buffer already past it any further.
THEOREM RequeuesStayBounded == Spec => RequeueStaysBounded
<1>1. TapeInv /\ [Next]_vars =>
        [\A t \in Tables :
           Flushing(t) /\ batch'[t] = <<>> =>
             \/ Len(pending'[t]) <= Len(pending[t])
             \/ Len(pending'[t]) <= MaxPending]_vars
  <2> SUFFICES ASSUME TapeInv, Next, NEW u \in Tables, batch[u] # <<>>, batch'[u] = <<>>
               PROVE  \/ Len(pending'[u]) <= Len(pending[u])
                      \/ Len(pending'[u]) <= MaxPending
    BY DEF Flushing
  <2>0. BuffersTyped
    BY DEF TapeInv, RowsInv
  <2>1. ASSUME NEW t \in Tables, NEW rows, rows = <<>> \/ rows = batch[t], NEW rest,
               Settle(t, rows, rest)
        PROVE  Len(pending'[u]) <= Len(pending[u]) \/ Len(pending'[u]) <= MaxPending
    <3>1. /\ pending'[t] = Kept(t, rows)
          /\ \A v \in Tables \ {t} : batch[v] # <<>> => batch'[v] = batch[v]
      BY <2>0, <2>1, SettleRows
    <3>2. u = t
      BY <3>1
    <3>3. rows \in Seq(RowsOf[t]) /\ IsInjective(rows)
      <4>1. <<>> \in Seq(RowsOf[t]) /\ IsInjective(<<>>)
        BY DEF IsInjective
      <4> QED
        BY <2>0, <2>1, <4>1 DEF BuffersTyped
    <3> QED
      BY <2>0, <3>1, <3>2, <3>3, PutBack
  <2>2. ASSUME NEW t \in Tables, FlushEnds(t)
        PROVE  Len(pending'[u]) <= Len(pending[u]) \/ Len(pending'[u]) <= MaxPending
    <3>1. \E rows, rest : (rows = <<>> \/ rows = batch[t]) /\ Settle(t, rows, rest)
      BY <2>2 DEF FlushEnds, FlushOk, FlushFails, FlushTimesOut
    <3> QED
      BY <2>1, <3>1
  <2>3. ASSUME NEW t \in Tables, CanStart(t), Launch(t) PROVE FALSE
    <3>1. batch' = [batch EXCEPT ![t] = First(pending[t], MaxBatch)] /\ batch[t] = <<>>
          /\ pending[t] # <<>>
      BY <2>3 DEF Launch, CanStart, Flushing
    <3>2. u # t
      BY <3>1
    <3> QED
      BY <2>0, <3>1, <3>2 DEF BuffersTyped
  <2>4. batch' # batch
    OBVIOUS
  <2> QED
    BY <2>2, <2>3, <2>4, TwoTables
    DEF Next, SomeIngest, Ingest, TimerFires, GateOpens, LateAnswer
<1> QED
  BY <1>1, TapeInit, TapeStep, PTL DEF Spec, RequeueStaysBounded

-----------------------------------------------------------------------------
(* WriteBehind: who forgets a row, and who remembers it *)

\* Rows wait in the buffer of t, and nothing that is set or under way will turn to them:
\* no timer, no flush of their own, and no quote flush that goes on with the snapshots.
Forgotten(t) ==
  /\ pending[t] # <<>> /\ ~timer /\ ~Flushing(t)
  /\ ~(t = "snapshot" /\ Flushing("quote"))

ForgottenByTheGate ==
  [][\A t \in Tables : ~Forgotten(t) /\ Forgotten(t)' => gated /\ TimerFires]_vars

RescuedByTraffic ==
  [][\A t \in Tables : Forgotten(t) /\ ~Forgotten(t)' =>
       \/ \E u \in Tables : SomeIngest(u)
       \/ \E u \in Tables \ {t} : Flushing(u) /\ ~Flushing(u)' /\ timer']_vars

\* The end of a flush forgets nothing: the timer is set for what it leaves in its own
\* buffer, and a quote flush turns to the snapshots.  That timer serves both tables.
LEMMA SettleForgets ==
  ASSUME BuffersTyped, timer \in BOOLEAN, NEW t \in Tables, Flushing(t),
         NEW rows, rows = <<>> \/ rows = batch[t], NEW rest, Settle(t, rows, rest),
         NEW u \in Tables
  PROVE  /\ Forgotten(u)' => Forgotten(u)
         /\ Forgotten(u) /\ ~Forgotten(u)' => u # t /\ ~Flushing(t)' /\ timer'
<1> DEFINE after == [pending EXCEPT ![t] = @ \o First(Homeless(t, rows), Room(t))]
           then == First(after["snapshot"], MaxBatch)
           goOn == t = "quote" /\ ~Flushing("snapshot") /\ then # <<>>
<1>1. /\ batch'[t] = <<>> /\ pending'[t] = Kept(t, rows)
      /\ timer' = (timer \/ pending'[t] # <<>>)
      /\ \A v \in Tables \ {t} : batch[v] # <<>> => batch'[v] = batch[v]
  BY SettleRows
<1>2. \/ goOn /\ batch' = [batch EXCEPT ![t] = <<>>, !["snapshot"] = then]
      \/ ~goOn /\ pending' = after /\ batch' = [batch EXCEPT ![t] = <<>>]
  BY DEF Settle
<1>3. \A v \in Tables \ {t} : after[v] = pending[v] /\ pending[v] \in Seq(RowsOf[v])
  BY DEF BuffersTyped
<1>4. ~Forgotten(t) /\ ~Forgotten(t)'
  BY <1>1 DEF Forgotten, Flushing
<1>5. CASE u = t
  BY <1>4, <1>5
<1>6. CASE u # t
  <2>1. CASE goOn
    <3>1. t = "quote" /\ u = "snapshot" /\ batch' = [batch EXCEPT ![t] = <<>>, !["snapshot"] = then]
          /\ then # <<>>
      BY <1>2, <1>6, <2>1, TwoTables
    <3>2. batch'[u] # <<>>
      BY <3>1 DEF BuffersTyped
    <3> QED
      BY <3>1, <3>2 DEF Forgotten, Flushing
  <2>2. CASE ~goOn
    <3>1. pending'[u] = pending[u] /\ batch'[u] = batch[u]
      BY <1>2, <1>3, <1>6, <2>2 DEF BuffersTyped
    <3>2. CASE u = "quote"
      BY <1>1, <1>6, <3>1, <3>2 DEF Forgotten, Flushing
    <3>3. CASE u = "snapshot"
      <4>1. t = "quote"
        BY <1>6, <3>3, TwoTables
      <4>2. pending[u] # <<>> => Flushing(u)
        <5>1. MaxBatch \in Nat /\ MaxBatch >= 1
          BY WriteBehindAssumption DEF WriteBehindAssumption
        <5>2. pending[u] # <<>> => then # <<>>
          BY <1>3, <1>6, <3>3, <5>1, CutRows
        <5> QED
          BY <2>2, <3>3, <4>1, <5>2
      <4> QED
        BY <3>1, <4>2 DEF Forgotten, Flushing
    <3> QED
      BY <3>2, <3>3, TwoTables
  <2> QED
    BY <2>1, <2>2
<1> QED
  BY <1>5, <1>6

LEMMA StepForgets ==
  ASSUME TapeInv, [Next]_vars, NEW t \in Tables
  PROVE  /\ ~Forgotten(t) /\ Forgotten(t)' => gated /\ TimerFires
         /\ Forgotten(t) /\ ~Forgotten(t)' =>
              \/ \E u \in Tables : SomeIngest(u)
              \/ \E u \in Tables \ {t} : Flushing(u) /\ ~Flushing(u)' /\ timer'
<1>0. BuffersTyped /\ timer \in BOOLEAN
  BY DEF TapeInv, RowsInv, SetsTyped
<1>1. ASSUME NEW u \in Tables, SomeIngest(u) PROVE timer' = TRUE
  BY <1>1 DEF SomeIngest, Ingest
<1>2. ASSUME NEW u \in Tables, FlushEnds(u)
      PROVE  /\ Forgotten(t)' => Forgotten(t)
             /\ Forgotten(t) /\ ~Forgotten(t)' => t # u /\ Flushing(u) /\ ~Flushing(u)' /\ timer'
  <2>1. Flushing(u)
    BY <1>2 DEF FlushEnds, FlushOk, FlushFails, FlushTimesOut
  <2>2. PICK rows, rest : (rows = <<>> \/ rows = batch[u]) /\ Settle(u, rows, rest)
    BY <1>2 DEF FlushEnds, FlushOk, FlushFails, FlushTimesOut
  <2> QED
    BY <1>0, <2>1, <2>2, SettleForgets
<1>3. CASE TimerFires
  <2>1. timer
    BY <1>3 DEF TimerFires
  <2>2. ~Forgotten(t)
    BY <2>1 DEF Forgotten
  <2>3. ASSUME ~gated PROVE ~Forgotten(t)'
    <3>1. ASSUME NEW u \in Tables, CanStart(u), Launch(u),
                 u = "snapshot" => ~CanStart("quote")
          PROVE  ~Forgotten(t)'
      <4>1. /\ batch'[u] # <<>>
            /\ \A v \in Tables \ {u} : batch'[v] = batch[v] /\ pending'[v] = pending[v]
        <5>1. batch' = [batch EXCEPT ![u] = First(pending[u], MaxBatch)]
              /\ pending' = [pending EXCEPT ![u] = After(pending[u], MaxBatch)]
          BY <3>1 DEF Launch
        <5>2. First(pending[u], MaxBatch) # <<>>
          <6>1. MaxBatch \in Nat /\ MaxBatch >= 1
            BY WriteBehindAssumption DEF WriteBehindAssumption
          <6>2. pending[u] \in Seq(RowsOf[u]) /\ pending[u] # <<>>
            BY <1>0, <3>1 DEF BuffersTyped, CanStart
          <6> QED
            BY <6>1, <6>2, CutRows
        <5> QED
          BY <1>0, <5>1, <5>2 DEF BuffersTyped
      <4>2. CASE u = t \/ u = "quote"
        BY <4>1, <4>2, TwoTables DEF Forgotten, Flushing
      <4>3. CASE u = "snapshot" /\ t = "quote"
        BY <3>1, <4>1, <4>3 DEF Forgotten, Flushing, CanStart
      <4> QED
        BY <4>2, <4>3, TwoTables
    <3>2. ASSUME ~CanStart("quote"), ~CanStart("snapshot"), UNCHANGED <<pending, batch>>
          PROVE  ~Forgotten(t)'
      BY <3>2, TwoTables DEF Forgotten, Flushing, CanStart
    <3> QED
      BY <1>3, <2>3, <3>1, <3>2, TwoTables DEF TimerFires
  <2> QED
    BY <1>3, <2>2, <2>3
<1>4. CASE GateOpens \/ (\E i \in DOMAIN pool : LateAnswer(i)) \/ UNCHANGED vars
  <2>1. UNCHANGED <<pending, batch, timer>>
    BY <1>4 DEF GateOpens, LateAnswer, vars
  <2> QED
    BY <2>1 DEF Forgotten, Flushing
<1> QED
  BY <1>1, <1>2, <1>3, <1>4 DEF Next, Forgotten

\* scheduleFlush, flushPending: rows come to wait with nothing on its way to them in one
\* way only, the timer that goes off inside the backoff gate; no failure, timeout, release,
\* late answer or overlap of the two flushes does it.
THEOREM OnlyTheGateForgets == Spec => ForgottenByTheGate
<1>1. TapeInv /\ [Next]_vars =>
        [\A t \in Tables : ~Forgotten(t) /\ Forgotten(t)' => gated /\ TimerFires]_vars
  BY StepForgets
<1> QED
  BY <1>1, TapeInit, TapeStep, PTL DEF Spec, ForgottenByTheGate

\* And nothing comes to their help but a tick, or a flush of the other table that ends
\* with rows left over: not the opening of the gate, not an answer that comes late.
THEOREM OnlyTrafficRescues == Spec => RescuedByTraffic
<1>1. TapeInv /\ [Next]_vars =>
        [\A t \in Tables : Forgotten(t) /\ ~Forgotten(t)' =>
           \/ \E u \in Tables : SomeIngest(u)
           \/ \E u \in Tables \ {t} : Flushing(u) /\ ~Flushing(u)' /\ timer']_vars
  BY StepForgets
<1> QED
  BY <1>1, TapeInit, TapeStep, PTL DEF Spec, RescuedByTraffic

-----------------------------------------------------------------------------
(* LeaseConnection *)

\* The installed connection was connected once, and while it lives nothing else
\* is being opened for the class.
ConnIsConnected ==
  conn # None => /\ ~Connecting(conn)
                 /\ socket[conn] # "dead" => opening = None

\* The part of LeaseTypeOK that relates the operations to the sockets.
OpsFollow ==
  \A o \in Ops :
    /\ op[o].at = "opening" <=> op[o].on \in Sockets /\ socket[op[o].on] \in {"pending", "doomed"}
    /\ op[o].at = "idle" <=> op[o].on = None

\* The rest of it.
Shapes ==
  /\ conn \in Sockets \cup {None} /\ opening \in Sockets \cup {None}
  /\ socket \in [Sockets -> SocketStates]
  /\ op \in [Ops -> OpStates]
  /\ last \in [Ops -> {"none", "ok", "failed"}]
  /\ faults \in 0..MaxFaults

ConnectionInv == Shapes /\ OpsFollow /\ OneOpening /\ ConnIsConnected

LEMMA TypeOKParts == LeaseTypeOK <=> Shapes /\ OpsFollow
BY DEF LeaseTypeOK, Shapes, OpsFollow, Connecting

LEMMA RecycleKeeps ==
  ASSUME ConnectionInv,
         NEW states \in [Sockets -> SocketStates],
         \A s \in Sockets : states[s] = "pending" => socket[s] = "pending",
         Recycle(states)
  PROVE  /\ conn' = None /\ opening' = None
         /\ socket' \in [Sockets -> SocketStates]
         /\ OneOpening' /\ ConnIsConnected'
<1>1. socket' \in [Sockets -> SocketStates]
  BY DEF Recycle, SocketStates
<1>2. \A s \in Sockets : socket'[s] # "pending"
  BY DEF Recycle, ConnectionInv, Shapes, OneOpening
<1>3. None \notin Sockets
  BY LeaseAssumption DEF LeaseAssumption
<1> QED BY <1>1, <1>2, <1>3 DEF Recycle, OneOpening, ConnIsConnected

\* Recycling leaves every connect that is under way under way.
LEMMA RecycleConnecting ==
  ASSUME ConnectionInv,
         NEW states \in [Sockets -> SocketStates],
         Recycle(states),
         conn # None => states[conn] \notin {"pending", "doomed"},
         NEW s \in Sockets
  PROVE  (socket'[s] \in {"pending", "doomed"}) <=> (states[s] \in {"pending", "doomed"})
<1>1. None \notin Sockets
  BY LeaseAssumption DEF LeaseAssumption
<1> QED BY <1>1 DEF Recycle

\* The operations that fail are idle, and the others follow their sockets still.
LEMMA FailOpsFollow ==
  ASSUME ConnectionInv, NEW os \in SUBSET Ops, FailOps(os),
         \A p \in Ops \ os : op[p].on \in Sockets =>
           ((socket'[op[p].on] \in {"pending", "doomed"}) <=> Connecting(op[p].on))
  PROVE  OpsFollow'
<1>n. None \notin Sockets
  BY LeaseAssumption DEF LeaseAssumption
<1>1. ASSUME NEW p \in Ops
      PROVE  /\ op'[p].at = "opening" <=>
                  op'[p].on \in Sockets /\ socket'[op'[p].on] \in {"pending", "doomed"}
             /\ op'[p].at = "idle" <=> op'[p].on = None
  <2>1. CASE p \in os
    <3>1. op'[p] = Idle
      BY <2>1 DEF FailOps
    <3> QED BY <3>1, <1>n DEF Idle
  <2>2. CASE p \notin os
    <3>1. op'[p] = op[p]
      BY <2>2 DEF FailOps
    <3> QED BY <2>2, <3>1 DEF ConnectionInv, OpsFollow, Connecting
  <2> QED BY <2>1, <2>2
<1> QED BY <1>1 DEF OpsFollow

LEMMA InitConnection == LeaseInit => ConnectionInv
<1>1. None \notin Sockets /\ MaxFaults \in Nat
  BY LeaseAssumption DEF LeaseAssumption
<1> QED BY <1>1 DEF LeaseInit, ConnectionInv, Shapes, OpsFollow, OneOpening, ConnIsConnected, Idle,
                    OpStates, SocketStates, Connecting

LEMMA StepConnection == ConnectionInv /\ [LeaseNext]_leaseVars => ConnectionInv'
<1> SUFFICES ASSUME ConnectionInv, [LeaseNext]_leaseVars PROVE ConnectionInv'
  OBVIOUS
<1>n. None \notin Sockets /\ MaxFaults \in Nat
  BY LeaseAssumption DEF LeaseAssumption
<1> USE DEF ConnectionInv, Shapes
<1>1. ASSUME NEW o \in Ops, Begin(o) PROVE ConnectionInv'
  <2>1. CASE conn # None /\ op' = [op EXCEPT ![o] = [at |-> "querying", on |-> conn]]
             /\ UNCHANGED <<conn, opening, socket, last, faults>>
    BY <2>1, <1>n DEF OpsFollow, OpStates, OneOpening, ConnIsConnected, Connecting
  <2>2. CASE conn = None /\ opening # None
             /\ op' = [op EXCEPT ![o] = [at |-> "opening", on |-> opening]]
             /\ UNCHANGED <<conn, opening, socket, last, faults>>
    BY <2>2, <1>n DEF OpsFollow, OpStates, OneOpening, ConnIsConnected, Connecting
  <2>3. ASSUME conn = None, opening = None, NEW s \in Unused,
               op' = [op EXCEPT ![o] = [at |-> "opening", on |-> s]],
               opening' = s, socket' = [socket EXCEPT ![s] = "pending"],
               UNCHANGED <<conn, last, faults>>
        PROVE  ConnectionInv'
    <3>1. s \in Sockets /\ \A p \in Ops : op[p].on # s
      BY DEF Unused
    <3>2. socket' \in [Sockets -> SocketStates] /\ op' \in [Ops -> OpStates]
      BY <2>3, <3>1 DEF SocketStates, OpStates
    <3>3. OneOpening' /\ ConnIsConnected'
      BY <2>3, <3>1, <1>n DEF OneOpening, ConnIsConnected
    <3>4. OpsFollow'
      BY <2>3, <3>1, <1>n DEF OpsFollow, OpStates
    <3> QED BY <2>3, <3>1, <3>2, <3>3, <3>4
  <2> QED BY <1>1, <2>1, <2>2, <2>3 DEF Begin
<1>2. ASSUME NEW s \in Sockets, Connect(s) PROVE ConnectionInv'
  <2>1. socket' \in [Sockets -> SocketStates] /\ op' \in [Ops -> OpStates]
    BY <1>2 DEF Connect, SocketStates, OpStates
  <2>2. OneOpening' /\ ConnIsConnected'
    BY <1>2, <1>n DEF Connect, OneOpening, ConnIsConnected, Connecting
  <2>3. OpsFollow'
    BY <1>2, <1>n DEF Connect, Connecting, On, OpsFollow, OpStates
  <2> QED BY <1>2, <2>1, <2>2, <2>3 DEF Connect
<1>3. ASSUME NEW s \in Sockets, Wedge(s) PROVE ConnectionInv'
  BY <1>3, <1>n DEF Wedge, OpsFollow, SocketStates, OneOpening, ConnIsConnected, Connecting
<1>4. ASSUME NEW o \in Ops, Complete(o) PROVE ConnectionInv'
  BY <1>4, <1>n DEF Complete, OpsFollow, OpStates, Idle, OneOpening, ConnIsConnected, Connecting
<1>5. ASSUME NEW s \in Sockets, ConnectFails(s) PROVE ConnectionInv'
  <2> DEFINE waiting == {o \in Ops : On(o, "opening", s)}
             states  == [socket EXCEPT ![s] = "dead"]
  <2>1. op' \in [Ops -> OpStates] /\ last' \in [Ops -> {"none", "ok", "failed"}]
    BY <1>5 DEF ConnectFails, FailOps, OpStates, Idle
  <2>2. states \in [Sockets -> SocketStates] /\ conn # s
    BY <1>5, <1>n DEF ConnectFails, SocketStates, ConnIsConnected, Connecting
  <2>0. FailOps(waiting) /\ waiting \in SUBSET Ops
    BY <1>5 DEF ConnectFails
  <2>w. ASSUME NEW p \in Ops \ waiting PROVE op[p].on # s
    <3>1. op[p].at = "opening" => op[p] = [at |-> "opening", on |-> op[p].on]
      BY DEF OpStates
    <3> QED BY <1>5, <3>1 DEF ConnectFails, OpsFollow, Connecting, On
  <2>3. CASE waiting # {} /\ Recycle(states)
    <3>1. OneOpening' /\ ConnIsConnected' /\ conn' = None /\ opening' = None
          /\ socket' \in [Sockets -> SocketStates]
      BY <2>2, <2>3, RecycleKeeps
    <3>2. \A t \in Sockets : (socket'[t] \in {"pending", "doomed"}) <=> Connecting(t) /\ t # s
      <4>1. conn # None => states[conn] \notin {"pending", "doomed"}
        BY <2>2 DEF ConnIsConnected, Connecting
      <4> QED BY <2>2, <2>3, <4>1, RecycleConnecting DEF Connecting
    <3>3. OpsFollow'
      BY <2>0, <2>w, <3>2, FailOpsFollow
    <3> QED BY <1>5, <2>1, <3>1, <3>3, <1>n DEF ConnectFails
  <2>4. CASE waiting = {} /\ socket' = states
             /\ opening' = (IF opening = s THEN None ELSE opening) /\ UNCHANGED conn
    <3>1. OneOpening' /\ ConnIsConnected'
      BY <2>2, <2>4, <1>n DEF OneOpening, ConnIsConnected, Connecting
    <3>2. \A t \in Sockets : (socket'[t] \in {"pending", "doomed"}) <=> Connecting(t) /\ t # s
      BY <2>4 DEF Connecting
    <3>3. OpsFollow'
      BY <2>0, <2>w, <3>2, FailOpsFollow
    <3> QED BY <1>5, <2>1, <2>2, <2>4, <3>1, <3>3, <1>n DEF ConnectFails
  <2> QED BY <1>5, <2>3, <2>4 DEF ConnectFails
<1>6. ASSUME NEW o \in Ops, FailOps({o}), Recycle(socket), faults' \in 0 .. MaxFaults
      PROVE  ConnectionInv'
  <2>1. op' \in [Ops -> OpStates] /\ last' \in [Ops -> {"none", "ok", "failed"}]
    BY <1>6 DEF FailOps, OpStates, Idle
  <2>2. OneOpening' /\ ConnIsConnected' /\ conn' = None /\ opening' = None
        /\ socket' \in [Sockets -> SocketStates]
    BY <1>6, RecycleKeeps
  <2>3. \A t \in Sockets : (socket'[t] \in {"pending", "doomed"}) <=> Connecting(t)
    <3>1. conn # None => socket[conn] \notin {"pending", "doomed"}
      BY DEF ConnIsConnected, Connecting
    <3> QED BY <1>6, <3>1, RecycleConnecting DEF Connecting
  <2>4. OpsFollow'
    BY <1>6, <2>3, FailOpsFollow
  <2> QED BY <1>6, <2>1, <2>2, <2>4
<1>7. ASSUME NEW o \in Ops, QueryFails(o) PROVE ConnectionInv'
  BY <1>6, <1>7 DEF QueryFails
<1>8. ASSUME NEW o \in Ops, GiveUp(o) PROVE ConnectionInv'
  <2>1. faults' \in 0 .. MaxFaults
    BY <1>8, <1>n DEF GiveUp
  <2> QED BY <1>6, <1>8, <2>1 DEF GiveUp
<1>9. CASE UNCHANGED leaseVars
  BY <1>9 DEF leaseVars, OpsFollow, OneOpening, ConnIsConnected, Connecting
<1> QED BY <1>1, <1>2, <1>3, <1>4, <1>5, <1>7, <1>8, <1>9 DEF LeaseNext

\* DedicatedLeaseStore opens one connection at a time, whatever operations fail
\* and whenever their callers give up: the connect under way is the one in
\* `opening`, and every other is destroyed when it completes.
THEOREM OneConnect == LeaseSpec => [](LeaseTypeOK /\ OneOpening)
<1>1. ConnectionInv => LeaseTypeOK /\ OneOpening
  BY TypeOKParts DEF ConnectionInv
<1> QED BY <1>1, InitConnection, StepConnection, PTL DEF LeaseSpec

\* An operation is waiting exactly while the connection it waits for is being opened, and
\* every variable keeps its kind, for any number of operations, sockets and faults.
THEOREM LeaseWellTyped == LeaseSpec => []LeaseTypeOK
BY OneConnect, PTL

\* No step lets go of a working connection, except the late completion of a
\* connect that recycle() had come across.
LEMMA StepStrands ==
  ConnectionInv /\ [LeaseNext]_leaseVars =>
    [\A s \in Sockets : conn = s /\ s \in Stranded' => socket'[conn'] = "dead"]_leaseVars
<1> SUFFICES ASSUME ConnectionInv, LeaseNext, NEW s \in Sockets, conn = s, s \in Stranded'
             PROVE  socket'[conn'] = "dead"
  OBVIOUS
<1>n. None \notin Sockets
  BY LeaseAssumption DEF LeaseAssumption
<1>1. conn' # s /\ socket'[s] \in {"live", "wedged"}
  BY DEF Stranded
<1>2. ASSUME NEW o \in Ops, Begin(o) PROVE FALSE
  BY <1>1, <1>2 DEF Begin
<1>3. ASSUME NEW t \in Sockets, Connect(t) PROVE socket'[conn'] = "dead"
  <2>1. t # s /\ conn' = t /\ socket'[s] = socket[s]
    BY <1>1, <1>3 DEF Connect, ConnectionInv, Shapes
  <2>2. socket[s] # "dead" /\ s # None
    BY <1>1, <1>n, <2>1
  <2>3. opening = None
    BY <2>2 DEF ConnectionInv, ConnIsConnected
  <2>4. socket[t] = "doomed"
    BY <1>3, <1>n, <2>3 DEF Connect, Connecting, ConnectionInv, OneOpening
  <2> QED BY <1>3, <2>4 DEF Connect, ConnectionInv, Shapes
<1>4. ASSUME NEW states, Recycle(states) PROVE FALSE
  BY <1>1, <1>4 DEF Recycle
<1>5. ASSUME NEW t \in Sockets, ConnectFails(t) PROVE FALSE
  BY <1>1, <1>4, <1>5 DEF ConnectFails
<1>6. ASSUME NEW o \in Ops, QueryFails(o) \/ GiveUp(o) PROVE FALSE
  BY <1>4, <1>6 DEF QueryFails, GiveUp
<1>7. ASSUME NEW t \in Sockets, Wedge(t) PROVE FALSE
  BY <1>1, <1>7 DEF Wedge
<1>8. ASSUME NEW o \in Ops, Complete(o) PROVE FALSE
  BY <1>1, <1>8 DEF Complete
<1> QED BY <1>2, <1>3, <1>5, <1>6, <1>7, <1>8 DEF LeaseNext

\* A working connection is lost track of only because recycle() cannot stop a
\* connect under way and the handler of open() installs it all the same.
THEOREM OnlyLateConnectsStrand == LeaseSpec => StrandedByLateConnect
<1>1. LeaseSpec => []ConnectionInv
  BY InitConnection, StepConnection, PTL DEF LeaseSpec
<1> QED BY <1>1, StepStrands, PTL DEF LeaseSpec, StrandedByLateConnect
=============================================================================
