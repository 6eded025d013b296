----------------------------- MODULE SumTheorems -----------------------------
(***************************************************************************)
(* Facts about SumFunctionOnSet(f, S), the sum of f[x] over the x in a     *)
(* finite set S.  The module Functions defines it by a recursion over the  *)
(* subsets of S that picks elements with CHOOSE.  What is proved here by   *)
(* induction on the subsets has the form of the minimal counterexample:    *)
(* MinimalSubset takes the set of counterexamples, not a predicate.        *)
(***************************************************************************)
EXTENDS Integers, FiniteSets, FiniteSetsExt, FiniteSetTheorems, TLAPS

\* A non-empty collection of subsets of a finite set has a minimal member.
LEMMA MinimalSubset ==
  ASSUME NEW S, IsFiniteSet(S), NEW B, B \subseteq SUBSET S, B # {}
  PROVE  \E T \in B : \A U \in B : U \subseteq T => U = T
<1>1. IsWellFoundedOn(StrictSubsetOrdering(S), SUBSET S)
  BY FS_StrictSubsetOrderingWellFounded, FS_FiniteSubsetsOfFinite
<1>2. PICK T \in B : \A U \in B : ~ (<<U, T>> \in StrictSubsetOrdering(S))
  BY <1>1, WFMin
<1> QED
  BY <1>2 DEF StrictSubsetOrdering

Pick(s) == CHOOSE x \in s : TRUE

LEMMA PickIsIn == \A s : s # {} => Pick(s) \in s
BY DEF Pick

\* g sums f over every subset of S.
Adds(g, f, S) ==
  g = [s \in SUBSET S |-> IF s = {} THEN 0 ELSE f[Pick(s)] + g[s \ {Pick(s)}]]

LEMMA AddsAt ==
  ASSUME NEW S, NEW f, NEW g, Adds(g, f, S)
  PROVE  \A s \in SUBSET S :
           g[s] = IF s = {} THEN 0 ELSE f[Pick(s)] + g[s \ {Pick(s)}]
BY DEF Adds

\* Two such functions agree wherever both are defined.
LEMMA AddsAgree ==
  ASSUME NEW S, IsFiniteSet(S), NEW T \in SUBSET S, NEW f, NEW g, NEW h,
         Adds(g, f, S), Adds(h, f, T)
  PROVE  \A s \in SUBSET T : g[s] = h[s]
<1> DEFINE B == {s \in SUBSET T : g[s] # h[s]}
<1> SUFFICES ASSUME B # {} PROVE FALSE
  OBVIOUS
<1>1. IsFiniteSet(T) /\ B \subseteq SUBSET T
  BY FS_Subset
<1>2. PICK s \in B : \A u \in B : u \subseteq s => u = s
  <2> HIDE DEF B
  <2> QED
    BY <1>1, MinimalSubset
<1>3. s \in SUBSET T /\ s \in SUBSET S
  BY <1>2
<1>4. g[s] = IF s = {} THEN 0 ELSE f[Pick(s)] + g[s \ {Pick(s)}]
  BY <1>3, AddsAt
<1>5. h[s] = IF s = {} THEN 0 ELSE f[Pick(s)] + h[s \ {Pick(s)}]
  <2>1. Adds(h, f, T)
    OBVIOUS
  <2> QED
    BY <1>3, <2>1 DEF Adds
<1>6. s # {} => g[s \ {Pick(s)}] = h[s \ {Pick(s)}]
  <2> SUFFICES ASSUME s # {} PROVE s \ {Pick(s)} \notin B
    BY <1>3
  <2>1. Pick(s) \in s
    BY PickIsIn
  <2> QED
    BY <1>2, <2>1
<1> QED
  BY <1>2, <1>4, <1>5, <1>6

\* There is one for every finite set.
LEMMA AddsExists ==
  ASSUME NEW S, IsFiniteSet(S), NEW f
  PROVE  \E g : Adds(g, f, S)
<1> DEFINE B == {T \in SUBSET S : ~ \E g : Adds(g, f, T)}
<1> SUFFICES ASSUME B # {} PROVE FALSE
  OBVIOUS
<1>1. PICK T \in B : \A U \in B : U \subseteq T => U = T
  <2>1. B \subseteq SUBSET S
    OBVIOUS
  <2> HIDE DEF B
  <2> QED
    BY <2>1, MinimalSubset
<1> DEFINE G(U) == CHOOSE g : Adds(g, f, U)
<1>2. \A U \in SUBSET T : U # T => Adds(G(U), f, U)
  <2> SUFFICES ASSUME NEW U \in SUBSET T, U # T PROVE Adds(G(U), f, U)
    OBVIOUS
  <2>1. U \notin B /\ U \in SUBSET S
    BY <1>1
  <2>2. \E g : Adds(g, f, U)
    BY <2>1
  <2> QED
    BY <2>2
<1>3. \A U \in SUBSET T : \A V \in SUBSET U : U # T => G(U)[V] = G(V)[V]
  <2> SUFFICES ASSUME NEW U \in SUBSET T, NEW V \in SUBSET U, U # T
               PROVE  G(U)[V] = G(V)[V]
    OBVIOUS
  <2>1. Adds(G(U), f, U) /\ Adds(G(V), f, V)
    BY <1>2
  <2>2. IsFiniteSet(U)
    BY <1>1, FS_Subset
  <2> HIDE DEF G
  <2> QED
    BY <2>1, <2>2, AddsAgree
<1> HIDE DEF G
<1> DEFINE g == [s \in SUBSET T |->
                   IF s = {} THEN 0
                   ELSE f[Pick(s)] + G(s \ {Pick(s)})[s \ {Pick(s)}]]
<1>4. ASSUME NEW s \in SUBSET T, s # {}
      PROVE  g[s \ {Pick(s)}] = G(s \ {Pick(s)})[s \ {Pick(s)}]
  <2> DEFINE r == s \ {Pick(s)}
  <2>1. r \in SUBSET T /\ r # T
    BY <1>4, PickIsIn
  <2>2. Adds(G(r), f, r)
    BY <1>2, <2>1
  <2>3. G(r)[r] = IF r = {} THEN 0 ELSE f[Pick(r)] + G(r)[r \ {Pick(r)}]
    <3> HIDE DEF r
    <3> QED
      BY <2>2, AddsAt
  <2>4. r # {} => G(r)[r \ {Pick(r)}] = G(r \ {Pick(r)})[r \ {Pick(r)}]
    <3> HIDE DEF r
    <3> QED
      BY <1>3, <2>1
  <2> QED
    BY <2>1, <2>3, <2>4
<1>5. Adds(g, f, T)
  BY <1>4 DEF Adds
<1> QED
  BY <1>1, <1>5

LEMMA SumIsAdds ==
  ASSUME NEW S, IsFiniteSet(S), NEW f
  PROVE  \E g : Adds(g, f, S) /\ SumFunctionOnSet(f, S) = g[S]
<1> DEFINE g == CHOOSE h : Adds(h, f, S)
<1>1. Adds(g, f, S)
  BY AddsExists
<1>2. SumFunctionOnSet(f, S) = g[S]
  BY DEF SumFunctionOnSet, FoldFunctionOnSet, MapThenFoldSet, Adds, Pick
<1> QED
  BY <1>1, <1>2

\* The empty sum, and the recursion.
LEMMA SumUnfolds ==
  ASSUME NEW S, IsFiniteSet(S), NEW f
  PROVE  SumFunctionOnSet(f, S) =
           IF S = {} THEN 0
           ELSE f[Pick(S)] + SumFunctionOnSet(f, S \ {Pick(S)})
<1>1. PICK g : Adds(g, f, S) /\ SumFunctionOnSet(f, S) = g[S]
  BY SumIsAdds
<1>2. g[S] = IF S = {} THEN 0 ELSE f[Pick(S)] + g[S \ {Pick(S)}]
  BY <1>1, AddsAt
<1> DEFINE T == S \ {Pick(S)}
<1>3. T \in SUBSET S /\ IsFiniteSet(T)
  BY FS_Subset
<1>4. PICK h : Adds(h, f, T) /\ SumFunctionOnSet(f, T) = h[T]
  BY <1>3, SumIsAdds
<1>5. g[T] = h[T]
  <2> HIDE DEF T
  <2> QED
    BY <1>1, <1>3, <1>4, AddsAgree
<1> QED
  BY <1>1, <1>2, <1>4, <1>5


\* The sum of the empty set.
LEMMA SumEmpty == \A f : SumFunctionOnSet(f, {}) = 0
BY SumUnfolds, FS_EmptySet

\* The recursion may take any element first.
LEMMA SumRemove ==
  ASSUME NEW S, IsFiniteSet(S), NEW f, \A x \in S : f[x] \in Int
  PROVE  /\ SumFunctionOnSet(f, S) \in Int
         /\ \A y \in S :
              SumFunctionOnSet(f, S) = f[y] + SumFunctionOnSet(f, S \ {y})
<1> DEFINE Good(T) == /\ SumFunctionOnSet(f, T) \in Int
                      /\ \A y \in T : SumFunctionOnSet(f, T)
                                        = f[y] + SumFunctionOnSet(f, T \ {y})
           B == {T \in SUBSET S : ~Good(T)}
<1> SUFFICES ASSUME B # {} PROVE FALSE
  OBVIOUS
<1>1. PICK T \in B : \A U \in B : U \subseteq T => U = T
  <2>1. B \subseteq SUBSET S
    OBVIOUS
  <2> HIDE DEF B
  <2> QED
    BY <2>1, MinimalSubset
<1>2. T \in SUBSET S /\ ~Good(T)
  BY <1>1
<1>3. \A U \in SUBSET T : U # T => Good(U)
  <2> HIDE DEF Good
  <2> QED
    BY <1>1
<1>4. \A U \in SUBSET T : U # {} =>
         /\ f[Pick(U)] \in Int /\ Pick(U) \in U
         /\ SumFunctionOnSet(f, U) = f[Pick(U)] + SumFunctionOnSet(f, U \ {Pick(U)})
  <2> SUFFICES ASSUME NEW U \in SUBSET T, U # {}
               PROVE  /\ f[Pick(U)] \in Int /\ Pick(U) \in U
                      /\ SumFunctionOnSet(f, U)
                           = f[Pick(U)] + SumFunctionOnSet(f, U \ {Pick(U)})
    OBVIOUS
  <2>1. IsFiniteSet(U)
    BY <1>2, FS_Subset
  <2>2. Pick(U) \in U
    BY PickIsIn
  <2> QED
    BY <1>2, <2>1, <2>2, SumUnfolds
<1>5. T # {}
  <2> SUFFICES ASSUME T = {} PROVE Good(T)
    BY <1>2
  <2> QED
    BY SumEmpty
<1> DEFINE x == Pick(T)
<1>6. x \in T /\ f[x] \in Int
      /\ SumFunctionOnSet(f, T) = f[x] + SumFunctionOnSet(f, T \ {x})
  BY <1>4, <1>5
<1>7. Good(T \ {x})
  BY <1>3, <1>6
<1>8. ASSUME NEW y \in T, y # x
      PROVE  SumFunctionOnSet(f, T) = f[y] + SumFunctionOnSet(f, T \ {y})
  <2> HIDE DEF x
  <2>1. Good(T \ {y})
    BY <1>3
  <2>2. SumFunctionOnSet(f, T \ {x}) = f[y] + SumFunctionOnSet(f, (T \ {x}) \ {y})
    BY <1>7, <1>8
  <2>3. (T \ {y}) \ {x} = (T \ {x}) \ {y}
    OBVIOUS
  <2>4. SumFunctionOnSet(f, T \ {y}) = f[x] + SumFunctionOnSet(f, (T \ {x}) \ {y})
    BY <1>6, <1>8, <2>1, <2>3
  <2>5. Good((T \ {x}) \ {y})
    BY <1>3, <1>8
  <2> DEFINE w == SumFunctionOnSet(f, (T \ {x}) \ {y})
  <2>6. f[y] \in Int /\ f[x] \in Int /\ w \in Int
    BY <1>2, <1>6, <2>5
  <2>7. SumFunctionOnSet(f, T) = f[x] + (f[y] + w)
    BY <1>6, <2>2
  <2>8. SumFunctionOnSet(f, T \ {y}) = f[x] + w
    BY <2>4
  <2> HIDE DEF w
  <2> QED
    BY <2>6, <2>7, <2>8
<1>9. SumFunctionOnSet(f, T) \in Int
  BY <1>6, <1>7
<1> QED
  BY <1>2, <1>6, <1>8, <1>9

\* Only the values on the set matter.
LEMMA SumAgrees ==
  ASSUME NEW S, IsFiniteSet(S), NEW f, NEW g, \A x \in S : f[x] = g[x]
  PROVE  SumFunctionOnSet(f, S) = SumFunctionOnSet(g, S)
<1> DEFINE B == {T \in SUBSET S : SumFunctionOnSet(f, T) # SumFunctionOnSet(g, T)}
<1> SUFFICES ASSUME B # {} PROVE FALSE
  OBVIOUS
<1>1. PICK T \in B : \A U \in B : U \subseteq T => U = T
  <2>1. B \subseteq SUBSET S
    OBVIOUS
  <2> HIDE DEF B
  <2> QED
    BY <2>1, MinimalSubset
<1>2. IsFiniteSet(T) /\ T \in SUBSET S
  BY <1>1, FS_Subset
<1>3. T # {}
  BY <1>1, SumEmpty
<1>4. Pick(T) \in T
  BY <1>3, PickIsIn
<1>5. SumFunctionOnSet(f, T \ {Pick(T)}) = SumFunctionOnSet(g, T \ {Pick(T)})
  BY <1>1, <1>2, <1>4
<1>6. /\ SumFunctionOnSet(f, T) = f[Pick(T)] + SumFunctionOnSet(f, T \ {Pick(T)})
      /\ SumFunctionOnSet(g, T) = g[Pick(T)] + SumFunctionOnSet(g, T \ {Pick(T)})
  BY <1>2, <1>3, SumUnfolds
<1> QED
  BY <1>1, <1>2, <1>4, <1>5, <1>6

\* An element more.
LEMMA SumAdd ==
  ASSUME NEW S, IsFiniteSet(S), NEW y, y \notin S, NEW f,
         \A x \in S \cup {y} : f[x] \in Int
  PROVE  SumFunctionOnSet(f, S \cup {y}) = SumFunctionOnSet(f, S) + f[y]
<1>1. IsFiniteSet(S \cup {y}) /\ (S \cup {y}) \ {y} = S
  BY FS_AddElement
<1>2. SumFunctionOnSet(f, S \cup {y}) = f[y] + SumFunctionOnSet(f, S)
  BY <1>1, SumRemove
<1>3. SumFunctionOnSet(f, S) \in Int
  BY SumRemove
<1> QED
  BY <1>2, <1>3

\* An element less.
LEMMA SumDrop ==
  ASSUME NEW S, IsFiniteSet(S), NEW y \in S, NEW f, \A x \in S : f[x] \in Int
  PROVE  SumFunctionOnSet(f, S \ {y}) = SumFunctionOnSet(f, S) - f[y]
<1>1. SumFunctionOnSet(f, S) = f[y] + SumFunctionOnSet(f, S \ {y})
  BY SumRemove
<1>2. IsFiniteSet(S \ {y})
  BY FS_Subset
<1>3. SumFunctionOnSet(f, S \ {y}) \in Int
  BY <1>2, SumRemove
<1> QED
  BY <1>1, <1>3

\* Naturals add up to a natural.
LEMMA SumIsNat ==
  ASSUME NEW S, IsFiniteSet(S), NEW f, \A x \in S : f[x] \in Nat
  PROVE  SumFunctionOnSet(f, S) \in Nat
<1> DEFINE B == {T \in SUBSET S : SumFunctionOnSet(f, T) \notin Nat}
<1> SUFFICES ASSUME B # {} PROVE FALSE
  OBVIOUS
<1>1. PICK T \in B : \A U \in B : U \subseteq T => U = T
  <2>1. B \subseteq SUBSET S
    OBVIOUS
  <2> HIDE DEF B
  <2> QED
    BY <2>1, MinimalSubset
<1>2. IsFiniteSet(T) /\ T \in SUBSET S
  BY <1>1, FS_Subset
<1>3. T # {}
  <2>1. SumFunctionOnSet(f, T) \notin Nat
    BY <1>1
  <2>2. SumFunctionOnSet(f, {}) = 0 /\ 0 \in Nat
    BY SumEmpty
  <2> QED
    BY <2>1, <2>2
<1>4. Pick(T) \in T
  BY <1>3, PickIsIn
<1>5. SumFunctionOnSet(f, T \ {Pick(T)}) \in Nat
  BY <1>1, <1>2, <1>4
<1>6. SumFunctionOnSet(f, T) = f[Pick(T)] + SumFunctionOnSet(f, T \ {Pick(T)})
  BY <1>2, <1>3, SumUnfolds
<1> QED
  BY <1>1, <1>2, <1>4, <1>5, <1>6
=============================================================================
