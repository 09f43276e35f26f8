------------------------------ MODULE SumLemmas ------------------------------
(***************************************************************************)
(* Sums over finite sets, as FiniteSetsExt defines them: by a recursive    *)
(* function over the subsets, which takes out one element after the other. *)
(* The library's induction theorems cannot be applied to an operator here; *)
(* the proofs look at a smallest counterexample instead, which exists      *)
(* because strict inclusion of finite sets is well-founded.                *)
(***************************************************************************)
EXTENDS Integers, FiniteSetsExt, FiniteSetTheorems, TLAPS

\* The element a fold takes out next.
Pick(s) == CHOOSE x \in s : TRUE

\* The recursive function behind MapThenSumSet(LAMBDA x : g[x], S).
Folding(F, g, S) ==
  F = [s \in SUBSET S |-> IF s = {} THEN 0 ELSE g[Pick(s)] + F[s \ {Pick(s)}]]

\* The sum of g over S.
SumOver(g, S) == (CHOOSE F : Folding(F, g, S))[S]

LEMMA Picked == ASSUME NEW s, s # {} PROVE Pick(s) \in s /\ s \ {Pick(s)} # s
<1>1. Pick(s) \in s
  BY Zenon DEF Pick
<1> QED
  BY <1>1

\* A set of subsets of a finite set has a smallest member, if it has any.
LEMMA SmallestSubset ==
  ASSUME NEW S, IsFiniteSet(S), NEW T \in SUBSET (SUBSET S), T # {}
  PROVE  \E t \in T : \A u \in T : ~(u \subseteq t /\ u # t)
<1>1. FiniteSubsetsOf(S) = SUBSET S
  BY FS_FiniteSubsetsOfFinite
<1>2. IsWellFoundedOn(StrictSubsetOrdering(S), SUBSET S)
  BY <1>1, FS_StrictSubsetOrderingWellFounded
<1>3. PICK t \in T : \A u \in T : ~(<<u, t>> \in StrictSubsetOrdering(S))
  BY <1>2, WFMin, Zenon
<1>4. ASSUME NEW u \in T, u \subseteq t, u # t PROVE FALSE
  <2>1. <<u, t>> \in StrictSubsetOrdering(S)
    BY <1>4 DEF StrictSubsetOrdering
  <2> QED
    BY <1>3, <2>1, Zenon
<1> QED
  BY <1>4, Zenon

\* Two functions that fold over sets agree on every subset both of them know.
LEMMA FoldingUnique ==
  ASSUME NEW S, IsFiniteSet(S), NEW R \in SUBSET S, NEW g, NEW F, NEW G,
         Folding(F, g, S), Folding(G, g, R)
  PROVE  \A s \in SUBSET R : F[s] = G[s]
<1> DEFINE T == {s \in SUBSET R : F[s] # G[s]}
<1>1. ASSUME T # {} PROVE FALSE
  <2>1. IsFiniteSet(R)
    BY FS_Subset
  <2>2. PICK t \in T : \A u \in T : ~(u \subseteq t /\ u # t)
    <3>1. T \in SUBSET (SUBSET R)
      OBVIOUS
    <3> HIDE DEF T
    <3> QED
      BY <1>1, <2>1, <3>1, SmallestSubset
  <2> DEFINE u == t \ {Pick(t)}
  <2>3. t \in SUBSET R /\ t \in SUBSET S /\ F[t] # G[t]
    OBVIOUS
  <2>4. /\ F[t] = IF t = {} THEN 0 ELSE g[Pick(t)] + F[u]
        /\ G[t] = IF t = {} THEN 0 ELSE g[Pick(t)] + G[u]
    BY <2>3, Zenon DEF Folding
  <2>5. t # {}
    BY <2>3, <2>4
  <2>6. u \subseteq t /\ u # t /\ u \in SUBSET R
    BY <2>3, <2>5, Picked
  <2>7. F[u] = G[u]
    BY <2>2, <2>6
  <2> QED
    BY <2>3, <2>4, <2>7
<1> QED
  BY <1>1

\* The recursive function exists.
LEMMA FoldingExists ==
  ASSUME NEW S, IsFiniteSet(S), NEW g
  PROVE  \E F : Folding(F, g, S)
<1> DEFINE T == {s \in SUBSET S : ~\E F : Folding(F, g, s)}
<1>1. ASSUME T # {} PROVE FALSE
  <2>1. PICK t \in T : \A u \in T : ~(u \subseteq t /\ u # t)
    <3>1. T \in SUBSET (SUBSET S)
      OBVIOUS
    <3> HIDE DEF T
    <3> QED
      BY <1>1, <3>1, SmallestSubset
  <2> DEFINE Of(u) == CHOOSE F : Folding(F, g, u)
             G == [s \in SUBSET t |-> IF s = {} THEN 0 ELSE g[Pick(s)] + Of(s \ {Pick(s)})[s \ {Pick(s)}]]
  <2>2. \A u \in SUBSET t : u # t => Folding(Of(u), g, u)
    BY <2>1
  <2>3. ASSUME NEW s \in SUBSET t, s # {} PROVE Of(s \ {Pick(s)})[s \ {Pick(s)}] = G[s \ {Pick(s)}]
    <3> DEFINE u == s \ {Pick(s)}
               v == u \ {Pick(u)}
    <3>1. u \in SUBSET t /\ u # t /\ u \in SUBSET S /\ IsFiniteSet(u)
      BY <2>1, <2>3, Picked, FS_Subset
    <3>2. Folding(Of(u), g, u)
      BY <2>2, <3>1
    <3>3. Of(u)[u] = IF u = {} THEN 0 ELSE g[Pick(u)] + Of(u)[v]
      BY <3>2, Zenon DEF Folding
    <3>4. G[u] = IF u = {} THEN 0 ELSE g[Pick(u)] + Of(v)[v]
      BY <3>1, Zenon
    <3>5. CASE u = {}
      BY <3>3, <3>4, <3>5
    <3>6. CASE u # {}
      <4>1. v \in SUBSET u /\ v \in SUBSET t /\ v # t /\ v \in SUBSET v
        BY <3>1, <3>6, Picked
      <4>2. Folding(Of(v), g, v)
        BY <2>2, <4>1
      <4>3. Of(u)[v] = Of(v)[v]
        <5> HIDE DEF u, v, Of
        <5> QED
          BY <3>1, <3>2, <4>1, <4>2, FoldingUnique
      <4> QED
        BY <3>3, <3>4, <3>6, <4>3, Zenon
    <3> QED
      BY <3>5, <3>6
  <2>4. G = [s \in SUBSET t |-> IF s = {} THEN 0 ELSE g[Pick(s)] + G[s \ {Pick(s)}]]
    <3> DEFINE H == [s \in SUBSET t |-> IF s = {} THEN 0 ELSE g[Pick(s)] + G[s \ {Pick(s)}]]
    <3>1. ASSUME NEW s \in SUBSET t PROVE G[s] = H[s]
      <4>1. CASE s = {}
        BY <4>1
      <4>2. CASE s # {}
        <5>1. G[s] = g[Pick(s)] + Of(s \ {Pick(s)})[s \ {Pick(s)}] /\ H[s] = g[Pick(s)] + G[s \ {Pick(s)}]
          BY <4>2
        <5> QED
          BY <2>3, <4>2, <5>1, Zenon
      <4> QED
        BY <4>1, <4>2
    <3>2. G = [s \in SUBSET t |-> G[s]] /\ H = [s \in SUBSET t |-> H[s]]
      OBVIOUS
    <3> QED
      BY <3>1, <3>2
  <2>5. Folding(G, g, t)
    BY <2>4, Zenon DEF Folding
  <2> QED
    BY <2>1, <2>5
<1> QED
  BY <1>1

-----------------------------------------------------------------------------
\* Sums do what the recursive definition says.
LEMMA SumFolds ==
  ASSUME NEW S, IsFiniteSet(S), NEW g
  PROVE  /\ SumOver(g, {}) = 0
         /\ S # {} => SumOver(g, S) = g[Pick(S)] + SumOver(g, S \ {Pick(S)})
<1> DEFINE Of(s) == CHOOSE F : Folding(F, g, s)
<1>1. /\ IsFiniteSet({}) /\ \A s \in SUBSET S : IsFiniteSet(s)
      /\ S \in SUBSET S /\ {} \in SUBSET {}
  BY FS_EmptySet, FS_Subset
<1>2. Folding(Of({}), g, {}) /\ \A s \in SUBSET S : Folding(Of(s), g, s)
  BY <1>1, FoldingExists, Zenon
<1>3. \A s : SumOver(g, s) = Of(s)[s]
  BY DEF SumOver
<1> HIDE DEF Of
<1>4. Of({})[{}] = 0
  BY <1>1, <1>2, Zenon DEF Folding
<1>5. ASSUME S # {} PROVE Of(S)[S] = g[Pick(S)] + Of(S \ {Pick(S)})[S \ {Pick(S)}]
  <2> DEFINE u == S \ {Pick(S)}
  <2>1. u \in SUBSET S /\ u \in SUBSET u
    OBVIOUS
  <2>2. Of(S)[S] = g[Pick(S)] + Of(S)[u]
    BY <1>1, <1>2, <1>5, Zenon DEF Folding
  <2>3. Folding(Of(S), g, S) /\ Folding(Of(u), g, u)
    BY <1>1, <1>2, <2>1
  <2> HIDE DEF u
  <2>4. Of(S)[u] = Of(u)[u]
    BY <2>1, <2>3, FoldingUnique
  <2> QED
    BY <2>2, <2>4 DEF u
<1> QED
  BY <1>3, <1>4, <1>5

\* The sum depends on the summands alone.
LEMMA SumSame ==
  ASSUME NEW S, IsFiniteSet(S), NEW g, NEW h, \A x \in S : g[x] = h[x]
  PROVE  SumOver(g, S) = SumOver(h, S)
<1> DEFINE T == {s \in SUBSET S : SumOver(g, s) # SumOver(h, s)}
<1>1. ASSUME T # {} PROVE FALSE
  <2>1. PICK t \in T : \A u \in T : ~(u \subseteq t /\ u # t)
    <3>1. T \in SUBSET (SUBSET S)
      OBVIOUS
    <3> HIDE DEF T
    <3> QED
      BY <1>1, <3>1, SmallestSubset
  <2>2. t \in SUBSET S /\ IsFiniteSet(t) /\ SumOver(g, t) # SumOver(h, t)
    BY FS_Subset
  <2>3. t # {}
    BY <2>2, SumFolds
  <2> DEFINE u == t \ {Pick(t)}
  <2>4. Pick(t) \in S /\ u \in SUBSET S /\ u \subseteq t /\ u # t
    BY <2>2, <2>3, Picked
  <2>5. SumOver(g, u) = SumOver(h, u)
    BY <2>1, <2>4
  <2>6. SumOver(g, t) = g[Pick(t)] + SumOver(g, u) /\ SumOver(h, t) = h[Pick(t)] + SumOver(h, u)
    BY <2>2, <2>3, SumFolds
  <2> QED
    BY <2>2, <2>4, <2>5, <2>6
<1>2. S \in SUBSET S
  OBVIOUS
<1> QED
  BY <1>1, <1>2

\* A sum of integers is one, and of natural numbers a natural number.
LEMMA SumType ==
  ASSUME NEW S, IsFiniteSet(S), NEW g, \A x \in S : g[x] \in Int
  PROVE  /\ SumOver(g, S) \in Int
         /\ (\A x \in S : g[x] >= 0) => SumOver(g, S) >= 0
<1> DEFINE Good(s) == SumOver(g, s) \in Int /\ ((\A x \in s : g[x] >= 0) => SumOver(g, s) >= 0)
           T == {s \in SUBSET S : ~Good(s)}
<1>1. ASSUME T # {} PROVE FALSE
  <2>1. PICK t \in T : \A u \in T : ~(u \subseteq t /\ u # t)
    <3>1. T \in SUBSET (SUBSET S)
      OBVIOUS
    <3> HIDE DEF T
    <3> QED
      BY <1>1, <3>1, SmallestSubset
  <2>2. t \in SUBSET S /\ IsFiniteSet(t) /\ ~Good(t)
    BY FS_Subset
  <2>3. t # {}
    <3>1. SumOver(g, {}) = 0
      BY SumFolds
    <3> QED
      BY <2>2, <3>1
  <2> DEFINE u == t \ {Pick(t)}
  <2>4. Pick(t) \in S /\ u \in SUBSET S /\ u \subseteq t /\ u # t /\ Pick(t) \in t
    BY <2>2, <2>3, Picked
  <2>5. Good(u)
    BY <2>1, <2>4
  <2>6. SumOver(g, t) = g[Pick(t)] + SumOver(g, u)
    BY <2>2, <2>3, SumFolds
  <2> QED
    BY <2>2, <2>4, <2>5, <2>6
<1>2. S \in SUBSET S
  OBVIOUS
<1> QED
  BY <1>1, <1>2

\* Any element may be taken out first.
LEMMA SumTakesOut ==
  ASSUME NEW S, IsFiniteSet(S), NEW g, \A y \in S : g[y] \in Int, NEW x \in S
  PROVE  SumOver(g, S) = g[x] + SumOver(g, S \ {x})
<1> DEFINE T == {s \in SUBSET S : \E y \in s : SumOver(g, s) # g[y] + SumOver(g, s \ {y})}
<1>1. ASSUME T # {} PROVE FALSE
  <2>1. PICK t \in T : \A u \in T : ~(u \subseteq t /\ u # t)
    <3>1. T \in SUBSET (SUBSET S)
      OBVIOUS
    <3> HIDE DEF T
    <3> QED
      BY <1>1, <3>1, SmallestSubset
  <2>2. t \in SUBSET S /\ IsFiniteSet(t)
    BY FS_Subset
  <2>3. PICK y \in t : SumOver(g, t) # g[y] + SumOver(g, t \ {y})
    OBVIOUS
  <2> DEFINE c == Pick(t)
             u == t \ {c}
             v == u \ {y}
  <2>4. c \in t /\ SumOver(g, t) = g[c] + SumOver(g, u)
    BY <2>2, <2>3, Picked, SumFolds
  <2>5. c # y
    BY <2>3, <2>4
  <2>6. SumOver(g, u) = g[y] + SumOver(g, v)
    <3>1. u \in SUBSET S /\ u \subseteq t /\ u # t /\ y \in u
      BY <2>2, <2>4, <2>5
    <3> QED
      BY <2>1, <3>1
  \* The rest without y is smaller too, and gives c back.
  <2>7. SumOver(g, t \ {y}) = g[c] + SumOver(g, v)
    <3>1. t \ {y} \in SUBSET S /\ t \ {y} \subseteq t /\ t \ {y} # t /\ c \in t \ {y}
      BY <2>2, <2>4, <2>5
    <3>2. SumOver(g, t \ {y}) = g[c] + SumOver(g, (t \ {y}) \ {c})
      BY <2>1, <3>1
    <3>3. (t \ {y}) \ {c} = v
      OBVIOUS
    <3> QED
      BY <3>2, <3>3
  <2>8. g[c] \in Int /\ g[y] \in Int /\ SumOver(g, v) \in Int
    <3>1. IsFiniteSet(v) /\ \A z \in v : g[z] \in Int
      BY <2>2, FS_Subset
    <3> HIDE DEF v
    <3> QED
      BY <2>2, <2>4, <3>1, SumType
  <2> QED
    BY <2>3, <2>4, <2>6, <2>7, <2>8
<1>2. S \in SUBSET S
  OBVIOUS
<1> QED
  BY <1>1, <1>2

\* A summand that changes moves the sum by as much.
LEMMA SumChanges ==
  ASSUME NEW S, IsFiniteSet(S), NEW g, NEW h, NEW x \in S,
         \A y \in S : g[y] \in Int /\ h[y] \in Int,
         \A y \in S \ {x} : g[y] = h[y]
  PROVE  SumOver(h, S) = SumOver(g, S) - g[x] + h[x]
<1> DEFINE R == S \ {x}
<1>1. IsFiniteSet(R) /\ \A y \in R : g[y] = h[y] /\ g[y] \in Int
  BY FS_Subset
<1>2. SumOver(g, S) = g[x] + SumOver(g, R) /\ SumOver(h, S) = h[x] + SumOver(h, R)
  BY SumTakesOut
<1> HIDE DEF R
<1>3. SumOver(g, R) = SumOver(h, R) /\ SumOver(g, R) \in Int
  BY <1>1, SumSame, SumType
<1> QED
  BY <1>2, <1>3

\* Leaving out elements that count for something does not make a sum larger.
LEMMA SumOfPart ==
  ASSUME NEW S, IsFiniteSet(S), NEW g, \A y \in S : g[y] \in Int, NEW P \in SUBSET S, \A y \in S \ P : g[y] >= 0
  PROVE  SumOver(g, P) <= SumOver(g, S)
<1> DEFINE T == {s \in SUBSET S : P \subseteq s /\ ~(SumOver(g, P) <= SumOver(g, s))}
<1>1. ASSUME T # {} PROVE FALSE
  <2>1. PICK t \in T : \A u \in T : ~(u \subseteq t /\ u # t)
    <3>1. T \in SUBSET (SUBSET S)
      OBVIOUS
    <3> HIDE DEF T
    <3> QED
      BY <1>1, <3>1, SmallestSubset
  <2>2. t \in SUBSET S /\ IsFiniteSet(t) /\ IsFiniteSet(P) /\ P \subseteq t /\ ~(SumOver(g, P) <= SumOver(g, t))
    BY FS_Subset
  <2>3. SumOver(g, P) \in Int
    BY <2>2, SumType
  <2>4. PICK x \in t : x \notin P
    BY <2>2, <2>3
  <2>5. SumOver(g, t) = g[x] + SumOver(g, t \ {x})
    BY <2>2, SumTakesOut
  <2> DEFINE u == t \ {x}
  <2>6. u \in SUBSET S /\ IsFiniteSet(u) /\ P \subseteq u /\ u \subseteq t /\ u # t
    BY <2>2, <2>4, FS_Subset
  <2>7. SumOver(g, u) \in Int
    BY <2>6, SumType
  <2>8. SumOver(g, P) <= SumOver(g, u)
    BY <2>1, <2>6
  <2> HIDE DEF u
  <2>9. SumOver(g, t) = g[x] + SumOver(g, u)
    BY <2>5 DEF u
  <2>10. g[x] \in Int /\ g[x] >= 0
    BY <2>2, <2>4
  <2> QED
    BY <2>2, <2>3, <2>7, <2>8, <2>9, <2>10
<1> QED
  BY <1>1

\* A sum is the sum of its parts.
LEMMA SumSplits ==
  ASSUME NEW S, IsFiniteSet(S), NEW g, \A y \in S : g[y] \in Int, NEW P \in SUBSET S
  PROVE  SumOver(g, S) = SumOver(g, P) + SumOver(g, S \ P)
<1> DEFINE T == {s \in SUBSET S : P \subseteq s /\ SumOver(g, s) # SumOver(g, P) + SumOver(g, s \ P)}
<1>1. ASSUME T # {} PROVE FALSE
  <2>1. PICK t \in T : \A u \in T : ~(u \subseteq t /\ u # t)
    <3>1. T \in SUBSET (SUBSET S)
      OBVIOUS
    <3> HIDE DEF T
    <3> QED
      BY <1>1, <3>1, SmallestSubset
  <2>2. t \in SUBSET S /\ IsFiniteSet(t) /\ P \subseteq t /\ SumOver(g, t) # SumOver(g, P) + SumOver(g, t \ P)
    BY FS_Subset
  <2>3. SumOver(g, P) \in Int /\ SumOver(g, {}) = 0
    BY FS_Subset, FS_EmptySet, SumType, SumFolds
  <2>4. PICK x \in t : x \notin P
    <3>1. CASE t = P
      <4>1. t \ P = {}
        BY <3>1
      <4> QED
        BY <2>2, <2>3, <3>1, <4>1
    <3> QED
      BY <2>2, <3>1
  <2> DEFINE u == t \ {x}
             v == t \ P
             r == u \ P
  <2>5. u \in SUBSET S /\ IsFiniteSet(u) /\ P \subseteq u /\ u \subseteq t /\ u # t
    BY <2>2, <2>4, FS_Subset
  <2>6. v \in SUBSET S /\ IsFiniteSet(v) /\ x \in v /\ v \ {x} = r /\ r \in SUBSET S /\ IsFiniteSet(r)
    BY <2>2, <2>4, FS_Subset
  <2>7. SumOver(g, t) = g[x] + SumOver(g, u)
    BY <2>2, SumTakesOut
  <2>8. SumOver(g, u) = SumOver(g, P) + SumOver(g, r)
    BY <2>1, <2>5
  <2> HIDE DEF u, v, r
  <2>9. SumOver(g, v) = g[x] + SumOver(g, r)
    <3>1. SumOver(g, v) = g[x] + SumOver(g, v \ {x})
      BY <2>6, SumTakesOut
    <3> QED
      BY <2>6, <3>1
  <2>10. SumOver(g, r) \in Int /\ SumOver(g, u) \in Int /\ g[x] \in Int
    BY <2>2, <2>5, <2>6, SumType
  <2>11. SumOver(g, t) # SumOver(g, P) + SumOver(g, v)
    BY <2>2 DEF v
  <2> QED
    BY <2>3, <2>7, <2>8, <2>9, <2>10, <2>11
<1> QED
  BY <1>1
=============================================================================
