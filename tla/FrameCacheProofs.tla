-------------------------- MODULE FrameCacheProofs --------------------------
(***************************************************************************)
(* The frame cache keeps its books, for any callers, frames and ceiling.   *)
(* The sums of frame lengths are folds over finite sets, so the first part *)
(* is what a fold computes: it is independent of the order in which the    *)
(* fold takes the members (SumAny), and splits over a subset (SumSplit).   *)
(* The second part is the invariant CInv, one lemma per step of the cache. *)
(***************************************************************************)
EXTENDS FrameCache, FiniteSetTheorems, WellFoundedInduction, TLAPS

\* Every nonempty set of natural numbers has a least element.
LEMMA NatMin ==
  ASSUME NEW T \in SUBSET Nat, T # {}
  PROVE  \E n \in T : \A m \in T : n <= m
<1> DEFINE R == {ss \in Nat \X Nat : ss[1] < ss[2]}
<1>1. IsWellFoundedOn(R, Nat)
  BY NatLessThanWellFounded DEF OpToRel
<1>2. PICK n \in T : \A m \in T : ~(<<m, n>> \in R)
  BY Zenon, <1>1, WFMin
<1>3. ASSUME NEW m \in T PROVE n <= m
  <2>1. <<m, n>> \in Nat \X Nat /\ m \in Nat /\ n \in Nat
    OBVIOUS
  <2>2. ~(m < n)
    BY <1>2, <2>1 DEF R
  <2> QED BY <2>1, <2>2
<1> QED BY <1>3

\* A set that contains 0 and the successor of each of its members contains
\* every natural number.
LEMMA NatSetInd ==
  ASSUME NEW T, 0 \in T, \A n \in Nat : n \in T => n + 1 \in T
  PROVE  Nat \subseteq T
<1> DEFINE C == Nat \ T
<1>1. SUFFICES ASSUME C # {} PROVE FALSE
  OBVIOUS
<1>2. PICK n \in C : \A m \in C : n <= m
  BY Zenon, <1>1, NatMin
<1>3. n \in Nat /\ n # 0 /\ n \notin T
  OBVIOUS
<1> HIDE DEF C
<1>4. n - 1 \in Nat /\ n - 1 \notin C
  BY <1>2, <1>3
<1>5. n - 1 \in T
  BY <1>4 DEF C
<1>6. (n - 1) + 1 \in T
  BY <1>4, <1>5
<1> QED BY <1>3, <1>6

\* The member a fold takes next.
Any(s) == CHOOSE x \in s : TRUE

\* g is the function by which SumFunctionOnSet computes, on the subsets in D.
Sums(g, f, D) ==
  g = [s \in D |-> IF s = {} THEN 0 ELSE f[Any(s)] + g[s \ {Any(s)}]]

\* The same on every subset of S.
SumsOver(g, f, S) == Sums(g, f, SUBSET S)

\* What SumFunctionOnSet chooses, with the recursive function named.
LEMMA SumDef ==
  ASSUME NEW f, NEW S
  PROVE  SumFunctionOnSet(f, S) = (CHOOSE g : SumsOver(g, f, S))[S]
BY DEF SumFunctionOnSet, FoldFunctionOnSet, MapThenFoldSet, SumsOver, Sums, Any

\* One step of the recursion.
LEMMA SumsAt ==
  ASSUME NEW g, NEW f, NEW D, Sums(g, f, D), NEW s \in D
  PROVE  g[s] = IF s = {} THEN 0 ELSE f[Any(s)] + g[s \ {Any(s)}]
<1>1. g[s] = [t \in D |-> IF t = {} THEN 0 ELSE f[Any(t)] + g[t \ {Any(t)}]][s]
  BY DEF Sums
<1> QED BY <1>1

\* A nonempty set has a member to take.
LEMMA AnyIn ==
  ASSUME NEW s, s # {}
  PROVE  Any(s) \in s
BY DEF Any

\* The subsets of S with at most n members.
Small(S, n) == {s \in SUBSET S : Cardinality(s) <= n}

\* Taking a member leaves a smaller set.
LEMMA SmallerIsSmall ==
  ASSUME NEW S, IsFiniteSet(S), NEW n \in Nat, NEW s \in Small(S, n + 1), s # {}
  PROVE  s \ {Any(s)} \in Small(S, n)
<1>1. IsFiniteSet(s) /\ Cardinality(s) \in Nat /\ Cardinality(s) <= n + 1
  BY FS_Subset, FS_CardinalityType DEF Small
<1>2. Any(s) \in s
  BY AnyIn
<1>3. Cardinality(s \ {Any(s)}) = Cardinality(s) - 1
  BY Zenon, <1>1, <1>2, FS_RemoveElement
<1>4. s \ {Any(s)} \in SUBSET S
  BY DEF Small
<1>5. Cardinality(s) - 1 <= n
  BY <1>1
<1> QED BY <1>3, <1>4, <1>5 DEF Small

\* The recursion has a solution on the subsets of a finite set.
LEMMA SumsExists ==
  ASSUME NEW f, NEW S, IsFiniteSet(S)
  PROVE  \E g : SumsOver(g, f, S)
<1> DEFINE T == {k \in Nat : \E g : Sums(g, f, Small(S, k))}
<1>1. 0 \in T
  <2> DEFINE g == [s \in Small(S, 0) |-> 0]
  <2>1. ASSUME NEW s \in Small(S, 0) PROVE s = {}
    <3>1. IsFiniteSet(s) /\ Cardinality(s) \in Nat /\ Cardinality(s) <= 0
      BY FS_Subset, FS_CardinalityType DEF Small
    <3>2. Cardinality(s) = 0
      BY <3>1
    <3> QED BY <3>1, <3>2, FS_EmptySet
  <2>2. Sums(g, f, Small(S, 0))
    BY <2>1 DEF Sums
  <2> QED BY <2>2
<1>2. ASSUME NEW k \in Nat, k \in T PROVE k + 1 \in T
  <2>1. PICK h : Sums(h, f, Small(S, k))
    BY <1>2
  <2> DEFINE g == [s \in Small(S, k + 1) |->
                     IF s = {} THEN 0 ELSE f[Any(s)] + h[s \ {Any(s)}]]
  <2>2. ASSUME NEW s \in Small(S, k) PROVE g[s] = h[s]
    <3>1. h[s] = IF s = {} THEN 0 ELSE f[Any(s)] + h[s \ {Any(s)}]
      BY <2>1, SumsAt
    <3>2. IsFiniteSet(s) /\ Cardinality(s) \in Nat /\ Cardinality(s) <= k
      BY FS_Subset, FS_CardinalityType DEF Small
    <3>3. s \in Small(S, k + 1)
      BY <3>2 DEF Small
    <3> QED BY <3>1, <3>3
  <2>3. ASSUME NEW s \in Small(S, k + 1), s # {}
        PROVE  g[s] = f[Any(s)] + g[s \ {Any(s)}]
    <3>1. s \ {Any(s)} \in Small(S, k)
      BY <2>3, SmallerIsSmall
    <3>2. g[s \ {Any(s)}] = h[s \ {Any(s)}]
      BY Zenon, <2>2, <3>1
    <3>3. g[s] = f[Any(s)] + h[s \ {Any(s)}]
      BY <2>3
    <3> QED BY <3>2, <3>3
  <2>4. Sums(g, f, Small(S, k + 1))
    <3>1. ASSUME NEW s \in Small(S, k + 1)
          PROVE  g[s] = IF s = {} THEN 0 ELSE f[Any(s)] + g[s \ {Any(s)}]
      BY Zenon, <2>3
    <3>2. g = [s \in Small(S, k + 1) |-> g[s]]
      OBVIOUS
    <3> HIDE DEF g
    <3> QED BY Zenon, <3>1, <3>2 DEF Sums
  <2> HIDE DEF g
  <2> QED BY <2>4
<1> HIDE DEF T
<1>3. Nat \subseteq T
  BY <1>1, <1>2, NatSetInd
<1>4. Cardinality(S) \in T
  BY <1>3, FS_CardinalityType
<1>5. Small(S, Cardinality(S)) = SUBSET S
  BY FS_Subset DEF Small
<1> QED BY Zenon, <1>4, <1>5 DEF T, SumsOver

\* The sums over the subsets of a subset of S do not depend on S.
LEMMA SumsAgree ==
  ASSUME NEW f, NEW S, NEW g, SumsOver(g, f, S),
         NEW U, NEW h, SumsOver(h, f, U), U \subseteq S, IsFiniteSet(S)
  PROVE  g[U] = h[U]
<1> DEFINE T == {k \in Nat : \A s \in SUBSET U : Cardinality(s) = k => g[s] = h[s]}
<1>0. ASSUME NEW s \in SUBSET U
      PROVE  /\ s \in SUBSET S /\ IsFiniteSet(s) /\ Cardinality(s) \in Nat
             /\ g[s] = IF s = {} THEN 0 ELSE f[Any(s)] + g[s \ {Any(s)}]
             /\ h[s] = IF s = {} THEN 0 ELSE f[Any(s)] + h[s \ {Any(s)}]
  <2>1. s \in SUBSET S
    OBVIOUS
  <2>2. IsFiniteSet(s) /\ Cardinality(s) \in Nat
    BY <2>1, FS_Subset, FS_CardinalityType
  <2>3. g[s] = IF s = {} THEN 0 ELSE f[Any(s)] + g[s \ {Any(s)}]
    BY SMTT(30), <2>1, SumsAt DEF SumsOver
  <2>4. h[s] = IF s = {} THEN 0 ELSE f[Any(s)] + h[s \ {Any(s)}]
    BY SumsAt DEF SumsOver
  <2> QED BY <2>1, <2>2, <2>3, <2>4
<1>1. 0 \in T
  <2>1. ASSUME NEW s \in SUBSET U, Cardinality(s) = 0 PROVE g[s] = h[s]
    <3>1. s = {}
      BY Zenon, <1>0, <2>1, FS_EmptySet
    <3> QED BY Zenon, <1>0, <3>1
  <2> QED BY <2>1
<1>2. ASSUME NEW k \in Nat, k \in T PROVE k + 1 \in T
  <2>1. ASSUME NEW s \in SUBSET U, Cardinality(s) = k + 1 PROVE g[s] = h[s]
    <3>1. s # {}
      <4>1. k + 1 # 0 /\ Cardinality({}) = 0
        BY FS_EmptySet
      <4> QED BY <2>1, <4>1
    <3>2. Any(s) \in s /\ IsFiniteSet(s)
      BY Zenon, <1>0, <3>1, AnyIn
    <3>3. Cardinality(s \ {Any(s)}) = k
      <4>1. Cardinality(s \ {Any(s)}) = Cardinality(s) - 1
        BY Zenon, <3>2, FS_RemoveElement
      <4> QED BY <2>1, <4>1
    <3>4. s \ {Any(s)} \in SUBSET U
      OBVIOUS
    <3>5. g[s \ {Any(s)}] = h[s \ {Any(s)}]
      BY <1>2, <3>3, <3>4
    <3> QED BY <1>0, <3>1, <3>5
  <2> QED BY <2>1
<1> HIDE DEF T
<1>3. Nat \subseteq T
  BY <1>1, <1>2, NatSetInd
<1>4. U \in SUBSET U /\ Cardinality(U) \in T
  BY Zenon, <1>0, <1>3
<1> QED BY <1>4 DEF T

\* A sum is one term and the sum of the others, whichever term it is.
LEMMA SumAny ==
  ASSUME NEW f, NEW S, IsFiniteSet(S), S # {}
  PROVE  SumFunctionOnSet(f, S) = f[Any(S)] + SumFunctionOnSet(f, S \ {Any(S)})
<1> DEFINE U == S \ {Any(S)}
<1>1. PICK g : g = (CHOOSE h : SumsOver(h, f, S))
  OBVIOUS
<1>2. PICK h : h = (CHOOSE k : SumsOver(k, f, U))
  OBVIOUS
<1>3. SumsOver(g, f, S)
  BY <1>1, SumsExists
<1>4. U \in SUBSET S /\ IsFiniteSet(U)
  BY FS_Subset
<1> HIDE DEF U
<1>5. SumsOver(h, f, U)
  BY <1>2, <1>4, SumsExists
<1>6. g[U] = h[U]
  <2>1. U \subseteq S /\ IsFiniteSet(S)
    BY <1>4
  <2> QED BY <1>3, <1>5, <2>1, SumsAgree
<1>7. SumFunctionOnSet(f, S) = g[S] /\ SumFunctionOnSet(f, U) = h[U]
  BY <1>1, <1>2, SumDef
<1>8. g[S] = f[Any(S)] + g[U]
  <2>1. S \in SUBSET S
    OBVIOUS
  <2>2. g[S] = IF S = {} THEN 0 ELSE f[Any(S)] + g[S \ {Any(S)}]
    BY <1>3, <2>1, SumsAt DEF SumsOver
  <2> QED BY <2>2 DEF U
<1> QED BY <1>6, <1>7, <1>8 DEF U

\* The empty sum.
LEMMA SumEmpty == ASSUME NEW f PROVE SumFunctionOnSet(f, {}) = 0
<1>1. PICK g : g = (CHOOSE h : SumsOver(h, f, {}))
  OBVIOUS
<1>2. SumsOver(g, f, {})
  BY <1>1, SumsExists, FS_EmptySet
<1>3. {} \in SUBSET {}
  OBVIOUS
<1>4. g[{}] = IF {} = {} THEN 0 ELSE f[Any({})] + g[{} \ {Any({})}]
  BY <1>2, <1>3, SumsAt DEF SumsOver
<1> QED BY <1>1, <1>4, SumDef

\* A sum of natural numbers is a natural number.
LEMMA SumType ==
  ASSUME NEW f, NEW S, IsFiniteSet(S), \A s \in S : f[s] \in Nat
  PROVE  SumFunctionOnSet(f, S) \in Nat
<1> DEFINE T == {k \in Nat : \A U \in SUBSET S :
                   Cardinality(U) = k => SumFunctionOnSet(f, U) \in Nat}
<1>0. ASSUME NEW U \in SUBSET S
      PROVE  IsFiniteSet(U) /\ Cardinality(U) \in Nat
  BY FS_Subset, FS_CardinalityType
<1>1. 0 \in T
  <2>1. ASSUME NEW U \in SUBSET S, Cardinality(U) = 0
        PROVE  SumFunctionOnSet(f, U) \in Nat
    <3>1. U = {}
      BY <1>0, <2>1, FS_EmptySet
    <3> QED BY <3>1, SumEmpty
  <2> QED BY <2>1
<1>2. ASSUME NEW k \in Nat, k \in T PROVE k + 1 \in T
  <2>1. ASSUME NEW U \in SUBSET S, Cardinality(U) = k + 1
        PROVE  SumFunctionOnSet(f, U) \in Nat
    <3>1. U # {} /\ IsFiniteSet(U)
      <4>1. k + 1 # 0 /\ Cardinality({}) = 0
        BY FS_EmptySet
      <4> QED BY <1>0, <2>1, <4>1
    <3> DEFINE x == Any(U)
               V == U \ {x}
    <3>2. x \in U
      BY <3>1, AnyIn
    <3>3. Cardinality(V) = k
      <4>1. Cardinality(V) = Cardinality(U) - 1
        BY Zenon, <3>1, <3>2, FS_RemoveElement
      <4> QED BY <2>1, <4>1
    <3>4. SumFunctionOnSet(f, V) \in Nat /\ f[x] \in Nat
      BY <1>2, <3>2, <3>3
    <3>5. SumFunctionOnSet(f, U) = f[x] + SumFunctionOnSet(f, V)
      BY <3>1, SumAny
    <3> QED BY <3>4, <3>5
  <2> QED BY <2>1
<1> HIDE DEF T
<1>3. Nat \subseteq T
  BY <1>1, <1>2, NatSetInd
<1>4. Cardinality(S) \in T
  BY <1>0, <1>3
<1> QED BY <1>4 DEF T

\* Every member may be taken out of a sum of natural numbers.
LEMMA SumRemove ==
  ASSUME NEW f, NEW S, IsFiniteSet(S), \A s \in S : f[s] \in Nat, NEW x \in S
  PROVE  SumFunctionOnSet(f, S) = f[x] + SumFunctionOnSet(f, S \ {x})
<1> DEFINE Good(U) == \A y \in U : SumFunctionOnSet(f, U)
                                   = f[y] + SumFunctionOnSet(f, U \ {y})
           T == {k \in Nat : \A U \in SUBSET S : Cardinality(U) = k => Good(U)}
<1>0. ASSUME NEW U \in SUBSET S
      PROVE  IsFiniteSet(U) /\ Cardinality(U) \in Nat /\ SumFunctionOnSet(f, U) \in Nat
  <2>1. IsFiniteSet(U) /\ \A s \in U : f[s] \in Nat
    BY FS_Subset
  <2> QED BY <2>1, FS_CardinalityType, SumType
<1>1. 0 \in T
  <2>1. ASSUME NEW U \in SUBSET S, Cardinality(U) = 0 PROVE Good(U)
    BY <1>0, <2>1, FS_EmptySet
  <2> QED BY <2>1
<1>2. ASSUME NEW k \in Nat, k \in T PROVE k + 1 \in T
  <2>1. ASSUME NEW U \in SUBSET S, Cardinality(U) = k + 1 PROVE Good(U)
    <3>1. U # {} /\ IsFiniteSet(U)
      <4>1. k + 1 # 0 /\ Cardinality({}) = 0
        BY FS_EmptySet
      <4> QED BY <1>0, <2>1, <4>1
    <3>2. PICK a : a = Any(U)
      OBVIOUS
    <3>3. a \in U /\ SumFunctionOnSet(f, U) = f[a] + SumFunctionOnSet(f, U \ {a})
      BY <3>1, <3>2, AnyIn, SumAny
    <3>4. ASSUME NEW y \in U PROVE Good(U \ {y})
      <4>1. Cardinality(U \ {y}) = Cardinality(U) - 1
        BY Zenon, <3>1, FS_RemoveElement
      <4>2. Cardinality(U \ {y}) = k
        BY <2>1, <4>1
      <4>3. U \ {y} \in SUBSET S
        OBVIOUS
      <4> HIDE DEF Good
      <4> QED BY <1>2, <4>2, <4>3
    <3>5. ASSUME NEW y \in U
          PROVE  SumFunctionOnSet(f, U) = f[y] + SumFunctionOnSet(f, U \ {y})
      <4>1. CASE y = a
        BY <3>3, <4>1
      <4>2. CASE y # a
        <5> DEFINE V == (U \ {a}) \ {y}
        <5>1. y \in U \ {a} /\ a \in U \ {y}
          BY <3>3, <4>2
        <5>2. V = (U \ {y}) \ {a} /\ V \in SUBSET S
          OBVIOUS
        <5>3. SumFunctionOnSet(f, U \ {a}) = f[y] + SumFunctionOnSet(f, V)
          BY <3>3, <3>4, <5>1
        <5>4. SumFunctionOnSet(f, U \ {y}) = f[a] + SumFunctionOnSet(f, V)
          BY <3>4, <5>1, <5>2
        <5>5. SumFunctionOnSet(f, V) \in Nat /\ f[y] \in Nat /\ f[a] \in Nat
          BY <1>0, <3>3, <5>2
        <5> HIDE DEF V
        <5> QED BY <3>3, <5>3, <5>4, <5>5
      <4> QED BY <4>1, <4>2
    <3> QED BY <3>5
  <2> QED BY <2>1
<1> HIDE DEF T
<1>3. Nat \subseteq T
  BY <1>1, <1>2, NatSetInd
<1>4. Cardinality(S) \in T
  BY <1>0, <1>3
<1>5. Good(S)
  BY <1>4 DEF T
<1> QED BY <1>5

\* A part and the rest of a set sum up to the sum of the set.
LEMMA SumSplit ==
  ASSUME NEW f, NEW S, IsFiniteSet(S), \A s \in S : f[s] \in Nat, NEW B \in SUBSET S
  PROVE  SumFunctionOnSet(f, S) = SumFunctionOnSet(f, B) + SumFunctionOnSet(f, S \ B)
<1> DEFINE Sum(U) == SumFunctionOnSet(f, U)
           Good(U) == Sum(S) = Sum(U) + Sum(S \ U)
           T == {k \in Nat : \A U \in SUBSET S : Cardinality(U) = k => Good(U)}
<1>0. ASSUME NEW U \in SUBSET S
      PROVE  /\ IsFiniteSet(U) /\ Cardinality(U) \in Nat /\ Sum(U) \in Nat
             /\ \A x \in U : Sum(U) = f[x] + Sum(U \ {x}) /\ Cardinality(U \ {x}) = Cardinality(U) - 1
  <2>1. IsFiniteSet(U) /\ Cardinality(U) \in Nat
    BY FS_Subset, FS_CardinalityType
  <2>2. \A s \in U : f[s] \in Nat
    OBVIOUS
  <2>3. Sum(U) \in Nat
    BY <2>1, <2>2, SumType
  <2>4. ASSUME NEW x \in U PROVE Sum(U) = f[x] + Sum(U \ {x})
    BY <2>1, <2>2, SumRemove
  <2>5. ASSUME NEW x \in U PROVE Cardinality(U \ {x}) = Cardinality(U) - 1
    BY Zenon, <2>1, FS_RemoveElement
  <2> QED BY <2>1, <2>3, <2>4, <2>5
<1>1. 0 \in T
  <2>1. ASSUME NEW U \in SUBSET S, Cardinality(U) = 0 PROVE Good(U)
    <3>1. U = {}
      BY <2>1, <1>0, FS_EmptySet
    <3>2. Sum({}) = 0 /\ S \ {} = S /\ Sum(S) \in Nat
      BY SumEmpty, <1>0
    <3> QED BY <3>1, <3>2
  <2> QED BY <2>1
<1>2. ASSUME NEW k \in Nat, k \in T PROVE k + 1 \in T
  <2>1. ASSUME NEW U \in SUBSET S, Cardinality(U) = k + 1 PROVE Good(U)
    <3>1. U # {}
      BY <2>1, FS_EmptySet
    <3>2. PICK x \in U : TRUE
      BY <3>1
    <3>3. PICK V : V = U \ {x}
      BY Zenon
    <3>4. V \in SUBSET S /\ Cardinality(V) = k
      BY <3>3, <2>1, <1>0
    <3>5. Sum(S) = Sum(V) + Sum(S \ V)
      BY <3>4, <1>2
    <3>6. Sum(U) = f[x] + Sum(V)
      BY <3>3, <1>0
    <3>7. PICK W : W = S \ V
      BY Zenon
    <3>8. W \in SUBSET S /\ x \in W /\ W \ {x} = S \ U
      BY <3>3, <3>7
    <3>9. Sum(W) = f[x] + Sum(S \ U)
      BY <3>8, <1>0
    <3>10. f[x] \in Nat /\ Sum(V) \in Nat /\ Sum(S \ U) \in Nat
      BY <3>4, <1>0
    <3> HIDE DEF Sum
    <3> QED BY <3>5, <3>6, <3>7, <3>9, <3>10
  <2> QED BY <2>1, <1>2
<1>3. Nat \subseteq T
  <2> HIDE DEF T
  <2> QED BY <1>1, <1>2, NatSetInd
<1>4. Cardinality(B) \in T
  BY <1>3, <1>0
<1> QED BY <1>4

\* The bytes of frames.
LEMMA BytesFacts ==
  ASSUME NEW S \in SUBSET Loc, IsFiniteSet(S)
  PROVE  /\ BytesOf(S) \in Nat
         /\ \A B \in SUBSET S : /\ BytesOf(S \ B) = BytesOf(S) - BytesOf(B)
                                /\ BytesOf(B) \in Nat /\ BytesOf(S \ B) \in Nat
         /\ \A l \in S : BytesOf(S) = FrameSize[l] + BytesOf(S \ {l})
<1>f. \A l \in S : FrameSize[l] \in Nat
  BY CacheAssumption
<1>1. ASSUME NEW B \in SUBSET S PROVE BytesOf(B) \in Nat
  <2>1. IsFiniteSet(B) /\ \A l \in B : FrameSize[l] \in Nat
    BY FS_Subset, <1>f
  <2> QED BY <2>1, SumType DEF BytesOf
<1>2. ASSUME NEW B \in SUBSET S PROVE BytesOf(S) = BytesOf(B) + BytesOf(S \ B)
  BY <1>f, SumSplit DEF BytesOf
<1>3. ASSUME NEW l \in S PROVE BytesOf(S) = FrameSize[l] + BytesOf(S \ {l})
  BY <1>f, SumRemove DEF BytesOf
<1>4. ASSUME NEW B \in SUBSET S PROVE BytesOf(S \ B) = BytesOf(S) - BytesOf(B)
  <2>1. BytesOf(S) \in Nat /\ BytesOf(B) \in Nat /\ BytesOf(S \ B) \in Nat
    BY <1>1
  <2>2. BytesOf(S) = BytesOf(B) + BytesOf(S \ B)
    BY <1>2
  <2>3. PICK a, b, c : a = BytesOf(S) /\ b = BytesOf(B) /\ c = BytesOf(S \ B)
    OBVIOUS
  <2>4. a \in Nat /\ b \in Nat /\ c \in Nat /\ a = b + c
    BY <2>1, <2>2, <2>3
  <2>5. c = a - b
    BY <2>4
  <2> QED BY <2>3, <2>5
<1> QED BY <1>1, <1>3, <1>4

\* The locations of a sequence.
LEMMA OrderFacts ==
  ASSUME NEW s \in Seq(Loc)
  PROVE  /\ Range(s) = {s[i] : i \in 1..Len(s)} /\ Range(s) \in SUBSET Loc /\ IsFiniteSet(Range(s))
<1>1. DOMAIN s = 1..Len(s) /\ Len(s) \in Nat /\ \A i \in 1..Len(s) : s[i] \in Loc
  OBVIOUS
<1>2. Range(s) = {s[i] : i \in 1..Len(s)}
  BY <1>1 DEF Range
<1>3. IsFiniteSet(1..Len(s))
  BY <1>1, FS_Interval
<1>4. IsFiniteSet({s[i] : i \in 1..Len(s)})
  <2>1. PICK D : D = 1..Len(s)
    OBVIOUS
  <2>2. \A S, f : IsFiniteSet(S) => IsFiniteSet({f[x] : x \in S})
    <3>1. ASSUME NEW S, NEW f, IsFiniteSet(S) PROVE IsFiniteSet({f[x] : x \in S})
      <4>1. PICK T : T = {f[x] : x \in S}
        BY Zenon
      <4>2. PICK g : g = [x \in S |-> f[x]]
        BY Zenon
      <4>3. g \in Surjection(S, T)
        BY <4>1, <4>2 DEF Surjection
      <4>4. IsFiniteSet(T)
        BY <3>1, <4>3, FS_Surjection
      <4> QED BY <4>1, <4>4
    <3> QED BY <3>1
  <2> QED BY <2>2, <1>3
<1> QED BY <1>1, <1>2, <1>4

-----------------------------------------------------------------------------

\* The order holds no location twice.
Once(s) == \A i, j \in 1..Len(s) : s[i] = s[j] => i = j

\* A caller is adding at most one frame.
OneEach == \A c \in Caller : \A l, m \in adding[c] : l = m

\* The inductive invariant.
CInv == CacheTypeOK /\ OneEach /\ CacheTracked /\ CacheBounded

\* The views of the cache, in terms of membership.
LEMMA CInvFacts ==
  ASSUME CInv
  PROVE  /\ frameOrder \in Seq(Loc) /\ Once(frameOrder)
         /\ Range(frameOrder) \in SUBSET Loc /\ IsFiniteSet(Range(frameOrder))
         /\ Range(frameOrder) = {frameOrder[i] : i \in 1..Len(frameOrder)}
         /\ frameCacheBytes = BytesOf(Range(frameOrder)) /\ frameCacheBytes \in Nat
         /\ adding \in [Caller -> SUBSET Loc]
         /\ \A c \in Caller : Range(frameOrder) \intersect adding[c] = {}
         /\ \A x : x \in frameCache <=> x \in Range(frameOrder) \/ \E c \in Caller : x \in adding[c]
<1>1. frameOrder \in Seq(Loc) /\ adding \in [Caller -> SUBSET Loc]
  BY DEF CInv, CacheTypeOK
<1>2. /\ Once(frameOrder) /\ \A c \in Caller : Range(frameOrder) \intersect adding[c] = {}
      /\ frameCache = Range(frameOrder) \union Adding
  BY DEF CInv, CacheTracked, Once
<1>3. frameCacheBytes = BytesOf(Range(frameOrder))
  BY DEF CInv, CacheBounded
<1>4. /\ Range(frameOrder) \in SUBSET Loc /\ IsFiniteSet(Range(frameOrder))
      /\ Range(frameOrder) = {frameOrder[i] : i \in 1..Len(frameOrder)}
  BY <1>1, OrderFacts
<1>5. BytesOf(Range(frameOrder)) \in Nat
  BY <1>4, BytesFacts
<1>6. \A x : x \in Adding <=> \E c \in Caller : x \in adding[c]
  BY DEF Adding
<1> QED BY <1>1, <1>2, <1>3, <1>4, <1>5, <1>6

\* The conjuncts of CacheTracked from membership.
LEMMA TrackedPrime ==
  ASSUME Once(frameOrder)',
         \A c \in Caller : \A x \in adding'[c] : x \notin Range(frameOrder'),
         \A c, d \in Caller : \A x \in adding'[c] : x \in adding'[d] => c = d,
         \A x : x \in frameCache' <=> x \in Range(frameOrder') \/ \E c \in Caller : x \in adding'[c]
  PROVE  CacheTracked'
<1>1. \A x : x \in Adding' <=> \E c \in Caller : x \in adding'[c]
  BY DEF Adding
<1>2. frameCache' = Range(frameOrder') \union Adding'
  BY <1>1
<1> QED BY <1>2 DEF CacheTracked, Once

\* The cache starts empty.
LEMMA CInvInit ==
  ASSUME CacheInit
  PROVE  CInv
<1>1. /\ frameCache = {} /\ frameOrder = << >> /\ frameCacheBytes = 0
      /\ adding = [c \in Caller |-> {}]
  BY DEF CacheInit
<1>2. Len(frameOrder) = 0 /\ 1..0 = {} /\ frameOrder \in Seq(Loc)
  BY <1>1
<1>3. Range(frameOrder) = {}
  BY Zenon, <1>1, <1>2, OrderFacts
<1>4. BytesOf({}) = 0
  BY SumEmpty DEF BytesOf
<1>5. Adding = {}
  BY <1>1 DEF Adding
<1>6. CacheTypeOK /\ OneEach
  BY <1>1, <1>2 DEF CacheTypeOK, OneEach
<1>7. CacheTracked
  BY <1>1, <1>2, <1>3, <1>5 DEF CacheTracked
<1>8. CacheBounded
  <2>1. frameCacheBytes = BytesOf(Range(frameOrder)) /\ frameCacheBytes = 0
    BY Zenon, <1>1, <1>3, <1>4
  <2>2. MaxBytes \in Nat
    BY CacheAssumption
  <2>3. 0 <= MaxBytes
    BY <2>2
  <2> QED BY <2>1, <2>3 DEF CacheBounded
<1> QED BY <1>6, <1>7, <1>8 DEF CInv

\* Publishing a frame without the lock (LoadOrStore, store.go) keeps the
\* invariant: a frame that is already in the map is not added a second time.
LEMMA LoadOrStoreStep ==
  ASSUME CInv, NEW c \in Caller, NEW l \in Loc, LoadOrStore(c, l)
  PROVE  CInv'
<1>0. /\ adding \in [Caller -> SUBSET Loc] /\ Once(frameOrder)
      /\ \A d \in Caller : Range(frameOrder) \intersect adding[d] = {}
      /\ \A x : x \in frameCache <=> x \in Range(frameOrder) \/ \E d \in Caller : x \in adding[d]
  BY CInvFacts
<1>1. /\ adding[c] = {} /\ frameCache' = frameCache \union {l}
      /\ adding' = [adding EXCEPT ![c] = {l} \ frameCache]
      /\ frameOrder' = frameOrder /\ frameCacheBytes' = frameCacheBytes
  BY DEF LoadOrStore
<1>2. /\ adding'[c] = {l} \ frameCache
      /\ \A d \in Caller : d # c => adding'[d] = adding[d]
  BY <1>0, <1>1
<1>3. CacheTypeOK'
  BY <1>1 DEF CInv, CacheTypeOK
<1>4. OneEach'
  BY <1>2 DEF CInv, OneEach
<1>5. CacheBounded'
  BY <1>1 DEF CInv, CacheBounded
<1>6. \A d, e \in Caller : \A x \in adding[d] : x \in adding[e] => d = e
  BY DEF CInv, CacheTracked
<1>7. \A d \in Caller : \A x \in adding'[d] : x \notin Range(frameOrder')
  BY <1>0, <1>1, <1>2
<1>8. \A d, e \in Caller : \A x \in adding'[d] : x \in adding'[e] => d = e
  BY <1>0, <1>2, <1>6
<1>9. \A x : x \in frameCache' <=> x \in Range(frameOrder') \/ \E d \in Caller : x \in adding'[d]
  <2>1. ASSUME NEW x, x \in frameCache'
        PROVE  x \in Range(frameOrder') \/ \E d \in Caller : x \in adding'[d]
    <3>1. CASE x \in frameCache
      BY <1>0, <1>1, <1>2, <3>1
    <3>2. CASE x \notin frameCache
      BY <1>1, <1>2, <2>1, <3>2
    <3> QED BY <3>1, <3>2
  <2>2. ASSUME NEW x, x \in Range(frameOrder') PROVE x \in frameCache'
    BY <1>0, <1>1, <2>2
  <2>3. ASSUME NEW x, NEW d \in Caller, x \in adding'[d] PROVE x \in frameCache'
    BY <1>0, <1>1, <1>2, <2>3
  <2> QED BY <2>1, <2>2, <2>3
<1>10. Once(frameOrder)'
  BY <1>0, <1>1 DEF Once
<1>11. CacheTracked'
  BY <1>7, <1>8, <1>9, <1>10, TrackedPrime
<1> QED BY <1>3, <1>4, <1>5, <1>11 DEF CInv

\* What is left of a sequence without its first k locations.
LEMMA SuffixFacts ==
  ASSUME NEW s \in Seq(Loc), Once(s), NEW k \in 0..(Len(s) - 1),
         NEW t, t = SubSeq(s, k + 1, Len(s))
  PROVE  /\ t \in Seq(Loc) /\ Len(t) = Len(s) - k /\ Once(t)
         /\ Oldest(s, k) \in SUBSET Range(s)
         /\ Range(t) = Range(s) \ Oldest(s, k)
<1>1. /\ Len(s) \in Nat /\ k \in Nat
      /\ t \in Seq(Loc) /\ Len(t) = Len(s) - k /\ \A i \in 1..(Len(s) - k) : t[i] = s[k + i]
  OBVIOUS
<1>2. Range(s) = {s[i] : i \in 1..Len(s)}
  BY OrderFacts
<1>3. Range(t) = {t[i] : i \in 1..Len(t)}
  BY Zenon, <1>1, OrderFacts
<1>4. Once(t)
  <2>1. ASSUME NEW i \in 1..Len(t), NEW j \in 1..Len(t), t[i] = t[j] PROVE i = j
    <3>1. i \in 1..(Len(s) - k) /\ j \in 1..(Len(s) - k)
      BY <1>1
    <3>2. s[k + i] = s[k + j] /\ k + i \in 1..Len(s) /\ k + j \in 1..Len(s)
      BY <1>1, <2>1, <3>1
    <3>3. k + i = k + j
      BY <3>2 DEF Once
    <3> QED BY <1>1, <3>1, <3>3
  <2> QED BY <2>1 DEF Once
<1>5. Oldest(s, k) \in SUBSET Range(s)
  <2>1. \A i \in 1..k : i \in 1..Len(s)
    BY <1>1
  <2> QED BY <1>2, <2>1 DEF Oldest
<1>6. ASSUME NEW x \in Range(t) PROVE x \in Range(s) /\ x \notin Oldest(s, k)
  <2>1. PICK i \in 1..Len(t) : x = t[i]
    BY Zenon, <1>3
  <2>2. x = s[k + i] /\ k + i \in 1..Len(s)
    BY <1>1, <2>1
  <2>3. ASSUME NEW j \in 1..k, x = s[j] PROVE FALSE
    <3>1. j \in 1..Len(s) /\ j # k + i
      BY <1>1, <2>1
    <3> QED BY Zenon, <2>2, <2>3, <3>1 DEF Once
  <2> QED BY <1>2, <2>2, <2>3 DEF Oldest
<1>7. ASSUME NEW x \in Range(s), x \notin Oldest(s, k) PROVE x \in Range(t)
  <2>1. PICK j \in 1..Len(s) : x = s[j]
    BY <1>2
  <2>2. j \notin 1..k
    BY <1>7, <2>1 DEF Oldest
  <2>3. PICK i : i = j - k
    OBVIOUS
  <2>4. i \in 1..(Len(s) - k) /\ k + i = j
    BY <1>1, <2>1, <2>2, <2>3
  <2>5. t[i] = x /\ i \in 1..Len(t)
    BY <1>1, <2>1, <2>4
  <2> QED BY Zenon, <1>3, <2>5
<1>8. Range(t) = Range(s) \ Oldest(s, k)
  BY <1>6, <1>7
<1> QED BY <1>1, <1>4, <1>5, <1>8

\* One more location at the end.
LEMMA AppendFacts ==
  ASSUME NEW s \in Seq(Loc), Once(s), NEW l \in Loc, l \notin Range(s), NEW t, t = Append(s, l)
  PROVE  /\ t \in Seq(Loc) /\ Len(t) = Len(s) + 1 /\ Once(t)
         /\ Range(t) = Range(s) \union {l}
<1>1. /\ Len(s) \in Nat /\ t \in Seq(Loc) /\ Len(t) = Len(s) + 1
      /\ t[Len(s) + 1] = l /\ \A i \in 1..Len(s) : t[i] = s[i]
  OBVIOUS
<1>2. Range(s) = {s[i] : i \in 1..Len(s)}
  BY OrderFacts
<1>3. Range(t) = {t[i] : i \in 1..Len(t)}
  BY Zenon, <1>1, OrderFacts
<1>n. \A i \in 1..Len(t) : i \in 1..Len(s) \/ i = Len(s) + 1
  BY <1>1
<1>4. Once(t)
  <2>1. ASSUME NEW i \in 1..Len(t), NEW j \in 1..Len(t), t[i] = t[j] PROVE i = j
    <3>1. CASE i \in 1..Len(s) /\ j \in 1..Len(s)
      BY <1>1, <2>1, <3>1 DEF Once
    <3>2. CASE i \in 1..Len(s) /\ j = Len(s) + 1
      BY <1>1, <1>2, <2>1, <3>2
    <3>3. CASE j \in 1..Len(s) /\ i = Len(s) + 1
      BY <1>1, <1>2, <2>1, <3>3
    <3> QED BY <1>n, <3>1, <3>2, <3>3
  <2> QED BY <2>1 DEF Once
<1>5. \A i \in 1..Len(s) : i \in 1..Len(t)
  BY <1>1
<1>6. Len(s) + 1 \in 1..Len(t)
  BY <1>1
<1>7. Range(t) = Range(s) \union {l}
  BY <1>1, <1>2, <1>3, <1>n, <1>5, <1>6
<1> QED BY <1>1, <1>4, <1>7

\* Accounting and evicting under the lock (CacheFrame, store.go) keeps the
\* invariant: the loop takes the oldest frames until the rest fits or is one frame.
LEMMA AccountStep ==
  ASSUME CInv, NEW c \in Caller, Account(c)
  PROVE  CInv'
<1>0. /\ frameOrder \in Seq(Loc) /\ Once(frameOrder)
      /\ Range(frameOrder) \in SUBSET Loc /\ IsFiniteSet(Range(frameOrder))
      /\ frameCacheBytes = BytesOf(Range(frameOrder))
      /\ adding \in [Caller -> SUBSET Loc]
      /\ \A d \in Caller : Range(frameOrder) \intersect adding[d] = {}
      /\ \A x : x \in frameCache <=> x \in Range(frameOrder) \/ \E d \in Caller : x \in adding[d]
  BY CInvFacts
<1>a. \A d, e \in Caller : \A x \in adding[d] : x \in adding[e] => d = e
  BY DEF CInv, CacheTracked
<1>1. PICK l \in adding[c], k \in 0..Len(frameOrder) :
        LET ord == Append(frameOrder, l)
            bytes == frameCacheBytes + FrameSize[l]
        IN  /\ Stops(ord, bytes, k)
            /\ frameOrder' = SubSeq(ord, k + 1, Len(ord))
            /\ frameCacheBytes' = BytesLeft(ord, bytes, k)
            /\ frameCache' = frameCache \ Oldest(ord, k)
            /\ adding' = [adding EXCEPT ![c] = {}]
  BY Zenon DEF Account
<1>2. PICK ord, bytes : ord = Append(frameOrder, l) /\ bytes = frameCacheBytes + FrameSize[l]
  BY Zenon
<1>3. /\ Stops(ord, bytes, k) /\ frameOrder' = SubSeq(ord, k + 1, Len(ord))
      /\ frameCacheBytes' = BytesLeft(ord, bytes, k)
      /\ frameCache' = frameCache \ Oldest(ord, k)
      /\ adding' = [adding EXCEPT ![c] = {}]
  BY <1>1, <1>2
<1>4. l \in Loc /\ l \notin Range(frameOrder) /\ \A x \in adding[c] : x = l
  BY <1>0 DEF CInv, OneEach
<1>5. /\ ord \in Seq(Loc) /\ Len(ord) = Len(frameOrder) + 1 /\ Once(ord)
      /\ Range(ord) = Range(frameOrder) \union {l}
  BY Zenon, <1>0, <1>2, <1>4, AppendFacts
<1>6. k \in 0..(Len(ord) - 1)
  BY <1>0, <1>5
<1>7. /\ frameOrder' \in Seq(Loc) /\ Len(frameOrder') = Len(ord) - k /\ Once(frameOrder')
      /\ Oldest(ord, k) \in SUBSET Range(ord)
      /\ Range(frameOrder') = Range(ord) \ Oldest(ord, k)
  BY Zenon, <1>3, <1>5, <1>6, SuffixFacts
<1>8. Range(ord) \in SUBSET Loc /\ IsFiniteSet(Range(ord))
  BY Zenon, <1>5, OrderFacts
<1>9. bytes = BytesOf(Range(ord))
  <2>1. BytesOf(Range(ord)) = FrameSize[l] + BytesOf(Range(ord) \ {l})
    BY <1>5, <1>8, BytesFacts
  <2>2. Range(ord) \ {l} = Range(frameOrder)
    BY <1>4, <1>5
  <2>3. FrameSize[l] \in Nat /\ BytesOf(Range(frameOrder)) \in Nat
    BY <1>0, <1>4, CacheAssumption, BytesFacts
  <2>4. PICK a, b : a = FrameSize[l] /\ b = BytesOf(Range(frameOrder))
    OBVIOUS
  <2>5. a + b = b + a
    BY <2>3, <2>4
  <2>6. bytes = b + a
    BY <1>0, <1>2, <2>4
  <2>7. BytesOf(Range(ord)) = a + b
    BY Zenon, <2>1, <2>2, <2>4
  <2> QED BY <2>5, <2>6, <2>7
<1>10. Oldest(ord, k) \intersect frameCache = Oldest(ord, k)
  BY <1>0, <1>5, <1>7
<1>11. BytesLeft(ord, bytes, k) = BytesOf(Range(frameOrder')) /\ BytesLeft(ord, bytes, k) \in Nat
  <2>1. BytesLeft(ord, bytes, k) = bytes - BytesOf(Oldest(ord, k))
    BY Zenon, <1>10 DEF BytesLeft
  <2>2. /\ BytesOf(Range(ord) \ Oldest(ord, k)) = BytesOf(Range(ord)) - BytesOf(Oldest(ord, k))
        /\ BytesOf(Range(ord) \ Oldest(ord, k)) \in Nat
    BY <1>7, <1>8, BytesFacts
  <2> QED BY <1>7, <1>9, <2>1, <2>2
<1>12. CacheBounded'
  <2>1. frameCacheBytes' <= MaxBytes \/ k = Len(ord) - 1
    BY <1>3 DEF Stops
  <2>2. k = Len(ord) - 1 => Len(frameOrder') = 1
    BY <1>5, <1>6, <1>7
  <2> QED BY <1>3, <1>11, <2>1, <2>2 DEF CacheBounded, BytesOf
<1>13. adding'[c] = {} /\ \A d \in Caller : d # c => adding'[d] = adding[d]
  BY <1>0, <1>3
<1>14. CacheTypeOK'
  <2>1. frameCache' \subseteq Loc
    BY <1>3 DEF CInv, CacheTypeOK
  <2>2. adding' \in [Caller -> SUBSET Loc]
    BY <1>0, <1>3
  <2>3. frameCacheBytes' \in Int
    BY <1>3, <1>11
  <2> QED BY <1>7, <2>1, <2>2, <2>3 DEF CacheTypeOK
<1>15. OneEach'
  BY <1>13 DEF CInv, OneEach
<1>16. \A d \in Caller : \A x \in adding'[d] : x \in adding[d] /\ d # c /\ x # l /\ x \notin Range(ord)
  <2>1. ASSUME NEW d \in Caller, NEW x \in adding'[d]
        PROVE  x \in adding[d] /\ d # c /\ x # l /\ x \notin Range(ord)
    <3>1. d # c /\ x \in adding[d]
      BY <1>13, <2>1
    <3>2. x # l
      BY <1>a, <3>1
    <3> QED BY <1>0, <1>5, <3>1, <3>2
  <2> QED BY <2>1
<1>17. \A d \in Caller : \A x \in adding'[d] : x \notin Range(frameOrder')
  BY <1>7, <1>16
<1>18. \A d, e \in Caller : \A x \in adding'[d] : x \in adding'[e] => d = e
  BY <1>a, <1>16
<1>19. \A x : x \in frameCache' <=> x \in Range(frameOrder') \/ \E d \in Caller : x \in adding'[d]
  <2>1. ASSUME NEW x, x \in frameCache'
        PROVE  x \in Range(frameOrder') \/ \E d \in Caller : x \in adding'[d]
    <3>1. x \in frameCache /\ x \notin Oldest(ord, k)
      BY <1>3, <2>1
    <3>2. CASE x \in Range(ord)
      BY <1>7, <3>1, <3>2
    <3>3. CASE x \notin Range(ord)
      <4>1. PICK d \in Caller : x \in adding[d]
        BY <1>0, <1>5, <3>1, <3>3
      <4>2. d # c
        BY <1>4, <1>5, <3>3, <4>1
      <4> QED BY <1>13, <4>1, <4>2
    <3> QED BY <3>2, <3>3
  <2>2. ASSUME NEW x, x \in Range(frameOrder') PROVE x \in frameCache'
    BY <1>0, <1>3, <1>5, <1>7, <2>2
  <2>3. ASSUME NEW x, NEW d \in Caller, x \in adding'[d] PROVE x \in frameCache'
    BY <1>0, <1>3, <1>7, <1>16, <2>3
  <2> QED BY <2>1, <2>2, <2>3
<1>20. Once(frameOrder)'
  BY <1>7 DEF Once
<1>21. CacheTracked'
  BY <1>17, <1>18, <1>19, <1>20, TrackedPrime
<1> QED BY <1>12, <1>14, <1>15, <1>21 DEF CInv

\* Forgetting the frames of a pack (DropFrames, store.go) keeps the invariant:
\* the frames that stay are those of the other packs, in their order.
LEMMA DropFramesStep ==
  ASSUME CInv, NEW p, DropFrames(p)
  PROVE  CInv'
<1>0. /\ frameOrder \in Seq(Loc) /\ Once(frameOrder)
      /\ Range(frameOrder) \in SUBSET Loc /\ IsFiniteSet(Range(frameOrder))
      /\ Range(frameOrder) = {frameOrder[i] : i \in 1..Len(frameOrder)}
      /\ frameCacheBytes = BytesOf(Range(frameOrder)) /\ frameCacheBytes \in Nat
      /\ adding \in [Caller -> SUBSET Loc]
      /\ \A d \in Caller : Range(frameOrder) \intersect adding[d] = {}
      /\ \A x : x \in frameCache <=> x \in Range(frameOrder) \/ \E d \in Caller : x \in adding[d]
  BY CInvFacts
<1>1. PICK kept, n, gone :
        /\ kept = {i \in 1..Len(frameOrder) : frameOrder[i][1] # p}
        /\ n = Cardinality(kept)
        /\ gone = {l \in Range(frameOrder) : l[1] = p}
  BY Zenon
<1>2. /\ \E at \in Bijection(1..n, kept) : frameOrder' = [i \in 1..n |-> frameOrder[at[i]]]
      /\ frameCacheBytes' = frameCacheBytes - BytesOf(gone \intersect frameCache)
      /\ frameCache' = frameCache \ gone /\ adding' = adding
  BY Zenon, <1>1 DEF DropFrames
<1>3. PICK at \in Bijection(1..n, kept) : frameOrder' = [i \in 1..n |-> frameOrder[at[i]]]
  BY <1>2
<1>4. /\ \A i \in 1..n : at[i] \in kept
      /\ \A i, j \in 1..n : at[i] = at[j] => i = j
      /\ \A y \in kept : \E i \in 1..n : at[i] = y
  BY <1>3 DEF Bijection, Injection, Surjection, IsInjective
<1>5. n \in Nat /\ (kept = {} => n = 0) /\ (kept \subseteq {1} => n <= 1)
  <2>1. IsFiniteSet(1..Len(frameOrder)) /\ Len(frameOrder) \in Nat
    BY <1>0, FS_Interval
  <2>2. IsFiniteSet(kept)
    BY <1>1, <2>1, FS_Subset
  <2>3. n \in Nat /\ (kept = {} => n = 0)
    BY <1>1, <2>2, FS_CardinalityType, FS_EmptySet
  <2>4. ASSUME kept \subseteq {1} PROVE n <= 1
    <3>1. kept = {} \/ kept = {1}
      BY Zenon, <2>4
    <3>2. Cardinality({1}) = 1
      BY Zenon, FS_Singleton
    <3>3. n = 0 \/ n = 1
      BY Zenon, <1>1, <2>3, <3>1, <3>2
    <3> QED BY <3>3
  <2> QED BY <2>3, <2>4
<1>6. /\ frameOrder' \in Seq(Loc) /\ Len(frameOrder') = n
      /\ \A i \in 1..n : frameOrder'[i] = frameOrder[at[i]]
  <2>1. \A i \in 1..n : frameOrder[at[i]] \in Loc
    BY <1>0, <1>1, <1>4
  <2> QED BY <1>3, <1>5, <2>1
<1>7. Once(frameOrder)'
  <2>1. ASSUME NEW i \in 1..n, NEW j \in 1..n, frameOrder'[i] = frameOrder'[j] PROVE i = j
    <3>1. at[i] \in 1..Len(frameOrder) /\ at[j] \in 1..Len(frameOrder)
      BY <1>1, <1>4
    <3>2. at[i] = at[j]
      BY Zenon, <1>0, <1>6, <2>1, <3>1 DEF Once
    <3> QED BY <1>4, <3>2
  <2> QED BY <1>6, <2>1 DEF Once
<1>8. Range(frameOrder') = {frameOrder'[i] : i \in 1..n}
  BY <1>6, OrderFacts
<1>9. gone \in SUBSET Range(frameOrder) /\ Range(frameOrder') = Range(frameOrder) \ gone
  <2>1. ASSUME NEW x \in Range(frameOrder') PROVE x \in Range(frameOrder) \ gone
    <3>1. PICK i \in 1..n : x = frameOrder'[i]
      BY <1>8
    <3>2. at[i] \in 1..Len(frameOrder) /\ x = frameOrder[at[i]] /\ x[1] # p
      BY <1>1, <1>4, <1>6, <3>1
    <3> QED BY <1>0, <1>1, <3>2
  <2>2. ASSUME NEW x \in Range(frameOrder) \ gone PROVE x \in Range(frameOrder')
    <3>1. PICK j \in 1..Len(frameOrder) : x = frameOrder[j]
      BY <1>0
    <3>2. j \in kept
      BY <1>1, <2>2, <3>1
    <3>3. PICK i \in 1..n : at[i] = j
      BY <1>4, <3>2
    <3>4. x = frameOrder'[i]
      BY <1>6, <3>1, <3>3
    <3> QED BY <1>8, <3>4
  <2> QED BY <1>1, <2>1, <2>2
<1>10. /\ BytesOf(Range(frameOrder')) = frameCacheBytes - BytesOf(gone)
       /\ BytesOf(gone) \in Nat /\ BytesOf(Range(frameOrder')) \in Nat
  BY Zenon, <1>0, <1>9, BytesFacts
<1>11. frameCacheBytes' = BytesOf(Range(frameOrder'))
  <2>1. gone \intersect frameCache = gone
    BY <1>0, <1>9
  <2> QED BY Zenon, <1>2, <1>10, <2>1
<1>12. frameCacheBytes' <= MaxBytes \/ Len(frameOrder') = 1
  <2>m. MaxBytes \in Nat
    BY CacheAssumption
  <2>1. CASE frameCacheBytes <= MaxBytes
    BY <1>0, <1>10, <1>11, <2>1, <2>m
  <2>2. CASE Len(frameOrder) = 1
    <3>1. n = 0 \/ n = 1
      BY <1>1, <1>5, <2>2
    <3>2. CASE n = 0
      <4>1. Range(frameOrder') = {}
        BY <1>8, <3>2
      <4>2. BytesOf({}) = 0
        BY SumEmpty DEF BytesOf
      <4>3. frameCacheBytes' = 0
        BY <1>11, <4>1, <4>2
      <4> QED BY <4>3, <2>m
    <3> QED BY <1>6, <3>1, <3>2
  <2> QED BY <2>1, <2>2 DEF CInv, CacheBounded
<1>13. CacheBounded'
  BY <1>11, <1>12 DEF CacheBounded, BytesOf
<1>14. CacheTypeOK'
  <2>1. frameCache' \subseteq Loc
    BY <1>2 DEF CInv, CacheTypeOK
  <2>2. frameCacheBytes' \in Int
    BY <1>10, <1>11
  <2> QED BY <1>0, <1>2, <1>6, <2>1, <2>2 DEF CacheTypeOK
<1>15. OneEach'
  BY <1>2 DEF CInv, OneEach
<1>16. \A d \in Caller : \A x \in adding'[d] : x \notin Range(frameOrder') /\ x \notin gone
  BY <1>0, <1>2, <1>9
<1>17. \A d, e \in Caller : \A x \in adding'[d] : x \in adding'[e] => d = e
  <2>1. \A d, e \in Caller : \A x \in adding[d] : x \in adding[e] => d = e
    BY DEF CInv, CacheTracked
  <2> QED BY <1>2, <2>1
<1>18. \A x : x \in frameCache' <=> x \in Range(frameOrder') \/ \E d \in Caller : x \in adding'[d]
  BY <1>0, <1>2, <1>9, <1>16
<1>19. CacheTracked'
  BY <1>7, <1>16, <1>17, <1>18, TrackedPrime
<1> QED BY <1>13, <1>14, <1>15, <1>19 DEF CInv

\* Every step of any caller keeps the invariant.
LEMMA CInvStep ==
  ASSUME CInv, [CacheNext]_cacheVars
  PROVE  CInv'
<1>1. CASE \E c \in Caller, l \in Loc : LoadOrStore(c, l)
  BY <1>1, LoadOrStoreStep
<1>2. CASE \E c \in Caller : Account(c)
  BY <1>2, AccountStep
<1>3. CASE \E l \in Loc : DropFrames(l[1])
  BY <1>3, DropFramesStep
<1>4. CASE UNCHANGED cacheVars
  <2>1. /\ frameCache' = frameCache /\ frameOrder' = frameOrder
        /\ frameCacheBytes' = frameCacheBytes /\ adding' = adding
    BY <1>4 DEF cacheVars
  <2> QED BY <2>1 DEF CInv, CacheTypeOK, OneEach, CacheTracked, CacheBounded, Adding, BytesOf
<1> QED BY <1>1, <1>2, <1>3, <1>4 DEF CacheNext

\* The invariant holds in every state, for any number of callers, any frame
\* lengths and any ceiling.
THEOREM CacheInvariance == CacheSpec => []CInv
<1>1. CacheInit => CInv
  BY CInvInit
<1>2. CInv /\ [CacheNext]_cacheVars => CInv'
  BY CInvStep
<1> QED BY <1>1, <1>2, PTL DEF CacheSpec

\* Every frame in the map is accounted for once, or about to be by one caller,
\* although CacheFrame publishes before it takes the lock (store.go:483-501).
THEOREM Tracked == CacheSpec => []CacheTracked
<1>1. CInv => CacheTracked
  BY DEF CInv
<1> QED BY <1>1, CacheInvariance, PTL

\* frameCacheBytes is the length of the frames accounted for, and exceeds the
\* ceiling only for a frame that alone exceeds it (store.go:490-499).
THEOREM Bounded == CacheSpec => []CacheBounded
<1>1. CInv => CacheBounded
  BY DEF CInv
<1> QED BY <1>1, CacheInvariance, PTL
=============================================================================
