---------------------------- MODULE NumberFacts ----------------------------
(***************************************************************************)
(* What the proofs need of numbers and do not find in the library: that    *)
(* Min and a greatest element exist, and how a sum over a set changes.     *)
(*                                                                         *)
(* SumFunctionOnSet recurs over the subsets of its set in an order nobody  *)
(* knows (CHOOSE).  The library's induction theorems cannot be instantiated*)
(* by the provers, so every induction here is one on the least size of a   *)
(* counterexample.                                                         *)
(***************************************************************************)
EXTENDS FiniteSetsExt, FiniteSetTheorems, WellFoundedInduction, TLAPS

\* A nonempty set of natural numbers has a least element, and Min returns it.
LEMMA LeastNumber ==
  ASSUME NEW S \in SUBSET Nat, S # {}
  PROVE  Min(S) \in S /\ \A y \in S : Min(S) <= y
<1> DEFINE R == OpToRel(<, Nat)
<1>1. IsWellFoundedOn(R, Nat)
  BY NatLessThanWellFounded
<1> HIDE DEF R
<1>2. PICK x \in S : \A y \in S : ~(<<y, x>> \in R)
  BY <1>1, WFMin
<1>3. \A y \in S : ~(y < x)
  BY <1>2 DEF R, OpToRel
<1>4. \A y \in S : x <= y
  BY <1>3
<1> QED
  BY <1>4 DEF Min

\* A nonempty bounded set of natural numbers has a greatest element.
LEMMA GreatestNumber ==
  ASSUME NEW S \in SUBSET Nat, S # {}, NEW n \in Nat, \A x \in S : x <= n
  PROVE  \E x \in S : \A y \in S : y <= x
<1> DEFINE gaps == {n - x : x \in S}
<1>1. gaps \in SUBSET Nat /\ gaps # {}
<2>1. \A x \in S : n - x \in Nat
  OBVIOUS
<2> QED
  BY <2>1
<1> HIDE DEF gaps
<1>2. Min(gaps) \in gaps /\ \A k \in gaps : Min(gaps) <= k
  BY <1>1, LeastNumber
<1>3. PICK x \in S : Min(gaps) = n - x
  BY <1>2 DEF gaps
<1>4. ASSUME NEW y \in S
      PROVE  y <= x
<2>1. n - y \in gaps
  BY DEF gaps
<2> QED
  BY <1>2, <1>3, <2>1
<1> QED
  BY <1>4

-----------------------------------------------------------------------------
AnyOf(S) == CHOOSE x \in S : TRUE
NatValued(f, S) == \A x \in S : f[x] \in Nat
\* g[T] is the sum of f over T, as FoldFunctionOnSet computes it.
SumsAt(g, f, T) == g[T] = IF T = {} THEN 0 ELSE f[AnyOf(T)] + g[T \ {AnyOf(T)}]
SumsOver(g, f, S) ==
  g = [T \in SUBSET S |-> IF T = {} THEN 0 ELSE f[AnyOf(T)] + g[T \ {AnyOf(T)}]]

\* g sums f over S, and SumFunctionOnSet does what g does.
Sums(g, f, S) ==
  /\ g \in [SUBSET S -> Nat] /\ SumsOver(g, f, S)
  /\ \A T \in SUBSET S : SumFunctionOnSet(f, T) = g[T]

LEMMA SumIsChosen ==
  ASSUME NEW f, NEW S
  PROVE  SumFunctionOnSet(f, S) = (CHOOSE g : SumsOver(g, f, S))[S]
BY DEF SumFunctionOnSet, FoldFunctionOnSet, MapThenFoldSet, SumsOver, AnyOf

\* One element less, and the element it was.
LEMMA SmallerSet ==
  ASSUME NEW T, IsFiniteSet(T), T # {}
  PROVE  /\ AnyOf(T) \in T /\ IsFiniteSet(T \ {AnyOf(T)})
         /\ Cardinality(T) \in Nat /\ Cardinality(T \ {AnyOf(T)}) \in Nat
         /\ Cardinality(T) > 0
         /\ Cardinality(T \ {AnyOf(T)}) = Cardinality(T) - 1
<1>1. AnyOf(T) \in T
  BY DEF AnyOf
<1>2. IsFiniteSet(T \ {AnyOf(T)}) /\ Cardinality(T \ {AnyOf(T)}) = Cardinality(T) - 1
  BY <1>1, FS_RemoveElement
<1>3. Cardinality(T) \in Nat /\ Cardinality(T \ {AnyOf(T)}) \in Nat
  BY <1>2, FS_CardinalityType
<1> QED
  BY <1>1, <1>2, <1>3

\* The recursion has a solution over the subsets of at most n elements, for every n.
LEMMA SumsExist ==
  ASSUME NEW S, IsFiniteSet(S), NEW f, NatValued(f, S)
  PROVE  \E g \in [SUBSET S -> Nat] : SumsOver(g, f, S)
<1> DEFINE Below(n) == {T \in SUBSET S : Cardinality(T) <= n}
           Solves(g, n) == \A T \in Below(n) : SumsAt(g, f, T)
           bad == {n \in Nat : ~ \E g \in [Below(n) -> Nat] : Solves(g, n)}
<1>1. ASSUME NEW T \in SUBSET S
      PROVE  IsFiniteSet(T) /\ Cardinality(T) \in Nat /\ (Cardinality(T) = 0 <=> T = {})
  BY FS_Subset, FS_CardinalityType, FS_EmptySet
<1>2. 0 \notin bad
<2> DEFINE g == [T \in Below(0) |-> 0]
<2>1. \A T \in Below(0) : T = {}
  BY <1>1
<2>2. g \in [Below(0) -> Nat] /\ Solves(g, 0)
  BY <2>1 DEF SumsAt
<2> QED
  BY <2>2
<1>3. ASSUME NEW m \in Nat, m + 1 \in bad
      PROVE  m \in bad
<2> SUFFICES ASSUME NEW g \in [Below(m) -> Nat], Solves(g, m)
             PROVE  \E h \in [Below(m + 1) -> Nat] : Solves(h, m + 1)
  BY <1>3
<2> DEFINE h == [T \in Below(m + 1) |->
                   IF T = {} THEN 0 ELSE f[AnyOf(T)] + g[T \ {AnyOf(T)}]]
<2>1. ASSUME NEW T \in Below(m + 1), T # {}
      PROVE  /\ AnyOf(T) \in S /\ T \ {AnyOf(T)} \in Below(m)
             /\ T \ {AnyOf(T)} \in Below(m + 1)
<3>1. /\ AnyOf(T) \in T /\ Cardinality(T) \in Nat /\ Cardinality(T \ {AnyOf(T)}) \in Nat
      /\ Cardinality(T \ {AnyOf(T)}) = Cardinality(T) - 1
  BY <1>1, <2>1, SmallerSet
<3> QED
  BY <3>1
<2>2. h \in [Below(m + 1) -> Nat]
<3>1. ASSUME NEW T \in Below(m + 1), T # {}
      PROVE  f[AnyOf(T)] + g[T \ {AnyOf(T)}] \in Nat
<4>1. f[AnyOf(T)] \in Nat /\ g[T \ {AnyOf(T)}] \in Nat
  BY <2>1, <3>1 DEF NatValued
<4> QED
  BY <4>1
<3> QED
  BY <3>1
<2>3. ASSUME NEW T \in Below(m)
      PROVE  h[T] = g[T]
<3>1. T \in Below(m + 1) /\ SumsAt(g, f, T)
  BY <1>1
<3> QED
  BY <3>1 DEF SumsAt
<2>4. ASSUME NEW T \in Below(m + 1)
      PROVE  SumsAt(h, f, T)
  BY <2>1, <2>3 DEF SumsAt
<2> QED
  BY <2>2, <2>4
<1>4. bad = {}
<2> SUFFICES ASSUME bad # {}
             PROVE  FALSE
  OBVIOUS
<2> HIDE DEF bad
<2>1. bad \in SUBSET Nat
  BY DEF bad
<2>2. Min(bad) \in bad /\ \A n \in bad : Min(bad) <= n
  BY <2>1, LeastNumber
<2>3. Min(bad) \in Nat /\ Min(bad) # 0
  BY <1>2, <2>1, <2>2
<2>4. Min(bad) - 1 \in Nat /\ (Min(bad) - 1) + 1 = Min(bad)
  BY <2>3
<2>5. Min(bad) - 1 \in bad
  BY <1>3, <2>2, <2>4
<2> QED
  BY <2>2, <2>3, <2>5
<1>5. Cardinality(S) \in Nat /\ Below(Cardinality(S)) = SUBSET S
<2>1. Cardinality(S) \in Nat
  BY FS_CardinalityType
<2>2. \A T \in SUBSET S : Cardinality(T) <= Cardinality(S)
  BY FS_Subset
<2> QED
  BY <2>1, <2>2
<1>6. PICK g \in [SUBSET S -> Nat] : Solves(g, Cardinality(S))
  BY <1>4, <1>5
<1>7. SumsOver(g, f, S)
  BY <1>5, <1>6 DEF SumsAt, SumsOver
<1> QED
  BY <1>7

\* It has one solution, which looks at nothing but the set's own elements.
LEMMA SumsAgree ==
  ASSUME NEW S, NEW U \in SUBSET S, IsFiniteSet(U), NEW f, NEW e, \A x \in U : f[x] = e[x],
         NEW g, SumsOver(g, f, S), NEW h, SumsOver(h, e, U)
  PROVE  \A T \in SUBSET U : g[T] = h[T]
<1> DEFINE wrong == {T \in SUBSET U : g[T] # h[T]}
           sizes == {Cardinality(T) : T \in wrong}
<1>1. ASSUME NEW T \in SUBSET U
      PROVE  IsFiniteSet(T) /\ Cardinality(T) \in Nat
  BY FS_Subset, FS_CardinalityType
<1>2. ASSUME NEW T \in SUBSET U
      PROVE  SumsAt(g, f, T) /\ SumsAt(h, e, T)
  BY DEF SumsAt, SumsOver
<1> SUFFICES ASSUME wrong # {}
             PROVE  FALSE
  OBVIOUS
<1>3. sizes \in SUBSET Nat /\ sizes # {}
  BY <1>1
<1> HIDE DEF sizes
<1>4. Min(sizes) \in sizes /\ \A n \in sizes : Min(sizes) <= n
  BY <1>3, LeastNumber
<1>5. PICK T \in wrong : Cardinality(T) = Min(sizes)
  BY <1>4 DEF sizes
<1>6. T # {}
  BY <1>2 DEF SumsAt
<1>7. /\ AnyOf(T) \in T /\ T \ {AnyOf(T)} \in SUBSET U
      /\ Cardinality(T) \in Nat /\ Cardinality(T \ {AnyOf(T)}) = Cardinality(T) - 1
  BY <1>1, <1>6, SmallerSet
<1>8. T \ {AnyOf(T)} \notin wrong
<2> SUFFICES ASSUME T \ {AnyOf(T)} \in wrong
             PROVE  FALSE
  OBVIOUS
<2>1. Cardinality(T \ {AnyOf(T)}) \in sizes
  BY DEF sizes
<2> QED
  BY <1>4, <1>5, <1>7, <2>1
<1>9. g[T \ {AnyOf(T)}] = h[T \ {AnyOf(T)}] /\ f[AnyOf(T)] = e[AnyOf(T)]
  BY <1>7, <1>8
<1> QED
  BY <1>2, <1>6, <1>9 DEF SumsAt

\* SumFunctionOnSet is that solution, on every subset of a set f has numbers for.
LEMMA SumIsSolution ==
  ASSUME NEW S, IsFiniteSet(S), NEW f, NatValued(f, S)
  PROVE  \E g : Sums(g, f, S)
<1>1. PICK g \in [SUBSET S -> Nat] : SumsOver(g, f, S)
  BY SumsExist
<1>2. ASSUME NEW T \in SUBSET S
      PROVE  SumFunctionOnSet(f, T) = g[T]
<2> DEFINE h == CHOOSE h : SumsOver(h, f, T)
<2>1. IsFiniteSet(T) /\ NatValued(f, T)
  BY FS_Subset DEF NatValued
<2>2. SumsOver(h, f, T)
  BY <2>1, SumsExist
<2> HIDE DEF h
<2>3. g[T] = h[T]
  BY <1>1, <2>1, <2>2, SumsAgree
<2>4. SumFunctionOnSet(f, T) = h[T]
  BY SumIsChosen DEF h
<2> QED
  BY <2>3, <2>4
<1> QED
  BY <1>1, <1>2 DEF Sums

\* The sum over no element is 0, and every sum of naturals is a natural.
LEMMA SumType ==
  ASSUME NEW S, IsFiniteSet(S), NEW f, NatValued(f, S)
  PROVE  SumFunctionOnSet(f, S) \in Nat
<1>1. PICK g : Sums(g, f, S)
  BY SumIsSolution
<1> QED
  BY <1>1 DEF Sums

LEMMA SumEmpty ==
  ASSUME NEW f
  PROVE  SumFunctionOnSet(f, {}) = 0
<1>1. IsFiniteSet({}) /\ NatValued(f, {})
  BY FS_EmptySet DEF NatValued
<1>2. PICK g : Sums(g, f, {})
  BY <1>1, SumIsSolution
<1> QED
  BY <1>2 DEF Sums, SumsOver

\* Functions that agree on a set have the same sum over it.
LEMMA SumSame ==
  ASSUME NEW S, IsFiniteSet(S), NEW f, NatValued(f, S), NEW e, \A x \in S : f[x] = e[x]
  PROVE  SumFunctionOnSet(f, S) = SumFunctionOnSet(e, S)
<1>1. NatValued(e, S)
  BY DEF NatValued
<1>2. PICK g : Sums(g, f, S)
  BY SumIsSolution
<1>3. PICK h : Sums(h, e, S)
  BY <1>1, SumIsSolution
<1> QED
  BY <1>2, <1>3, SumsAgree DEF Sums

\* Whichever element is taken out, the sum is its value and that of the rest:
\* the order of the recursion does not matter.
LEMMA SumRemove ==
  ASSUME NEW S, IsFiniteSet(S), NEW f, NatValued(f, S), NEW x \in S
  PROVE  SumFunctionOnSet(f, S) = SumFunctionOnSet(f, S \ {x}) + f[x]
<1>1. PICK g : Sums(g, f, S)
  BY SumIsSolution
<1> DEFINE wrong == {T \in SUBSET S : \E y \in T : g[T] # g[T \ {y}] + f[y]}
           sizes == {Cardinality(T) : T \in wrong}
<1>2. ASSUME NEW T \in SUBSET S
      PROVE  IsFiniteSet(T) /\ Cardinality(T) \in Nat /\ SumsAt(g, f, T)
  BY <1>1, FS_Subset, FS_CardinalityType DEF Sums, SumsAt, SumsOver
<1>3. wrong = {}
<2> SUFFICES ASSUME wrong # {}
             PROVE  FALSE
  OBVIOUS
<2>1. sizes \in SUBSET Nat /\ sizes # {}
  BY <1>2
<2> HIDE DEF sizes
<2>2. Min(sizes) \in sizes /\ \A n \in sizes : Min(sizes) <= n
  BY <2>1, LeastNumber
<2>3. PICK T \in wrong : Cardinality(T) = Min(sizes)
  BY <2>2 DEF sizes
<2>4. PICK y \in T : g[T] # g[T \ {y}] + f[y]
  BY <2>3
<2> DEFINE z == AnyOf(T)
<2>5. /\ z \in T /\ T \in SUBSET S /\ Cardinality(T) \in Nat
      /\ g[T] = g[T \ {z}] + f[z] /\ Cardinality(T \ {z}) = Cardinality(T) - 1
<3>1. z \in T /\ Cardinality(T) \in Nat /\ Cardinality(T \ {z}) = Cardinality(T) - 1
  BY <1>2, <2>4, SmallerSet
<3>2. g[T] = f[z] + g[T \ {z}]
  BY <1>2, <2>4 DEF SumsAt
<3>3. f[z] \in Nat /\ g[T \ {z}] \in Nat
  BY <1>1, <3>1 DEF NatValued, Sums
<3> QED
  BY <3>1, <3>2, <3>3
<2> HIDE DEF z
<2>6. y # z /\ y \in S /\ z \in S
  BY <2>4, <2>5
<2>7. Cardinality(T \ {y}) = Cardinality(T) - 1
  BY <1>2, <2>5, FS_RemoveElement
<2>8. ASSUME NEW V \in SUBSET S, Cardinality(V) = Cardinality(T) - 1
      PROVE  \A v \in V : g[V] = g[V \ {v}] + f[v]
<3> SUFFICES ASSUME V \in wrong
             PROVE  FALSE
  OBVIOUS
<3>1. Cardinality(V) \in sizes
  BY DEF sizes
<3> QED
  BY <2>2, <2>3, <2>5, <2>8, <3>1
<2>9. g[T \ {z}] = g[(T \ {z}) \ {y}] + f[y]
  BY <2>5, <2>6, <2>8
<2>10. g[T \ {y}] = g[(T \ {y}) \ {z}] + f[z]
  BY <2>5, <2>6, <2>7, <2>8
<2> DEFINE rest == g[(T \ {y}) \ {z}]
<2>11. rest = g[(T \ {z}) \ {y}]
<3>1. (T \ {z}) \ {y} = (T \ {y}) \ {z}
  OBVIOUS
<3> QED
  BY <3>1
<2>12. f[y] \in Nat /\ f[z] \in Nat /\ rest \in Nat
  BY <1>1, <2>6 DEF NatValued, Sums
<2>13. g[T \ {z}] = rest + f[y] /\ g[T \ {y}] = rest + f[z]
  BY <2>9, <2>10, <2>11
<2> HIDE DEF rest
<2>14. g[T] = g[T \ {y}] + f[y]
  BY <2>5, <2>12, <2>13
<2> QED
  BY <2>4, <2>14
<1>4. g[S] = g[S \ {x}] + f[x]
  BY <1>3
<1> QED
  BY <1>1, <1>4 DEF Sums

\* An element more.
LEMMA SumAdd ==
  ASSUME NEW S, IsFiniteSet(S), NEW f, NEW x, x \notin S, NatValued(f, S \cup {x})
  PROVE  SumFunctionOnSet(f, S \cup {x}) = SumFunctionOnSet(f, S) + f[x]
<1>1. IsFiniteSet(S \cup {x}) /\ (S \cup {x}) \ {x} = S
  BY FS_AddElement
<1> QED
  BY <1>1, SumRemove

\* A part sums to no more than the whole.
LEMMA SumSubset ==
  ASSUME NEW S, IsFiniteSet(S), NEW f, NatValued(f, S), NEW T \in SUBSET S
  PROVE  SumFunctionOnSet(f, T) <= SumFunctionOnSet(f, S)
<1> DEFINE sum(U) == SumFunctionOnSet(f, U)
           wrong == {U \in SUBSET S : T \subseteq U /\ ~(sum(T) <= sum(U))}
           sizes == {Cardinality(U) : U \in wrong}
<1>1. ASSUME NEW U \in SUBSET S
      PROVE  /\ IsFiniteSet(U) /\ Cardinality(U) \in Nat /\ NatValued(f, U)
             /\ sum(U) \in Nat
<2>1. IsFiniteSet(U) /\ NatValued(f, U)
  BY FS_Subset DEF NatValued
<2> QED
  BY <2>1, FS_CardinalityType, SumType
<1> SUFFICES ASSUME wrong # {}
             PROVE  FALSE
  BY <1>1
<1> HIDE DEF sum
<1>2. sizes \in SUBSET Nat /\ sizes # {}
  BY <1>1
<1> HIDE DEF sizes
<1>3. Min(sizes) \in sizes /\ \A n \in sizes : Min(sizes) <= n
  BY <1>2, LeastNumber
<1>4. PICK U \in wrong : Cardinality(U) = Min(sizes)
  BY <1>3 DEF sizes
<1>5. U \in SUBSET S /\ T \subseteq U /\ ~(sum(T) <= sum(U))
  BY <1>4
<1>6. PICK x \in U : x \notin T
<2>1. U # T
  BY <1>1, <1>5
<2> QED
  BY <1>5, <2>1
<1>7. /\ U \ {x} \in SUBSET S /\ T \subseteq U \ {x}
      /\ Cardinality(U \ {x}) = Cardinality(U) - 1
  BY <1>1, <1>5, <1>6, FS_RemoveElement
<1>8. U \ {x} \notin wrong
<2> SUFFICES ASSUME U \ {x} \in wrong
             PROVE  FALSE
  OBVIOUS
<2>1. Cardinality(U \ {x}) \in sizes
  BY DEF sizes
<2>2. Cardinality(U) \in Nat
  BY <1>1, <1>5
<2> QED
  BY <1>3, <1>4, <1>7, <2>1, <2>2
<1>9. sum(T) <= sum(U \ {x})
  BY <1>7, <1>8
<1>10. sum(U) = sum(U \ {x}) + f[x]
  BY <1>1, <1>5, <1>6, SumRemove DEF sum
<1>11. sum(U) \in Nat /\ sum(U \ {x}) \in Nat /\ f[x] \in Nat /\ sum(T) \in Nat
  BY <1>1, <1>5, <1>6, <1>7 DEF NatValued
<1> QED
  BY <1>5, <1>9, <1>10, <1>11

\* A nonempty finite set of natural numbers has a greatest element: its sum bounds it.
LEMMA GreatestOfFinite ==
  ASSUME NEW S \in SUBSET Nat, S # {}, IsFiniteSet(S)
  PROVE  \E x \in S : \A y \in S : y <= x
<1> DEFINE f == [x \in S |-> x]
           sum == SumFunctionOnSet(f, S)
<1>1. NatValued(f, S)
  BY DEF NatValued
<1>2. sum \in Nat
  BY <1>1, SumType
<1>3. ASSUME NEW x \in S
      PROVE  x <= sum
<2>1. IsFiniteSet(S \ {x}) /\ NatValued(f, S \ {x})
  BY <1>1, FS_RemoveElement DEF NatValued
<2>2. sum = SumFunctionOnSet(f, S \ {x}) + f[x] /\ f[x] = x
  BY <1>1, SumRemove
<2>3. SumFunctionOnSet(f, S \ {x}) \in Nat /\ x \in Nat
  BY <2>1, SumType
<2> QED
  BY <2>2, <2>3
<1> HIDE DEF sum
<1> QED
  BY <1>2, <1>3, GreatestNumber
=============================================================================
