-------------------------------- MODULE Sums --------------------------------
(***************************************************************************)
(* Finite sums and least elements, for the proofs: what SumFunctionOnSet,  *)
(* which is a fold in an order that is chosen, does not depend on.  The    *)
(* argument is by well-founded induction over the subsets of a finite set: *)
(* of those for which a claim fails one is minimal, and it is not empty.   *)
(***************************************************************************)
EXTENDS Integers, FiniteSetsExt, Functions, FiniteSetTheorems, WellFoundedInduction, TLAPS

Chosen(T) == CHOOSE x \in T : TRUE

\* g sums the values of f over the subsets of S, each from a smaller one.
SumsUp(g, f, S) ==
    g = [T \in SUBSET S |-> IF T = {} THEN 0 ELSE f[Chosen(T)] + g[T \ {Chosen(T)}]]

LEMMA SumIs ==
  ASSUME NEW f, NEW S
  PROVE  SumFunctionOnSet(f, S) = (CHOOSE g : SumsUp(g, f, S))[S]
BY DEF SumFunctionOnSet, FoldFunctionOnSet, MapThenFoldSet, SumsUp, Chosen

LEMMA LeastSubset ==
  ASSUME NEW S, IsFiniteSet(S), NEW C \in SUBSET (SUBSET S), C # {}
  PROVE  \E T \in C : \A U \in C : ~(U \subseteq T /\ U # T)
<1>1. IsWellFoundedOn(StrictSubsetOrdering(S), FiniteSubsetsOf(S))
  BY FS_StrictSubsetOrderingWellFounded
<1>2. C \subseteq FiniteSubsetsOf(S)
  BY FS_Subset DEF FiniteSubsetsOf
<1>3. \E T \in C : \A U \in C : ~ (<<U, T>> \in StrictSubsetOrdering(S))
  BY <1>1, <1>2, WFMin
<1> QED
  BY <1>2, <1>3 DEF StrictSubsetOrdering, FiniteSubsetsOf

LEMMA SumsAgree ==
  ASSUME NEW S, IsFiniteSet(S), NEW f, NEW g, SumsUp(g, f, S),
         NEW T \in SUBSET S, NEW h, SumsUp(h, f, T)
  PROVE  \A U \in SUBSET T : g[U] = h[U]
<1> DEFINE C == {U \in SUBSET T : g[U] # h[U]}
<1> SUFFICES ASSUME C # {} PROVE FALSE
  OBVIOUS
<1>1. PICK U \in C : \A V \in C : ~(V \subseteq U /\ V # U)
  <2>1. IsFiniteSet(T)
    BY FS_Subset
  <2> HIDE DEF C
  <2>2. C \in SUBSET (SUBSET T)
    BY DEF C
  <2> QED
    BY <2>1, <2>2, LeastSubset
<1> DEFINE c == Chosen(U)
           V == U \ {c}
<1>2. U # {}
  BY <1>1 DEF SumsUp
<1>3. c \in U
  BY <1>2 DEF Chosen
<1>4. V \subseteq U /\ V # U
  BY <1>3
<1>5. g[V] = h[V]
  BY <1>1, <1>4
<1>6. g[U] = f[c] + g[V] /\ h[U] = f[c] + h[V]
  BY <1>1, <1>2 DEF SumsUp
<1> QED
  BY <1>1, <1>5, <1>6

LEMMA SumExists ==
  ASSUME NEW S, IsFiniteSet(S), NEW f
  PROVE  \E g : SumsUp(g, f, S)
<1> DEFINE C == {T \in SUBSET S : ~\E g : SumsUp(g, f, T)}
<1> SUFFICES ASSUME C # {} PROVE FALSE
  OBVIOUS
<1>1. PICK T \in C : \A V \in C : ~(V \subseteq T /\ V # T)
  <2> HIDE DEF C
  <2>2. C \in SUBSET (SUBSET S)
    BY DEF C
  <2> QED
    BY <2>2, LeastSubset
<1> DEFINE H == [U \in SUBSET S |-> (CHOOSE g : SumsUp(g, f, U))[U]]
           G == [U \in SUBSET T |->
                    IF U = {} THEN 0 ELSE f[Chosen(U)] + H[U \ {Chosen(U)}]]
<1>2. ASSUME NEW U \in SUBSET T, U # T PROVE G[U] = H[U]
  <2>1. PICK g : g = (CHOOSE k : SumsUp(k, f, U)) /\ SumsUp(g, f, U)
    BY <1>1, <1>2
  <2>2. H[U] = g[U]
    BY <2>1
  <2>3. CASE U = {}
    BY <2>1, <2>2, <2>3 DEF SumsUp
  <2>4. CASE U # {}
    <3> DEFINE V == U \ {Chosen(U)}
    <3>1. V \subseteq U /\ V # U
      BY <2>4 DEF Chosen
    <3>2. PICK h : h = (CHOOSE k : SumsUp(k, f, V)) /\ SumsUp(h, f, V)
      BY <1>1, <1>2, <3>1
    <3>3. H[V] = h[V]
      BY <3>1, <3>2
    <3>4. IsFiniteSet(U)
      BY FS_Subset
    <3>5. g[V] = h[V]
      BY <2>1, <3>1, <3>2, <3>4, SumsAgree
    <3>6. g[U] = f[Chosen(U)] + g[V]
      BY <2>1, <2>4 DEF SumsUp
    <3>7. G[U] = f[Chosen(U)] + H[V]
      BY <2>4
    <3> QED
      BY <2>2, <3>3, <3>5, <3>6, <3>7
  <2> QED
    BY <2>3, <2>4
<1>3. SumsUp(G, f, T)
  <2>1. \A U \in SUBSET T : U # {} =>
           /\ U \ {Chosen(U)} \in SUBSET T /\ U \ {Chosen(U)} # T
    BY DEF Chosen
  <2>2. \A U \in SUBSET T : U # {} => G[U \ {Chosen(U)}] = H[U \ {Chosen(U)}]
    BY <1>2, <2>1
  <2> DEFINE K == [U \in SUBSET T |->
                    IF U = {} THEN 0 ELSE f[Chosen(U)] + G[U \ {Chosen(U)}]]
  <2>3. \A U \in SUBSET T : G[U] = K[U]
    <3> SUFFICES ASSUME NEW U \in SUBSET T PROVE G[U] = K[U]
      OBVIOUS
    <3>1. U # {} => G[U \ {Chosen(U)}] = H[U \ {Chosen(U)}]
      BY <2>2
    <3>2. G[U] = IF U = {} THEN 0 ELSE f[Chosen(U)] + H[U \ {Chosen(U)}]
      OBVIOUS
    <3>3. K[U] = IF U = {} THEN 0 ELSE f[Chosen(U)] + G[U \ {Chosen(U)}]
      OBVIOUS
    <3> HIDE DEF G, H, K
    <3> QED
      BY <3>1, <3>2, <3>3
  <2>4. G = K
    BY <2>3
  <2> QED
    BY <2>4 DEF SumsUp
<1> QED
  BY <1>1, <1>3

LEMMA SumEmpty ==
  ASSUME NEW f
  PROVE  SumFunctionOnSet(f, {}) = 0
<1>1. SumsUp(CHOOSE g : SumsUp(g, f, {}), f, {})
  BY FS_EmptySet, SumExists
<1> QED
  BY <1>1, SumIs DEF SumsUp

LEMMA SumChosen ==
  ASSUME NEW f, NEW S, IsFiniteSet(S), S # {}
  PROVE  SumFunctionOnSet(f, S) = f[Chosen(S)] + SumFunctionOnSet(f, S \ {Chosen(S)})
<1> DEFINE T == S \ {Chosen(S)}
<1>1. PICK g : SumsUp(g, f, S) /\ SumFunctionOnSet(f, S) = g[S]
  BY SumExists, SumIs
<1>2. IsFiniteSet(T)
  BY FS_Subset
<1>3. PICK h : SumsUp(h, f, T) /\ SumFunctionOnSet(f, T) = h[T]
  BY <1>2, SumExists, SumIs
<1>4. g[T] = h[T]
  BY <1>1, <1>3, SumsAgree
<1>5. g[S] = f[Chosen(S)] + g[T]
  BY <1>1 DEF SumsUp
<1> QED
  BY <1>1, <1>3, <1>4, <1>5

LEMMA SumType ==
  ASSUME NEW f, NEW S, IsFiniteSet(S), \A x \in S : f[x] \in Nat
  PROVE  SumFunctionOnSet(f, S) \in Nat
<1> DEFINE C == {T \in SUBSET S : SumFunctionOnSet(f, T) \notin Nat}
<1> SUFFICES ASSUME C # {} PROVE FALSE
  OBVIOUS
<1>1. PICK T \in C : \A V \in C : ~(V \subseteq T /\ V # T)
  <2> HIDE DEF C
  <2>2. C \in SUBSET (SUBSET S)
    BY DEF C
  <2> QED
    BY <2>2, LeastSubset
<1>2. T # {}
  <2>1. SumFunctionOnSet(f, {}) = 0
    BY SumEmpty
  <2>2. SumFunctionOnSet(f, T) \notin Nat
    BY <1>1
  <2> HIDE DEF C
  <2> QED
    BY <2>1, <2>2
<1> DEFINE c == Chosen(T)
           U == T \ {c}
<1>3. c \in T
  BY <1>2 DEF Chosen
<1>4. SumFunctionOnSet(f, U) \in Nat
  BY <1>1, <1>3
<1>5. SumFunctionOnSet(f, T) = f[c] + SumFunctionOnSet(f, U)
  BY <1>2, FS_Subset, SumChosen
<1> HIDE DEF c, U
<1> QED
  BY <1>1, <1>3, <1>4, <1>5

LEMMA SumRemove ==
  ASSUME NEW f, NEW S, IsFiniteSet(S), \A x \in S : f[x] \in Nat, NEW x \in S
  PROVE  SumFunctionOnSet(f, S) = f[x] + SumFunctionOnSet(f, S \ {x})
<1> DEFINE C == {T \in SUBSET S : \E y \in T : SumFunctionOnSet(f, T) # f[y] + SumFunctionOnSet(f, T \ {y})}
<1> SUFFICES ASSUME C # {} PROVE FALSE
  OBVIOUS
<1>1. PICK T \in C : \A V \in C : ~(V \subseteq T /\ V # T)
  <2> HIDE DEF C
  <2>2. C \in SUBSET (SUBSET S)
    BY DEF C
  <2> QED
    BY <2>2, LeastSubset
<1>2. PICK y \in T : SumFunctionOnSet(f, T) # f[y] + SumFunctionOnSet(f, T \ {y})
  BY <1>1
<1> DEFINE c == Chosen(T)
           A == T \ {c}
           B == A \ {y}
           D == T \ {y}
<1>3. c \in T
  BY <1>2 DEF Chosen
<1>4. IsFiniteSet(T) /\ T \subseteq S
  BY FS_Subset
<1>5. SumFunctionOnSet(f, T) = f[c] + SumFunctionOnSet(f, A)
  BY <1>2, <1>4, SumChosen
<1>6. c # y
  BY <1>2, <1>5
<1>7. ASSUME NEW V \in SUBSET T, V # T, NEW z \in V
      PROVE  SumFunctionOnSet(f, V) = f[z] + SumFunctionOnSet(f, V \ {z})
  <2>1. V \notin C /\ V \in SUBSET S
    BY <1>1, <1>7
  <2> QED
    BY <1>7, <2>1
<1>8. /\ SumFunctionOnSet(f, A) = f[y] + SumFunctionOnSet(f, B)
      /\ SumFunctionOnSet(f, D) = f[c] + SumFunctionOnSet(f, D \ {c})
  <2>1. A \in SUBSET T /\ A # T /\ y \in A
    BY <1>3, <1>6
  <2>2. D \in SUBSET T /\ D # T /\ c \in D
    BY <1>3, <1>6
  <2> HIDE DEF A, D, c, C
  <2> QED
    BY <1>7, <2>1, <2>2
<1>9. D \ {c} = B
  OBVIOUS
<1>10. SumFunctionOnSet(f, B) \in Nat /\ f[c] \in Nat /\ f[y] \in Nat
  <2>1. IsFiniteSet(B)
    BY <1>4, FS_Subset
  <2> QED
    BY <1>2, <1>3, <1>4, <2>1, SumType
<1> HIDE DEF A, B, D, c
<1> QED
  BY <1>2, <1>5, <1>8, <1>9, <1>10 DEF D

\* The sum depends only on the values summed.
LEMMA SumSame ==
  ASSUME NEW f, NEW g, NEW S, IsFiniteSet(S), \A x \in S : f[x] = g[x]
  PROVE  SumFunctionOnSet(f, S) = SumFunctionOnSet(g, S)
<1> DEFINE C == {T \in SUBSET S : SumFunctionOnSet(f, T) # SumFunctionOnSet(g, T)}
<1> SUFFICES ASSUME C # {} PROVE FALSE
  OBVIOUS
<1>1. PICK T \in C : \A V \in C : ~(V \subseteq T /\ V # T)
  <2> HIDE DEF C
  <2>2. C \in SUBSET (SUBSET S)
    BY DEF C
  <2> QED
    BY <2>2, LeastSubset
<1>2. T # {}
  <2>1. SumFunctionOnSet(f, {}) = 0 /\ SumFunctionOnSet(g, {}) = 0
    BY SumEmpty
  <2>2. SumFunctionOnSet(f, T) # SumFunctionOnSet(g, T)
    BY <1>1
  <2> HIDE DEF C
  <2> QED
    BY <2>1, <2>2
<1>3. IsFiniteSet(T)
  BY FS_Subset
<1>4. /\ SumFunctionOnSet(f, T) = f[Chosen(T)] + SumFunctionOnSet(f, T \ {Chosen(T)})
      /\ SumFunctionOnSet(g, T) = g[Chosen(T)] + SumFunctionOnSet(g, T \ {Chosen(T)})
  BY <1>2, <1>3, SumChosen
<1>5. Chosen(T) \in T
  BY <1>2 DEF Chosen
<1>6. SumFunctionOnSet(f, T \ {Chosen(T)}) = SumFunctionOnSet(g, T \ {Chosen(T)})
  BY <1>1, <1>5
<1> QED
  BY <1>1, <1>4, <1>5, <1>6

\* The sum of larger values is no smaller.
LEMMA SumGrows ==
  ASSUME NEW f, NEW g, NEW S, IsFiniteSet(S),
         \A x \in S : f[x] \in Nat /\ g[x] \in Nat /\ f[x] >= g[x]
  PROVE  SumFunctionOnSet(f, S) >= SumFunctionOnSet(g, S)
<1> DEFINE C == {T \in SUBSET S : ~(SumFunctionOnSet(f, T) >= SumFunctionOnSet(g, T))}
<1> SUFFICES ASSUME C # {} PROVE FALSE
  OBVIOUS
<1>1. PICK T \in C : \A V \in C : ~(V \subseteq T /\ V # T)
  <2> HIDE DEF C
  <2>2. C \in SUBSET (SUBSET S)
    BY DEF C
  <2> QED
    BY <2>2, LeastSubset
<1>2. T # {}
  <2>1. SumFunctionOnSet(f, {}) = 0 /\ SumFunctionOnSet(g, {}) = 0
    BY SumEmpty
  <2>2. ~(SumFunctionOnSet(f, T) >= SumFunctionOnSet(g, T))
    BY <1>1
  <2> HIDE DEF C
  <2> QED
    BY <2>1, <2>2
<1> DEFINE c == Chosen(T)
           U == T \ {c}
<1>3. c \in T
  BY <1>2 DEF Chosen
<1>4. IsFiniteSet(T) /\ IsFiniteSet(U) /\ T \subseteq S
  BY FS_Subset
<1>5. /\ SumFunctionOnSet(f, T) = f[c] + SumFunctionOnSet(f, U)
      /\ SumFunctionOnSet(g, T) = g[c] + SumFunctionOnSet(g, U)
  BY <1>2, <1>4, SumChosen
<1>6. SumFunctionOnSet(f, U) >= SumFunctionOnSet(g, U)
  BY <1>1, <1>3
<1>7. SumFunctionOnSet(f, U) \in Nat /\ SumFunctionOnSet(g, U) \in Nat
  BY <1>4, SumType
<1>8. ~(SumFunctionOnSet(f, T) >= SumFunctionOnSet(g, T))
  BY <1>1
<1>9. f[c] \in Nat /\ g[c] \in Nat /\ f[c] >= g[c]
  BY <1>3
<1> HIDE DEF c, U, C
<1> QED
  BY <1>5, <1>6, <1>7, <1>8, <1>9

\* One more summand.
Counts(E) == [E -> Nat]

LEMMA SumAdded ==
    ASSUME NEW E, IsFiniteSet(E), NEW x, x \notin E,
           NEW f \in Counts(E \cup {x}), NEW g \in Counts(E),
           \A i \in E : f[i] = g[i]
    PROVE  SumFunction(f) = f[x] + SumFunction(g)
  <1> USE DEF Counts
  <1>1. IsFiniteSet(E \cup {x})
    BY FS_AddElement
  <1>2. SumFunctionOnSet(f, E \cup {x}) = f[x] + SumFunctionOnSet(f, (E \cup {x}) \ {x})
    BY <1>1, SumRemove
  <1>3. (E \cup {x}) \ {x} = E
    OBVIOUS
  <1>4. SumFunctionOnSet(f, E) = SumFunctionOnSet(g, E)
    BY SumSame
  <1>5. DOMAIN f = E \cup {x} /\ DOMAIN g = E
    OBVIOUS
  <1> QED
    BY <1>2, <1>3, <1>4, <1>5 DEF SumFunction

-----------------------------------------------------------------------------
(* Least elements *)

\* Of the sets that belong to the members of a finite set, one is minimal.
Minimal(S, B) == \E x \in S : \A z \in S : ~(B[z] \subseteq B[x] /\ B[z] # B[x])

LEMMA LeastOf ==
    ASSUME NEW S, IsFiniteSet(S), S # {}, NEW B, \A x \in S : B[x] \in SUBSET S
    PROVE  Minimal(S, B)
  <1> DEFINE C == {B[x] : x \in S}
  <1>1. \E T \in C : \A U \in C : ~(U \subseteq T /\ U # T)
    <2> HIDE DEF C
    <2>1. C \in SUBSET (SUBSET S)
      BY DEF C
    <2>2. C # {}
      BY DEF C
    <2> QED
      BY <2>1, <2>2, LeastSubset
  <1> QED
    BY <1>1 DEF Minimal

\* A finite set of naturals has a least element.
LEMMA LeastNatural ==
    ASSUME NEW S, S \subseteq Nat, IsFiniteSet(S), S # {}
    PROVE  \E x \in S : \A y \in S : x <= y
  <1> DEFINE B == [x \in S |-> {y \in S : y < x}]
  <1>1. \A x \in S : B[x] \in SUBSET S
    OBVIOUS
  <1>2. Minimal(S, B)
    <2> HIDE DEF B
    <2> QED
      BY <1>1, LeastOf
  <1>3. PICK x \in S : \A z \in S : ~(B[z] \subseteq B[x] /\ B[z] # B[x])
    BY <1>2 DEF Minimal
  <1>4. ASSUME NEW z \in S, z < x PROVE FALSE
    <2>1. B[z] \subseteq B[x]
      <3>1. \A y \in S : y < z => y < x
        BY <1>4
      <3> QED
        BY <3>1
    <2>2. z \in B[x] /\ z \notin B[z]
      BY <1>4
    <2> QED
      BY <1>3, <2>1, <2>2
  <1> QED
    BY <1>4

=============================================================================
