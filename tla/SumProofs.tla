------------------------------ MODULE SumProofs -------------------------------
(***************************************************************************)
(* Facts about sums over finite sets, for the proofs about the modules     *)
(* that add points up with MapThenSumSet, and about the smallest element.  *)
(* The library's induction theorems take the predicate as an operator; the *)
(* induction here is over a set instead, from the theorem that subsets of  *)
(* a finite set are well ordered by inclusion.                             *)
(***************************************************************************)
EXTENDS Integers, FiniteSets, FiniteSetsExt, FiniteSetTheorems, WellFoundedInduction, TLAPS

\* The sum of the weights w[x] of the elements of S.
SumOf(w, S) == MapThenSumSet(LAMBDA x : w[x], S)

\* Induction over the subsets of a finite set, with a set for the predicate.
LEMMA SubsetsInduction ==
  ASSUME NEW S, IsFiniteSet(S), NEW F,
         \A T \in SUBSET S : (\A U \in SUBSET T : U # T => U \in F) => T \in F
  PROVE  \A T \in SUBSET S : T \in F
  <1> DEFINE Bad == {T \in SUBSET S : T \notin F}
             R == StrictSubsetOrdering(S)
  <1> SUFFICES ASSUME Bad # {} PROVE FALSE
    OBVIOUS
  <1>1. Bad \subseteq FiniteSubsetsOf(S)
    BY FS_Subset DEF FiniteSubsetsOf
  <1>2. \E T \in Bad : \A U \in Bad : ~ (<<U, T>> \in R)
    <2>1. IsWellFoundedOn(R, FiniteSubsetsOf(S))
      BY FS_StrictSubsetOrderingWellFounded
    <2> HIDE DEF Bad, R
    <2>2. QED
      BY <1>1, <2>1, WFMin
  <1>3. PICK T \in Bad : \A U \in Bad : ~ (<<U, T>> \in R)
    BY <1>2
  <1>4. \A U \in SUBSET T : U # T => <<U, T>> \in R
    BY <1>3 DEF StrictSubsetOrdering
  <1>5. \A U \in SUBSET T : U # T => U \in F
    <2>1. T \in SUBSET S
      BY <1>3
    <2> SUFFICES ASSUME NEW U \in SUBSET T, U # T, U \notin F
                 PROVE  FALSE
      OBVIOUS
    <2>2. U \in Bad
      BY <2>1
    <2> HIDE DEF Bad, R
    <2>3. QED
      BY <1>3, <1>4, <2>2
  <1>6. QED
    BY <1>3, <1>5

\* The recursion that computes a sum, as a property of the function it defines.
First(s) == CHOOSE x \in s : TRUE
SumStep(w, g, s) == IF s = {} THEN 0 ELSE w[First(s)] + g[s \ {First(s)}]
Sums(w, g, S) == g = [s \in SUBSET S |-> SumStep(w, g, s)]

LEMMA SumDefined ==
  ASSUME NEW w, NEW S
  PROVE  SumOf(w, S) = (CHOOSE g : Sums(w, g, S))[S]
  BY DEF SumOf, MapThenSumSet, MapThenFoldSet, Sums, SumStep, First

\* Two such functions agree where both are defined.
LEMMA SumsAgree ==
  ASSUME NEW w, NEW S, NEW T, T \subseteq S, IsFiniteSet(T), NEW g, NEW h,
         Sums(w, g, S), Sums(w, h, T)
  PROVE  g[T] = h[T]
  <1> DEFINE Good == {U \in SUBSET T : g[U] = h[U]}
  <1> SUFFICES ASSUME NEW U \in SUBSET T, \A V \in SUBSET U : V # U => V \in Good
               PROVE  U \in Good
    <2>1. \A U \in SUBSET T : U \in Good
      <3> HIDE DEF Good
      <3> QED
        BY SubsetsInduction
    <2>2. QED
      BY <2>1
  <1>1. g[U] = SumStep(w, g, U) /\ h[U] = SumStep(w, h, U)
    BY DEF Sums
  <1>2. CASE U = {}
    BY <1>1, <1>2 DEF SumStep
  <1>3. CASE U # {}
    <2>1. First(U) \in U
      BY <1>3 DEF First
    <2>2. g[U \ {First(U)}] = h[U \ {First(U)}]
      BY <2>1
    <2>3. QED
      BY <1>1, <1>3, <2>2 DEF SumStep
  <1>4. QED
    BY <1>2, <1>3

\* On a finite set there is one.
LEMMA SumsExist ==
  ASSUME NEW w, NEW S, IsFiniteSet(S)
  PROVE  \E g : Sums(w, g, S)
  <1> DEFINE Good == {T \in SUBSET S : \E g : Sums(w, g, T)}
  <1> SUFFICES ASSUME NEW T \in SUBSET S, \A U \in SUBSET T : U # T => U \in Good
               PROVE  T \in Good
    <2>1. \A T \in SUBSET S : T \in Good
      <3> HIDE DEF Good
      <3> QED
        BY SubsetsInduction
    <2>2. QED
      BY <2>1
  <1> DEFINE G(U) == CHOOSE g : Sums(w, g, U)
             h == [s \in SUBSET T |-> IF s = {} THEN 0
                                      ELSE w[First(s)] + G(s \ {First(s)})[s \ {First(s)}]]
  <1>1. \A U \in SUBSET T : U # T => Sums(w, G(U), U)
    <2> SUFFICES ASSUME NEW U \in SUBSET T, U # T PROVE Sums(w, G(U), U)
      OBVIOUS
    <2>1. PICK g : Sums(w, g, U)
      OBVIOUS
    <2>2. QED
      BY <2>1
  <1>2. \A U \in SUBSET T : U # T => h[U] = G(U)[U]
    <2> SUFFICES ASSUME NEW U \in SUBSET T, U # T PROVE h[U] = G(U)[U]
      OBVIOUS
    <2>1. Sums(w, G(U), U)
      BY <1>1
    <2>2. G(U)[U] = SumStep(w, G(U), U)
      <3> HIDE DEF G
      <3> QED
        BY <2>1 DEF Sums
    <2>3. CASE U = {}
      BY <2>2, <2>3 DEF SumStep
    <2>4. CASE U # {}
      <3> DEFINE V == U \ {First(U)}
      <3>1. First(U) \in U
        BY <2>4 DEF First
      <3>2. V \in SUBSET T /\ V # T /\ V \subseteq U
        BY <3>1
      <3>3. Sums(w, G(V), V)
        BY <1>1, <3>2
      <3>4. IsFiniteSet(V)
        BY <3>2, FS_Subset
      <3>5. G(U)[V] = G(V)[V]
        <4> HIDE DEF G, V
        <4> QED
          BY <2>1, <3>2, <3>3, <3>4, SumsAgree
      <3>6. h[U] = w[First(U)] + G(V)[V]
        BY <2>4
      <3>7. G(U)[U] = w[First(U)] + G(U)[V]
        <4> HIDE DEF G
        <4> QED
          BY <2>2, <2>4 DEF SumStep
      <3>8. QED
        BY <3>5, <3>6, <3>7
    <2>5. QED
      BY <2>3, <2>4
  <1>3. \A s \in SUBSET T : h[s] = SumStep(w, h, s)
    <2> SUFFICES ASSUME NEW s \in SUBSET T PROVE h[s] = SumStep(w, h, s)
      OBVIOUS
    <2>1. CASE s = {}
      BY <2>1 DEF SumStep
    <2>2. CASE s # {}
      <3> DEFINE V == s \ {First(s)}
      <3>1. First(s) \in s
        BY <2>2 DEF First
      <3>2. V \in SUBSET T /\ V # T
        BY <3>1
      <3>3. h[V] = G(V)[V]
        BY <1>2, <3>2
      <3>4. h[s] = w[First(s)] + G(V)[V]
        BY <2>2
      <3>5. SumStep(w, h, s) = w[First(s)] + h[V]
        <4> HIDE DEF h
        <4> QED
          BY <2>2 DEF SumStep
      <3>6. QED
        BY <3>3, <3>4, <3>5
    <2>3. QED
      BY <2>1, <2>2
  <1>4. h = [s \in SUBSET T |-> SumStep(w, h, s)]
    <2>1. h = [s \in SUBSET T |-> h[s]]
      OBVIOUS
    <2> HIDE DEF h
    <2>2. QED
      BY <1>3, <2>1
  <1>5. Sums(w, h, T)
    <2> HIDE DEF h
    <2> QED
      BY <1>4 DEF Sums
  <1>6. QED
    BY <1>5

LEMMA SumUnfolds ==
  ASSUME NEW w, NEW S, IsFiniteSet(S)
  PROVE  SumOf(w, S) = IF S = {} THEN 0 ELSE w[First(S)] + SumOf(w, S \ {First(S)})
  <1> DEFINE g == CHOOSE g : Sums(w, g, S)
             T == S \ {First(S)}
             h == CHOOSE h : Sums(w, h, T)
  <1>1. IsFiniteSet(T)
    BY FS_Subset
  <1>2. Sums(w, g, S) /\ Sums(w, h, T)
    <2>1. (\E f : Sums(w, f, S)) /\ (\E f : Sums(w, f, T))
      <3> HIDE DEF T
      <3> QED
        BY <1>1, SumsExist
    <2> HIDE DEF T
    <2>2. QED
      BY <2>1
  <1>3. SumOf(w, S) = g[S] /\ SumOf(w, T) = h[T]
    <2> HIDE DEF T
    <2> QED
      BY SumDefined
  <1>4. g[S] = SumStep(w, g, S)
    <2> HIDE DEF g
    <2> QED
      BY <1>2 DEF Sums
  <1>5. g[T] = h[T]
    <2>1. T \subseteq S
      OBVIOUS
    <2> HIDE DEF g, h, T
    <2>2. QED
      BY <1>1, <1>2, <2>1, SumsAgree
  <1>6. QED
    <2> HIDE DEF g, h
    <2> QED
      BY <1>3, <1>4, <1>5 DEF SumStep

\* A sum of naturals is a natural, and any element may be taken out first.
LEMMA SumTakes ==
  ASSUME NEW S, IsFiniteSet(S), NEW w, \A x \in S : w[x] \in Nat
  PROVE  /\ SumOf(w, {}) = 0
         /\ \A T \in SUBSET S : /\ SumOf(w, T) \in Nat
                                /\ \A x \in T : SumOf(w, T) = w[x] + SumOf(w, T \ {x})
  <1> DEFINE Good == {T \in SUBSET S : /\ SumOf(w, T) \in Nat
                                       /\ \A x \in T : SumOf(w, T) = w[x] + SumOf(w, T \ {x})}
  <1>1. \A T \in SUBSET S : IsFiniteSet(T)
    BY FS_Subset
  <1>2. SumOf(w, {}) = 0
    BY <1>1, SumUnfolds
  <1>3. ASSUME NEW T \in SUBSET S, \A U \in SUBSET T : U # T => U \in Good
        PROVE  T \in Good
    <2>1. CASE T = {}
      BY <1>2, <2>1
    <2>2. CASE T # {}
      <3> DEFINE f == First(T)
      <3>1. f \in T
        BY <2>2 DEF First
      <3>2. SumOf(w, T) = w[f] + SumOf(w, T \ {f})
        BY <1>1, <2>2, SumUnfolds
      <3>3. \A x \in T : T \ {x} \in Good
        BY <1>3
      <3>4. SumOf(w, T) \in Nat
        BY <3>1, <3>2, <3>3
      <3>5. ASSUME NEW x \in T, x # f PROVE SumOf(w, T) = w[x] + SumOf(w, T \ {x})
        <4>1. x \in T \ {f} /\ f \in T \ {x} /\ (T \ {f}) \ {x} = (T \ {x}) \ {f}
          BY <3>1, <3>5
        <4>2. (T \ {f}) \ {x} \in Good
          BY <1>3, <3>5
        <4>3. SumOf(w, T \ {f}) = w[x] + SumOf(w, (T \ {f}) \ {x})
          BY <3>1, <3>3, <4>1
        <4>4. SumOf(w, T \ {x}) = w[f] + SumOf(w, (T \ {x}) \ {f})
          BY <3>3, <4>1
        <4>5. w[x] \in Nat /\ w[f] \in Nat /\ SumOf(w, (T \ {f}) \ {x}) \in Nat
          BY <3>1, <4>2
        <4>6. SumOf(w, T \ {x}) = w[f] + SumOf(w, (T \ {f}) \ {x})
          BY <4>1, <4>4
        <4>7. SumOf(w, T) = w[f] + (w[x] + SumOf(w, (T \ {f}) \ {x}))
          BY <3>2, <4>3
        <4> DEFINE rest == SumOf(w, (T \ {f}) \ {x})
        <4>8. w[f] + (w[x] + rest) = w[x] + (w[f] + rest)
          <5>1. rest \in Nat /\ w[x] \in Nat /\ w[f] \in Nat
            BY <4>5
          <5> HIDE DEF rest, f
          <5>2. QED
            BY <5>1
        <4>9. QED
          BY <4>6, <4>7, <4>8
      <3>6. \A x \in T : SumOf(w, T) = w[x] + SumOf(w, T \ {x})
        BY <3>2, <3>5
      <3>7. QED
        BY <3>4, <3>6
    <2>3. QED
      BY <2>1, <2>2
  <1>4. \A T \in SUBSET S : T \in Good
    <2> HIDE DEF Good
    <2> QED
      BY <1>3, SubsetsInduction
  <1>5. QED
    BY <1>2, <1>4

\* A larger weight makes no smaller sum.
LEMMA SumGrows ==
  ASSUME NEW S, IsFiniteSet(S), NEW v, NEW w,
         \A x \in S : v[x] \in Nat /\ w[x] \in Nat /\ v[x] <= w[x]
  PROVE  SumOf(v, S) <= SumOf(w, S)
  <1> DEFINE Good == {T \in SUBSET S : SumOf(v, T) <= SumOf(w, T)}
  <1>1. /\ SumOf(v, {}) = 0 /\ SumOf(w, {}) = 0
        /\ \A T \in SUBSET S : SumOf(v, T) \in Nat /\ SumOf(w, T) \in Nat
        /\ \A T \in SUBSET S : \A x \in T : /\ SumOf(v, T) = v[x] + SumOf(v, T \ {x})
                                            /\ SumOf(w, T) = w[x] + SumOf(w, T \ {x})
    <2>1. /\ SumOf(v, {}) = 0
          /\ \A T \in SUBSET S : SumOf(v, T) \in Nat /\ \A x \in T : SumOf(v, T) = v[x] + SumOf(v, T \ {x})
      BY SumTakes
    <2>2. /\ SumOf(w, {}) = 0
          /\ \A T \in SUBSET S : SumOf(w, T) \in Nat /\ \A x \in T : SumOf(w, T) = w[x] + SumOf(w, T \ {x})
      BY SumTakes
    <2>3. QED
      BY <2>1, <2>2
  <1>2. ASSUME NEW T \in SUBSET S, \A U \in SUBSET T : U # T => U \in Good
        PROVE  T \in Good
    <2>1. CASE T = {}
      BY <1>1, <2>1
    <2>2. CASE T # {}
      <3>1. PICK x \in T : TRUE
        BY <2>2
      <3>2. T \ {x} \in Good
        BY <1>2, <3>1
      <3>3. /\ SumOf(v, T) = v[x] + SumOf(v, T \ {x}) /\ SumOf(w, T) = w[x] + SumOf(w, T \ {x})
            /\ v[x] \in Nat /\ w[x] \in Nat /\ v[x] <= w[x]
            /\ SumOf(v, T \ {x}) \in Nat /\ SumOf(w, T \ {x}) \in Nat
        BY <1>1, <3>1
      <3>4. QED
        BY <3>2, <3>3
    <2>3. QED
      BY <2>1, <2>2
  <1>3. \A T \in SUBSET S : T \in Good
    <2> HIDE DEF Good
    <2> QED
      BY <1>2, SubsetsInduction
  <1>4. QED
    BY <1>3

\* The sum over two disjoint sets.
LEMMA SumSplits ==
  ASSUME NEW S, IsFiniteSet(S), NEW w, \A x \in S : w[x] \in Nat,
         NEW A \in SUBSET S, NEW B \in SUBSET S, A \cap B = {}
  PROVE  SumOf(w, A \cup B) = SumOf(w, A) + SumOf(w, B)
  <1> DEFINE Good == {T \in SUBSET A : SumOf(w, T \cup B) = SumOf(w, T) + SumOf(w, B)}
  <1>1. /\ SumOf(w, {}) = 0
        /\ \A T \in SUBSET S : /\ SumOf(w, T) \in Nat
                               /\ \A x \in T : SumOf(w, T) = w[x] + SumOf(w, T \ {x})
    BY SumTakes
  <1>2. ASSUME NEW T \in SUBSET A, \A U \in SUBSET T : U # T => U \in Good
        PROVE  T \in Good
    <2>1. CASE T = {}
      <3>1. T \cup B = B
        BY <2>1
      <3>2. QED
        BY <1>1, <2>1, <3>1
    <2>2. CASE T # {}
      <3>1. PICK x \in T : TRUE
        BY <2>2
      <3>2. T \ {x} \in Good
        BY <1>2, <3>1
      <3>3. T \cup B \in SUBSET S /\ x \in T \cup B /\ (T \cup B) \ {x} = (T \ {x}) \cup B
        BY <3>1
      <3>4. SumOf(w, T \cup B) = w[x] + SumOf(w, (T \ {x}) \cup B)
        BY <1>1, <3>3
      <3>5. SumOf(w, T) = w[x] + SumOf(w, T \ {x}) /\ w[x] \in Nat
            /\ SumOf(w, T \ {x}) \in Nat /\ SumOf(w, B) \in Nat
        BY <1>1, <3>1
      <3>6. QED
        BY <3>2, <3>4, <3>5
    <2>3. QED
      BY <2>1, <2>2
  <1>3. \A T \in SUBSET A : T \in Good
    <2>1. IsFiniteSet(A)
      BY FS_Subset
    <2> HIDE DEF Good
    <2>2. QED
      BY <1>2, <2>1, SubsetsInduction
  <1>4. QED
    BY <1>3

\* Twice the weights, twice the sum.
LEMMA SumDoubles ==
  ASSUME NEW S, IsFiniteSet(S), NEW v, NEW w, \A x \in S : w[x] \in Nat /\ v[x] = 2 * w[x]
  PROVE  SumOf(v, S) = 2 * SumOf(w, S)
  <1> DEFINE Good == {T \in SUBSET S : SumOf(v, T) = 2 * SumOf(w, T)}
  <1>1. /\ SumOf(v, {}) = 0
        /\ \A T \in SUBSET S : /\ SumOf(v, T) \in Nat
                               /\ \A x \in T : SumOf(v, T) = v[x] + SumOf(v, T \ {x})
    <2>1. \A x \in S : v[x] \in Nat
      OBVIOUS
    <2>2. IsFiniteSet(S)
      OBVIOUS
    <2>3. QED
      BY ONLY <2>1, <2>2, SumTakes
  <1>2. /\ SumOf(w, {}) = 0
        /\ \A T \in SUBSET S : /\ SumOf(w, T) \in Nat
                               /\ \A x \in T : SumOf(w, T) = w[x] + SumOf(w, T \ {x})
    <2>1. \A x \in S : w[x] \in Nat
      OBVIOUS
    <2>2. IsFiniteSet(S)
      OBVIOUS
    <2>3. QED
      BY ONLY <2>1, <2>2, SumTakes
  <1>3. ASSUME NEW T \in SUBSET S, \A U \in SUBSET T : U # T => U \in Good
        PROVE  T \in Good
    <2>1. CASE T = {}
      BY <1>1, <1>2, <2>1
    <2>2. CASE T # {}
      <3>1. PICK x \in T : TRUE
        BY <2>2
      <3>2. T \ {x} \in Good
        BY <1>3, <3>1
      <3>3. /\ SumOf(v, T) = v[x] + SumOf(v, T \ {x}) /\ SumOf(w, T) = w[x] + SumOf(w, T \ {x})
            /\ w[x] \in Nat /\ v[x] = 2 * w[x] /\ SumOf(w, T \ {x}) \in Nat
        BY <1>1, <1>2, <3>1
      <3>4. QED
        BY <3>2, <3>3
    <2>3. QED
      BY <2>1, <2>2
  <1>4. \A T \in SUBSET S : T \in Good
    <2> HIDE DEF Good
    <2> QED
      BY <1>3, SubsetsInduction
  <1>5. QED
    BY <1>4

\* The sums of disjoint parts add up to the sum of the whole.
LEMMA SumOfParts ==
  ASSUME NEW S, IsFiniteSet(S), NEW w, \A x \in S : w[x] \in Nat,
         NEW G, IsFiniteSet(G), NEW part \in [G -> SUBSET S],
         \A g, h \in G : g # h => part[g] \cap part[h] = {},
         NEW v, \A g \in G : v[g] = SumOf(w, part[g])
  PROVE  SumOf(v, G) = SumOf(w, UNION {part[g] : g \in G})
  <1> DEFINE Whole(H) == UNION {part[g] : g \in H}
             Good == {H \in SUBSET G : SumOf(v, H) = SumOf(w, Whole(H))}
  <1>1. /\ SumOf(w, {}) = 0
        /\ \A T \in SUBSET S : SumOf(w, T) \in Nat
    BY SumTakes
  <1>2. /\ SumOf(v, {}) = 0
        /\ \A H \in SUBSET G : /\ SumOf(v, H) \in Nat
                               /\ \A g \in H : SumOf(v, H) = v[g] + SumOf(v, H \ {g})
    <2>1. \A g \in G : v[g] \in Nat
      BY <1>1
    <2>2. QED
      BY <2>1, SumTakes
  <1>3. \A A, B \in SUBSET S : A \cap B = {} => SumOf(w, A \cup B) = SumOf(w, A) + SumOf(w, B)
    <2>1. IsFiniteSet(S) /\ \A x \in S : w[x] \in Nat
      OBVIOUS
    <2>2. QED
      BY ONLY <2>1, SumSplits
  <1>4. ASSUME NEW H \in SUBSET G, \A K \in SUBSET H : K # H => K \in Good
        PROVE  H \in Good
    <2>1. CASE H = {}
      <3>1. Whole(H) = {}
        BY <2>1
      <3>2. QED
        BY <1>1, <1>2, <2>1, <3>1
    <2>2. CASE H # {}
      <3>1. PICK g \in H : TRUE
        BY <2>2
      <3>2. H \ {g} \in Good
        BY <1>4, <3>1
      <3>3. /\ Whole(H) = Whole(H \ {g}) \cup part[g]
            /\ Whole(H \ {g}) \in SUBSET S /\ part[g] \in SUBSET S
            /\ Whole(H \ {g}) \cap part[g] = {}
        BY <3>1
      <3>4. SumOf(w, Whole(H)) = SumOf(w, Whole(H \ {g})) + SumOf(w, part[g])
        <4> HIDE DEF Whole
        <4> QED
          BY <1>3, <3>3, ZenonT(30)
      <3>5. /\ SumOf(v, H) = v[g] + SumOf(v, H \ {g}) /\ v[g] = SumOf(w, part[g])
            /\ SumOf(w, part[g]) \in Nat /\ SumOf(w, Whole(H \ {g})) \in Nat
        BY <1>1, <1>2, <3>1, <3>3
      <3>6. SumOf(v, H) = SumOf(w, Whole(H))
        <4>1. SumOf(v, H \ {g}) = SumOf(w, Whole(H \ {g}))
          BY <3>2
        <4> HIDE DEF Whole
        <4>2. QED
          BY <3>4, <3>5, <4>1
      <3>7. QED
        BY <3>6
    <2>3. QED
      BY <2>1, <2>2
  <1>5. \A H \in SUBSET G : H \in Good
    <2> HIDE DEF Good
    <2> QED
      BY <1>4, SubsetsInduction
  <1>6. QED
    BY <1>5

\* The values a function takes on a finite set are finitely many.
LEMMA ImageIsFinite ==
  ASSUME NEW S, IsFiniteSet(S), NEW f
  PROVE  IsFiniteSet({f[x] : x \in S})
  <1> DEFINE T == {f[x] : x \in S}
             h == [x \in S |-> f[x]]
  <1>1. h \in [S -> T] /\ \A y \in T : \E x \in S : h[x] = y
    OBVIOUS
  <1> HIDE DEF h, T
  <1>2. h \in Surjection(S, T)
    BY <1>1 DEF Surjection
  <1>3. IsFiniteSet(T)
    BY <1>2, FS_Surjection
  <1>4. QED
    BY <1>3 DEF T

\* A nonempty finite set of naturals has a smallest element, which is its Min.
LEMMA MinIsLeast ==
  ASSUME NEW S \in SUBSET Nat, IsFiniteSet(S), S # {}
  PROVE  Min(S) \in S /\ \A y \in S : Min(S) <= y
  <1> DEFINE Good == {T \in SUBSET S : T # {} => \E x \in T : \A y \in T : x <= y}
  <1>1. ASSUME NEW T \in SUBSET S, \A U \in SUBSET T : U # T => U \in Good
        PROVE  T \in Good
    <2>1. CASE T = {}
      BY <2>1
    <2>2. CASE T # {}
      <3>1. PICK x \in T : TRUE
        BY <2>2
      <3>2. T \ {x} \in Good
        BY <1>1, <3>1
      <3>3. CASE T \ {x} = {}
        <4>1. \A y \in T : x <= y
          BY <3>1, <3>3
        <4>2. QED
          BY <3>1, <4>1
      <3>4. CASE T \ {x} # {}
        <4>1. PICK z \in T \ {x} : \A y \in T \ {x} : z <= y
          BY <3>2, <3>4
        <4>2. CASE z <= x
          BY <4>1, <4>2
        <4>3. CASE x <= z
          <5>1. \A y \in T : x <= y
            BY <3>1, <4>1, <4>3
          <5>2. QED
            BY <3>1, <5>1
        <4>4. z \in Nat /\ x \in Nat
          BY <3>1, <4>1
        <4>5. QED
          BY <4>2, <4>3, <4>4
      <3>5. QED
        BY <3>3, <3>4
    <2>3. QED
      BY <2>1, <2>2
  <1>2. \A T \in SUBSET S : T \in Good
    <2> HIDE DEF Good
    <2> QED
      BY <1>1, SubsetsInduction
  <1>3. \E x \in S : \A y \in S : x <= y
    BY <1>2
  <1>4. QED
    BY <1>3 DEF Min

\* A nonempty finite set of naturals has a largest element, which is its Max.
LEMMA MaxIsGreatest ==
  ASSUME NEW S \in SUBSET Nat, IsFiniteSet(S), S # {}
  PROVE  Max(S) \in S /\ \A y \in S : Max(S) >= y
  <1> DEFINE Good == {T \in SUBSET S : T # {} => \E x \in T : \A y \in T : x >= y}
  <1>1. ASSUME NEW T \in SUBSET S, \A U \in SUBSET T : U # T => U \in Good
        PROVE  T \in Good
    <2>1. CASE T = {}
      BY <2>1
    <2>2. CASE T # {}
      <3>1. PICK x \in T : TRUE
        BY <2>2
      <3>2. T \ {x} \in Good
        BY <1>1, <3>1
      <3>3. CASE T \ {x} = {}
        <4>1. \A y \in T : x >= y
          BY <3>1, <3>3
        <4>2. QED
          BY <3>1, <4>1
      <3>4. CASE T \ {x} # {}
        <4>1. PICK z \in T \ {x} : \A y \in T \ {x} : z >= y
          BY <3>2, <3>4
        <4>2. CASE z >= x
          BY <4>1, <4>2
        <4>3. CASE x >= z
          <5>1. \A y \in T : x >= y
            BY <3>1, <4>1, <4>3
          <5>2. QED
            BY <3>1, <5>1
        <4>4. z \in Nat /\ x \in Nat
          BY <3>1, <4>1
        <4>5. QED
          BY <4>2, <4>3, <4>4
      <3>5. QED
        BY <3>3, <3>4
    <2>3. QED
      BY <2>1, <2>2
  <1>2. \A T \in SUBSET S : T \in Good
    <2> HIDE DEF Good
    <2> QED
      BY <1>1, SubsetsInduction
  <1>3. \E x \in S : \A y \in S : x >= y
    BY <1>2
  <1>4. QED
    BY <1>3 DEF Max

\* The largest of the values of a function, or zero.
LEMMA MaxOfValues ==
  ASSUME NEW S, IsFiniteSet(S), NEW f, \A x \in S : f[x] \in Nat
  PROVE  LET m == Max({0} \cup {f[x] : x \in S})
         IN  m \in Nat /\ (m = 0 \/ \E x \in S : m = f[x]) /\ \A x \in S : f[x] <= m
  <1> DEFINE V == {f[x] : x \in S}
             T == {0} \cup V
  <1>1. IsFiniteSet(T)
    <2>1. IsFiniteSet(V)
      BY ImageIsFinite
    <2>0. IsFiniteSet({0})
      BY FS_Singleton
    <2> HIDE DEF V
    <2>2. QED
      BY <2>0, <2>1, FS_Union
  <1>2. T \in SUBSET Nat /\ T # {}
    OBVIOUS
  <1>3. Max(T) \in T /\ \A y \in T : Max(T) >= y
    <2> HIDE DEF T
    <2> QED
      BY <1>1, <1>2, MaxIsGreatest
  <1>4. (Max(T) = 0 \/ \E x \in S : Max(T) = f[x]) /\ Max(T) \in Nat
    BY <1>2, <1>3
  <1>5. \A x \in S : f[x] \in T /\ f[x] \in Nat
    OBVIOUS
  <1>6. \A x \in S : f[x] <= Max(T)
    <2> HIDE DEF T
    <2> QED
      BY <1>3, <1>4, <1>5
  <1>7. QED
    BY <1>4, <1>6

\* Weights that agree on the set have one sum.
LEMMA SumSame ==
  ASSUME NEW S, IsFiniteSet(S), NEW v, NEW w, \A x \in S : w[x] \in Nat /\ v[x] = w[x]
  PROVE  SumOf(v, S) = SumOf(w, S) /\ SumOf(w, S) \in Nat
  <1>1. \A x \in S : /\ v[x] \in Nat /\ w[x] \in Nat
                     /\ v[x] <= w[x] /\ w[x] <= v[x]
    OBVIOUS
  <1>2. SumOf(v, S) \in Nat
    BY <1>1, SumTakes
  <1>3. SumOf(w, S) \in Nat
    BY <1>1, SumTakes
  <1>4. SumOf(v, S) <= SumOf(w, S)
    BY <1>1, SumGrows
  <1>5. SumOf(w, S) <= SumOf(v, S)
    BY <1>1, SumGrows
  <1>6. QED
    BY <1>2, <1>3, <1>4, <1>5
=============================================================================
