----------------------------- MODULE FiniteSums -----------------------------
(***************************************************************************)
(* Facts about sums of a function over a finite set, SumFunctionOnSet of   *)
(* the community modules, for the proofs that count.                       *)
(*                                                                         *)
(* The folds take the operator they fold as a parameter; a function is a   *)
(* value, so the lemmas quantify over it.  Induction is over a set of      *)
(* numbers instead of a predicate: the numbers a claim fails for would     *)
(* have a least element.                                                   *)
(***************************************************************************)
EXTENDS Integers, FiniteSets, FiniteSetsExt, FiniteSetTheorems,
        WellFoundedInduction, TLAPS

-----------------------------------------------------------------------------
(* Induction                                                               *)

\* Induction over the natural numbers.
LEMMA NaturalInduction ==
  ASSUME NEW S, 0 \in S, \A n \in Nat : n \in S => n + 1 \in S
  PROVE  Nat \subseteq S
  <1> DEFINE T == Nat \ S
  <1> SUFFICES ASSUME T # {} PROVE FALSE
    OBVIOUS
  <1>1. T \subseteq Nat
    OBVIOUS
  <1> HIDE DEF T
  <1>2. PICK x \in T : \A y \in T : <<y, x>> \notin OpToRel(<, Nat)
    BY <1>1, NatLessThanWellFounded, WFMin
  <1> USE DEF T
  <1>3. x \in Nat /\ x - 1 \in Nat /\ x - 1 < x
    OBVIOUS
  <1>4. x - 1 \in T
    BY <1>3
  <1>5. <<x - 1, x>> \in OpToRel(<, Nat)
    BY <1>3 DEF OpToRel
  <1> QED
    BY <1>2, <1>4, <1>5

LEMMA OneLess ==
  ASSUME NEW S, IsFiniteSet(S), NEW x \in S
  PROVE  /\ IsFiniteSet(S \ {x})
         /\ Cardinality(S \ {x}) = Cardinality(S) - 1
         /\ \A n \in Nat : Cardinality(S) = n + 1 => Cardinality(S \ {x}) = n
  <1>1. Cardinality(S \ {x}) = Cardinality(S) - 1 /\ IsFiniteSet(S \ {x})
    BY FS_RemoveElement
  <1>2. \A n \in Nat : (n + 1) - 1 = n
    OBVIOUS
  <1> QED
    BY <1>1, <1>2

\* Induction over the subsets of a finite set: a set that is not empty may
\* rely on each set that lacks one of its elements.
LEMMA SubsetInduction ==
  ASSUME NEW S, IsFiniteSet(S), NEW F, {} \in F,
         \A T \in SUBSET S : T # {} /\ (\A x \in T : T \ {x} \in F) => T \in F
  PROVE  \A T \in SUBSET S : T \in F
  <1> DEFINE N == {n \in Nat : \A T \in SUBSET S : Cardinality(T) = n => T \in F}
  <1>1. \A T \in SUBSET S : IsFiniteSet(T) /\ Cardinality(T) \in Nat
    BY FS_Subset, FS_CardinalityType
  <1>2. 0 \in N
    BY <1>1, FS_EmptySet
  <1>3. ASSUME NEW n \in Nat, n \in N
        PROVE  n + 1 \in N
    <2> SUFFICES ASSUME NEW T \in SUBSET S, Cardinality(T) = n + 1
                 PROVE  T \in F
      OBVIOUS
    <2>1. IsFiniteSet(T) /\ T # {}
      BY <1>1, FS_EmptySet
    <2>2. \A x \in T : T \ {x} \in SUBSET S /\ Cardinality(T \ {x}) = n
      BY <2>1, OneLess
    <2>3. \A x \in T : T \ {x} \in F
      BY <1>3, <2>2
    <2> QED
      BY <2>1, <2>3
  <1> HIDE DEF N
  <1>4. Nat \subseteq N
    BY <1>2, <1>3, NaturalInduction
  <1> USE DEF N
  <1> QED
    BY <1>1, <1>4

-----------------------------------------------------------------------------
(* The fold                                                                *)

Chosen(s) == CHOOSE x \in s : TRUE

\* What the fold says of an accumulating function.
Adds(f, S, iter) ==
    iter = [s \in SUBSET S |->
              IF s = {} THEN 0 ELSE f[Chosen(s)] + iter[s \ {Chosen(s)}]]

LEMMA SumUnfolded ==
  ASSUME NEW f, NEW S
  PROVE  SumFunctionOnSet(f, S) = (CHOOSE iter : Adds(f, S, iter))[S]
  BY DEF SumFunctionOnSet, FoldFunctionOnSet, MapThenFoldSet, Adds, Chosen

\* There is such a function: there is one for the subsets of at most n elements.
LEMMA SumExists ==
  ASSUME NEW f, NEW S, IsFiniteSet(S)
  PROVE  \E iter : Adds(f, S, iter)
  <1> DEFINE Small(n) == {s \in SUBSET S : Cardinality(s) <= n}
             Step(g, s) == IF s = {} THEN 0 ELSE f[Chosen(s)] + g[s \ {Chosen(s)}]
             N == {n \in Nat : \E g : g = [s \in Small(n) |-> Step(g, s)]}
  <1>1. \A s \in SUBSET S : IsFiniteSet(s) /\ Cardinality(s) \in Nat
    BY FS_Subset, FS_CardinalityType
  <1>2. \A s \in SUBSET S : s # {} => Chosen(s) \in s
    BY DEF Chosen
  <1>3. 0 \in N
    <2> DEFINE g == [s \in Small(0) |-> 0]
    <2>1. \A s \in Small(0) : s = {}
      BY <1>1, FS_EmptySet
    <2>2. g = [s \in Small(0) |-> Step(g, s)]
      BY <2>1
    <2> QED
      BY <2>2
  <1>4. ASSUME NEW n \in Nat, n \in N
        PROVE  n + 1 \in N
    <2>1. PICK g : g = [s \in Small(n) |-> Step(g, s)]
      BY <1>4
    <2> DEFINE h == [s \in Small(n + 1) |-> Step(g, s)]
    <2>2. \A s \in Small(n) : s \in Small(n + 1)
      BY <1>1
    <2>3. ASSUME NEW s \in Small(n + 1), s # {}
          PROVE  s \ {Chosen(s)} \in Small(n)
      <3>1. Chosen(s) \in s
        BY <1>2, <2>3
      <3>2. Cardinality(s \ {Chosen(s)}) = Cardinality(s) - 1
        BY <1>1, <3>1, FS_RemoveElement
      <3> QED
        BY <1>1, <3>2
    <2>4. \A s \in Small(n) : h[s] = g[s]
      BY <2>1, <2>2
    <2>5. h = [s \in Small(n + 1) |-> Step(g, s)]
      OBVIOUS
    <2> HIDE DEF h
    <2>6. \A s \in Small(n + 1) : Step(h, s) = Step(g, s)
      BY <2>3, <2>4
    <2> HIDE DEF Step
    <2>7. h = [s \in Small(n + 1) |-> Step(h, s)]
      BY <2>5, <2>6
    <2>8. \E k : k = [s \in Small(n + 1) |-> Step(k, s)]
      BY <2>7
    <2> HIDE DEF Small
    <2> QED
      BY <2>8
  <1> HIDE DEF N
  <1>5. Cardinality(S) \in N
    BY <1>1, <1>3, <1>4, NaturalInduction
  <1> USE DEF N
  <1>6. Small(Cardinality(S)) = SUBSET S
    BY FS_Subset, <1>1
  <1> QED
    BY <1>5, <1>6 DEF Adds

LEMMA SumFold ==
  ASSUME NEW f, NEW S, IsFiniteSet(S)
  PROVE  \E iter : /\ Adds(f, S, iter)
                   /\ SumFunctionOnSet(f, S) = iter[S]
  BY SumExists, SumUnfolded

\* Two such functions agree where both are defined.
LEMMA FoldsAgree ==
  ASSUME NEW f, NEW S, IsFiniteSet(S), NEW T \in SUBSET S,
         NEW g, Adds(f, S, g), NEW h, Adds(f, T, h)
  PROVE  g[T] = h[T]
  <1> DEFINE F == {U \in SUBSET T : g[U] = h[U]}
  <1>1. IsFiniteSet(T)
    BY FS_Subset
  <1>2. {} \in F
    BY DEF Adds
  <1>3. ASSUME NEW U \in SUBSET T, U # {}, \A x \in U : U \ {x} \in F
        PROVE  U \in F
    <2>1. Chosen(U) \in U
      BY <1>3 DEF Chosen
    <2>2. /\ g[U] = f[Chosen(U)] + g[U \ {Chosen(U)}]
          /\ h[U] = f[Chosen(U)] + h[U \ {Chosen(U)}]
      BY <1>3 DEF Adds
    <2> QED
      BY <1>3, <2>1, <2>2
  <1> HIDE DEF F
  <1>4. T \in F
    BY <1>1, <1>2, <1>3, SubsetInduction
  <1> QED
    BY <1>4 DEF F

-----------------------------------------------------------------------------
(* Sums                                                                    *)

LEMMA SumEmpty ==
  ASSUME NEW f
  PROVE  SumFunctionOnSet(f, {}) = 0
  <1>1. PICK iter : Adds(f, {}, iter) /\ SumFunctionOnSet(f, {}) = iter[{}]
    BY SumFold, FS_EmptySet
  <1> QED
    BY <1>1 DEF Adds

\* The element the fold begins with.
LEMMA SumFirst ==
  ASSUME NEW f, NEW S, IsFiniteSet(S), S # {}
  PROVE  /\ Chosen(S) \in S
         /\ SumFunctionOnSet(f, S)
                = f[Chosen(S)] + SumFunctionOnSet(f, S \ {Chosen(S)})
  <1> DEFINE T == S \ {Chosen(S)}
  <1>1. Chosen(S) \in S
    BY DEF Chosen
  <1>2. IsFiniteSet(T) /\ T \in SUBSET S
    BY FS_RemoveElement
  <1>3. PICK g : Adds(f, S, g) /\ SumFunctionOnSet(f, S) = g[S]
    BY SumFold
  <1>4. PICK h : Adds(f, T, h) /\ SumFunctionOnSet(f, T) = h[T]
    BY <1>2, SumFold
  <1>5. g[T] = h[T]
    BY <1>2, <1>3, <1>4, FoldsAgree
  <1>6. g[S] = f[Chosen(S)] + g[T]
    BY <1>3 DEF Adds
  <1> QED
    BY <1>1, <1>3, <1>4, <1>5, <1>6

\* The sum of natural numbers is one.
LEMMA SumIsNatural ==
  ASSUME NEW S, IsFiniteSet(S), NEW f, \A x \in S : f[x] \in Nat
  PROVE  SumFunctionOnSet(f, S) \in Nat
  <1> DEFINE F == {T \in SUBSET S : SumFunctionOnSet(f, T) \in Nat}
  <1>1. {} \in F
    BY SumEmpty
  <1>2. ASSUME NEW T \in SUBSET S, T # {}, \A x \in T : T \ {x} \in F
        PROVE  T \in F
    <2>1. IsFiniteSet(T)
      BY FS_Subset
    <2>2. /\ Chosen(T) \in T
          /\ SumFunctionOnSet(f, T) = f[Chosen(T)] + SumFunctionOnSet(f, T \ {Chosen(T)})
      BY <1>2, <2>1, SumFirst
    <2> QED
      BY <1>2, <2>2
  <1> HIDE DEF F
  <1>3. \A T \in SUBSET S : T # {} /\ (\A x \in T : T \ {x} \in F) => T \in F
    BY <1>2
  <1>4. \A T \in SUBSET S : T \in F
    BY <1>1, <1>3, SubsetInduction
  <1> QED
    BY <1>4 DEF F

\* Any element may be taken out first.
LEMMA SumRemove ==
  ASSUME NEW S, IsFiniteSet(S), NEW f, \A x \in S : f[x] \in Nat, NEW x \in S
  PROVE  SumFunctionOnSet(f, S) = f[x] + SumFunctionOnSet(f, S \ {x})
  <1> DEFINE Right(T, y) ==
               SumFunctionOnSet(f, T) = f[y] + SumFunctionOnSet(f, T \ {y})
             F == {T \in SUBSET S : \A y \in T : Right(T, y)}
  <1>1. {} \in F
    OBVIOUS
  <1>2. ASSUME NEW T \in SUBSET S, T # {}, \A y \in T : T \ {y} \in F
        PROVE  T \in F
    <2> SUFFICES ASSUME NEW y \in T PROVE Right(T, y)
      OBVIOUS
    <2> DEFINE c == Chosen(T)
               R == T \ {c, y}
    <2>1. c \in T /\ Right(T, c)
      BY <1>2, FS_Subset, SumFirst
    <2>2. CASE c = y
      BY <2>1, <2>2
    <2>3. CASE c # y
      <3>1. y \in T \ {c} /\ c \in T \ {y}
        BY <2>1, <2>3
      <3>2. Right(T \ {c}, y) /\ Right(T \ {y}, c)
        BY <1>2, <2>1, <3>1
      <3>3. (T \ {c}) \ {y} = R /\ (T \ {y}) \ {c} = R
        OBVIOUS
      <3>4. SumFunctionOnSet(f, R) \in Nat
        BY FS_Subset, SumIsNatural
      <3>5. f[c] \in Nat /\ f[y] \in Nat
        BY <2>1
      <3> HIDE DEF c, R
      <3> QED
        BY <2>1, <3>2, <3>3, <3>4, <3>5
    <2> QED
      BY <2>2, <2>3
  <1> HIDE DEF F
  <1>3. \A T \in SUBSET S : T # {} /\ (\A y \in T : T \ {y} \in F) => T \in F
    BY <1>2
  <1>4. \A T \in SUBSET S : T \in F
    BY <1>1, <1>3, SubsetInduction
  <1> QED
    BY <1>4 DEF F

\* Functions that agree on the set have the same sum.
LEMMA SumSame ==
  ASSUME NEW S, IsFiniteSet(S), NEW f, NEW g, \A x \in S : f[x] = g[x]
  PROVE  SumFunctionOnSet(f, S) = SumFunctionOnSet(g, S)
  <1> DEFINE F == {T \in SUBSET S : SumFunctionOnSet(f, T) = SumFunctionOnSet(g, T)}
  <1>1. {} \in F
    BY SumEmpty
  <1>2. ASSUME NEW T \in SUBSET S, T # {}, \A x \in T : T \ {x} \in F
        PROVE  T \in F
    <2>1. IsFiniteSet(T)
      BY FS_Subset
    <2>2. /\ Chosen(T) \in T
          /\ SumFunctionOnSet(f, T) = f[Chosen(T)] + SumFunctionOnSet(f, T \ {Chosen(T)})
          /\ SumFunctionOnSet(g, T) = g[Chosen(T)] + SumFunctionOnSet(g, T \ {Chosen(T)})
      BY <1>2, <2>1, SumFirst
    <2> QED
      BY <1>2, <2>2
  <1> HIDE DEF F
  <1>3. S \in F
    BY <1>1, <1>2, SubsetInduction
  <1> QED
    BY <1>3 DEF F

LEMMA SumAdd ==
  ASSUME NEW S, IsFiniteSet(S), NEW f, NEW x, x \notin S,
         f[x] \in Nat, \A y \in S : f[y] \in Nat
  PROVE  SumFunctionOnSet(f, S \cup {x}) = f[x] + SumFunctionOnSet(f, S)
  <1>1. IsFiniteSet(S \cup {x}) /\ (S \cup {x}) \ {x} = S
    BY FS_AddElement
  <1>2. \A y \in S \cup {x} : f[y] \in Nat
    OBVIOUS
  <1> QED
    BY <1>1, <1>2, SumRemove

\* A function that differs at one element only.
LEMMA SumChange ==
  ASSUME NEW S, IsFiniteSet(S), NEW f, NEW g, NEW x \in S,
         \A y \in S : f[y] \in Nat /\ g[y] \in Nat,
         \A y \in S : y # x => f[y] = g[y]
  PROVE  SumFunctionOnSet(g, S) = SumFunctionOnSet(f, S) - f[x] + g[x]
  <1>1. IsFiniteSet(S \ {x})
    BY FS_RemoveElement
  <1>2. /\ SumFunctionOnSet(f, S) = f[x] + SumFunctionOnSet(f, S \ {x})
        /\ SumFunctionOnSet(g, S) = g[x] + SumFunctionOnSet(g, S \ {x})
    BY SumRemove
  <1>3. SumFunctionOnSet(f, S \ {x}) = SumFunctionOnSet(g, S \ {x})
    BY <1>1, SumSame
  <1>4. SumFunctionOnSet(f, S \ {x}) \in Nat
    BY <1>1, SumIsNatural
  <1> QED
    BY <1>2, <1>3, <1>4

LEMMA SumOfZeros ==
  ASSUME NEW S, IsFiniteSet(S), NEW f, \A x \in S : f[x] = 0
  PROVE  SumFunctionOnSet(f, S) = 0
  <1> DEFINE F == {T \in SUBSET S : SumFunctionOnSet(f, T) = 0}
  <1>1. {} \in F
    BY SumEmpty
  <1>2. ASSUME NEW T \in SUBSET S, T # {}, \A x \in T : T \ {x} \in F
        PROVE  T \in F
    <2>1. /\ Chosen(T) \in T
          /\ SumFunctionOnSet(f, T) = f[Chosen(T)] + SumFunctionOnSet(f, T \ {Chosen(T)})
      BY <1>2, FS_Subset, SumFirst
    <2> QED
      BY <1>2, <2>1
  <1> HIDE DEF F
  <1>3. S \in F
    BY <1>1, <1>2, SubsetInduction
  <1> QED
    BY <1>3 DEF F

LEMMA SumLess ==
  ASSUME NEW S, IsFiniteSet(S), NEW f, NEW g,
         \A x \in S : f[x] \in Nat /\ g[x] \in Nat /\ f[x] <= g[x]
  PROVE  SumFunctionOnSet(f, S) <= SumFunctionOnSet(g, S)
  <1> DEFINE F == {T \in SUBSET S : SumFunctionOnSet(f, T) <= SumFunctionOnSet(g, T)}
  <1>1. {} \in F
    BY SumEmpty
  <1>2. ASSUME NEW T \in SUBSET S, T # {}, \A x \in T : T \ {x} \in F
        PROVE  T \in F
    <2> DEFINE c == Chosen(T)
    <2>1. IsFiniteSet(T)
      BY FS_Subset
    <2>2. /\ c \in T
          /\ SumFunctionOnSet(f, T) = f[c] + SumFunctionOnSet(f, T \ {c})
          /\ SumFunctionOnSet(g, T) = g[c] + SumFunctionOnSet(g, T \ {c})
      BY <1>2, <2>1, SumFirst
    <2>3. SumFunctionOnSet(f, T \ {c}) <= SumFunctionOnSet(g, T \ {c})
      BY <1>2, <2>2
    <2>4. SumFunctionOnSet(f, T \ {c}) \in Nat /\ SumFunctionOnSet(g, T \ {c}) \in Nat
      <3>1. IsFiniteSet(T \ {c})
        BY <2>1, FS_RemoveElement
      <3> HIDE DEF c
      <3> QED
        BY <3>1, SumIsNatural
    <2>5. f[c] \in Nat /\ g[c] \in Nat /\ f[c] <= g[c]
      BY <2>2
    <2> HIDE DEF c
    <2> QED
      BY <2>2, <2>3, <2>4, <2>5
  <1> HIDE DEF F
  <1>3. \A T \in SUBSET S : T # {} /\ (\A x \in T : T \ {x} \in F) => T \in F
    BY <1>2
  <1>4. \A T \in SUBSET S : T \in F
    BY <1>1, <1>3, SubsetInduction
  <1> QED
    BY <1>4 DEF F

\* A sum of natural numbers is zero when every term is.
LEMMA SumIsZero ==
  ASSUME NEW S, IsFiniteSet(S), NEW f, \A x \in S : f[x] \in Nat
  PROVE  SumFunctionOnSet(f, S) = 0 <=> \A x \in S : f[x] = 0
  <1>1. ASSUME NEW x \in S, SumFunctionOnSet(f, S) = 0
        PROVE  f[x] = 0
    <2>1. SumFunctionOnSet(f, S) = f[x] + SumFunctionOnSet(f, S \ {x})
      BY SumRemove
    <2>2. SumFunctionOnSet(f, S \ {x}) \in Nat
      BY FS_RemoveElement, SumIsNatural
    <2> QED
      BY <1>1, <2>1, <2>2
  <1> QED
    BY <1>1, SumOfZeros

=============================================================================
