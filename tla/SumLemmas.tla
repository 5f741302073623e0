------------------------------ MODULE SumLemmas ------------------------------
(***************************************************************************)
(* Sums over finite sets, as Bucket.size needs them: MapThenSumSet of the  *)
(* community modules for a weight given as a function. Induction is by a   *)
(* minimal counterexample, so that no theorem with an operator parameter   *)
(* is needed.                                                              *)
(***************************************************************************)
EXTENDS Integers, FiniteSets, FiniteSetsExt, FiniteSetTheorems,
        WellFoundedInduction, TLAPS

\* The sum of weight[x] for x in S.
SumOver(weight, S) == MapThenSumSet(LAMBDA x : weight[x], S)

-----------------------------------------------------------------------------
(* Minimal elements.                                                       *)

\* A set of naturals that is not empty has a least element.
LEMMA LeastNatural ==
    ASSUME NEW S \in SUBSET Nat, S # {}
    PROVE  \E m \in S : \A n \in S : m <= n
<1>1. PICK m \in S : \A n \in S : <<n, m>> \notin OpToRel(<, Nat)
  BY NatLessThanWellFounded, WFMin, Zenon
<1>2. ASSUME NEW n \in S, n < m PROVE FALSE
  <2>1. <<n, m>> \in Nat \X Nat /\ <<n, m>>[1] < <<n, m>>[2]
    BY <1>2
  <2>2. <<n, m>> \in OpToRel(<, Nat)
    BY <2>1 DEF OpToRel
  <2> QED
    BY <1>1, <2>2, Zenon
<1> QED
  BY <1>2

\* Of some subsets of a finite set, one is such that none of them is it without
\* an element.
LEMMA MinimalSubset ==
    ASSUME NEW S, IsFiniteSet(S), NEW B \in SUBSET SUBSET S, B # {}
    PROVE  \E T \in B : \A x \in T : T \ {x} \notin B
<1> DEFINE sizes == {Cardinality(T) : T \in B}
<1>1. \A T \in B : IsFiniteSet(T) /\ Cardinality(T) \in Nat
  BY FS_Subset, FS_CardinalityType
<1>2. sizes \in SUBSET Nat /\ sizes # {}
  BY <1>1
<1>3. PICK m \in sizes : \A n \in sizes : m <= n
  BY <1>2, LeastNatural
<1>4. PICK T \in B : Cardinality(T) = m
  BY <1>3
<1>5. ASSUME NEW x \in T, T \ {x} \in B PROVE FALSE
  <2>1. Cardinality(T \ {x}) = m - 1
    BY <1>1, <1>4, FS_RemoveElement
  <2>2. m <= Cardinality(T \ {x}) /\ m \in Nat
    BY <1>1, <1>2, <1>3, <1>5
  <2> QED
    BY <2>1, <2>2
<1> QED
  BY <1>5

-----------------------------------------------------------------------------
(* The function MapThenSumSet is computed by.                              *)

Some(s) == CHOOSE x \in s : TRUE

\* g is it, on the sets of D.
Recurs(weight, D, g) ==
    g = [s \in D |-> IF s = {} THEN 0 ELSE weight[Some(s)] + g[s \ {Some(s)}]]

Computes(weight, S, g) == Recurs(weight, SUBSET S, g)

LEMMA SumIs ==
    ASSUME NEW weight, NEW S
    PROVE  SumOver(weight, S) = (CHOOSE g : Computes(weight, S, g))[S]
BY Zenon DEF SumOver, MapThenSumSet, MapThenFoldSet, Computes, Recurs, Some

LEMMA SomeIn ==
    ASSUME NEW s, s # {}
    PROVE  Some(s) \in s
BY DEF Some

\* There is such a function: on the sets of n elements or fewer it is the one on
\* those of fewer elements, and one step more.
LEMMA RecursExists ==
    ASSUME NEW weight, NEW S, IsFiniteSet(S)
    PROVE  \E g : Computes(weight, S, g)
<1> DEFINE Upto(n) == {s \in SUBSET S : Cardinality(s) <= n}
           Bad == {n \in Nat : ~ \E g : Recurs(weight, Upto(n), g)}
<1>1. \A s \in SUBSET S : IsFiniteSet(s) /\ Cardinality(s) \in Nat
  BY FS_Subset, FS_CardinalityType
<1>2. Bad = {}
  <2> SUFFICES ASSUME Bad # {} PROVE FALSE
    OBVIOUS
  <2>1. PICK n \in Bad : \A m \in Bad : n <= m
    <3>1. Bad \in SUBSET Nat
      OBVIOUS
    <3> HIDE DEF Bad
    <3> QED
      BY <3>1, LeastNatural
  <2>2. CASE n = 0
    <3> DEFINE g == [s \in Upto(0) |-> 0]
    <3>1. \A s \in Upto(0) : s = {}
      BY <1>1, FS_EmptySet
    <3>2. Recurs(weight, Upto(0), g)
      BY <3>1 DEF Recurs
    <3> QED
      BY <2>1, <2>2, <3>2
  <2>3. CASE n # 0
    <3>1. n - 1 \in Nat /\ n - 1 \notin Bad
      <4>1. n \in Nat
        OBVIOUS
      <4> HIDE DEF Bad
      <4> QED
        BY <2>1, <2>3, <4>1
    <3>2. PICK g : Recurs(weight, Upto(n - 1), g)
      BY <3>1
    <3> DEFINE h == [s \in Upto(n) |->
                        IF s = {} THEN 0 ELSE weight[Some(s)] + g[s \ {Some(s)}]]
    <3>3. ASSUME NEW s \in Upto(n), s # {}
          PROVE  h[s \ {Some(s)}] = g[s \ {Some(s)}]
      <4>1. Some(s) \in s
        BY <3>3, SomeIn
      <4>2. Cardinality(s \ {Some(s)}) = Cardinality(s) - 1
        BY <1>1, <4>1, FS_RemoveElement
      <4> DEFINE r == s \ {Some(s)}
      <4>3. r \in SUBSET S /\ Cardinality(s) \in Nat /\ Cardinality(s) <= n
        BY <1>1
      <4>4. r \in Upto(n - 1) /\ r \in Upto(n)
        BY <4>2, <4>3
      <4> HIDE DEF r
      <4>5. h[r] = IF r = {} THEN 0 ELSE weight[Some(r)] + g[r \ {Some(r)}]
        BY <4>4
      <4>6. g[r] = IF r = {} THEN 0 ELSE weight[Some(r)] + g[r \ {Some(r)}]
        <5> HIDE DEF Upto, Bad, h
        <5> QED
          BY <3>2, <4>4 DEF Recurs
      <4>7. h[r] = g[r]
        BY <4>5, <4>6
      <4> QED
        BY <4>7 DEF r
    <3>4. h = [s \in Upto(n) |->
                  IF s = {} THEN 0 ELSE weight[Some(s)] + h[s \ {Some(s)}]]
      BY <3>3
    <3>5. Recurs(weight, Upto(n), h)
      BY <3>4 DEF Recurs
    <3> QED
      BY <2>1, <3>5
  <2> QED
    BY <2>2, <2>3
<1>3. Upto(Cardinality(S)) = SUBSET S
  BY <1>1, FS_Subset
<1>4. Cardinality(S) \in Nat /\ Cardinality(S) \notin Bad
  BY <1>2, FS_CardinalityType
<1> QED
  BY <1>3, <1>4 DEF Computes

\* All such functions agree, whatever set they are made for.
LEMMA RecursAgree ==
    ASSUME NEW weight, NEW S, IsFiniteSet(S), NEW T \in SUBSET S, NEW g, NEW h,
           Computes(weight, S, g), Computes(weight, T, h)
    PROVE  g[T] = h[T]
<1> DEFINE Bad == {s \in SUBSET T : g[s] # h[s]}
<1>1. \A s \in SUBSET T : /\ s \in SUBSET S
                          /\ g[s] = IF s = {} THEN 0
                                    ELSE weight[Some(s)] + g[s \ {Some(s)}]
                          /\ h[s] = IF s = {} THEN 0
                                    ELSE weight[Some(s)] + h[s \ {Some(s)}]
  BY DEF Computes, Recurs
<1>2. Bad = {}
  <2> SUFFICES ASSUME Bad # {} PROVE FALSE
    OBVIOUS
  <2>1. Bad \in SUBSET SUBSET T /\ IsFiniteSet(T)
    BY FS_Subset
  <2>2. PICK s \in Bad : \A x \in s : s \ {x} \notin Bad
    <3> HIDE DEF Bad
    <3> QED
      BY <2>1, MinimalSubset
  <2>3. s # {}
    BY <1>1
  <2>4. s \ {Some(s)} \in SUBSET T /\ s \ {Some(s)} \notin Bad
    BY <2>2, <2>3, SomeIn
  <2> QED
    BY <1>1, <2>3, <2>4
<1> QED
  BY <1>2

LEMMA SumStep ==
    ASSUME NEW weight, NEW S, IsFiniteSet(S), S # {}
    PROVE  SumOver(weight, S) = weight[Some(S)] + SumOver(weight, S \ {Some(S)})
<1> DEFINE T == S \ {Some(S)}
           g == CHOOSE f : Computes(weight, S, f)
           h == CHOOSE f : Computes(weight, T, f)
<1>1. T \in SUBSET S /\ IsFiniteSet(T)
  BY FS_Subset
<1>2. Computes(weight, S, g)
  BY RecursExists
<1>3. Computes(weight, T, h)
  <2> HIDE DEF T
  <2> QED
    BY <1>1, RecursExists
<1>4. g[T] = h[T]
  <2> HIDE DEF T, g, h
  <2>1. T \in SUBSET S
    BY <1>1
  <2> QED
    BY <1>2, <1>3, <2>1, RecursAgree
<1>5. g[S] = weight[Some(S)] + g[T]
  <2> HIDE DEF g
  <2> QED
    BY <1>2 DEF Computes, Recurs
<1>6. SumOver(weight, S) = g[S] /\ SumOver(weight, T) = h[T]
  <2> HIDE DEF T
  <2> QED
    BY SumIs
<1> QED
  BY <1>4, <1>5, <1>6

LEMMA SumEmpty ==
    ASSUME NEW weight
    PROVE  SumOver(weight, {}) = 0
<1> DEFINE g == CHOOSE f : Computes(weight, {}, f)
<1>1. Computes(weight, {}, g)
  BY RecursExists, FS_EmptySet
<1>2. g[{}] = 0
  <2> HIDE DEF g
  <2> QED
    BY <1>1 DEF Computes, Recurs
<1> QED
  BY <1>2, SumIs

\* A sum of integers is one.
LEMMA SumInt ==
    ASSUME NEW weight, NEW S, IsFiniteSet(S), \A x \in S : weight[x] \in Int
    PROVE  SumOver(weight, S) \in Int
<1> DEFINE Bad == {T \in SUBSET S : SumOver(weight, T) \notin Int}
<1>1. Bad = {}
  <2> SUFFICES ASSUME Bad # {} PROVE FALSE
    OBVIOUS
  <2>1. PICK T \in Bad : \A x \in T : T \ {x} \notin Bad
    <3>1. Bad \in SUBSET SUBSET S
      OBVIOUS
    <3> HIDE DEF Bad
    <3> QED
      BY <3>1, MinimalSubset
  <2>2. T # {} /\ IsFiniteSet(T)
    <3>1. T # {}
      BY SumEmpty
    <3> QED
      BY <3>1, FS_Subset
  <2>3. Some(T) \in T /\ SumOver(weight, T \ {Some(T)}) \in Int
    BY <2>1, <2>2, SomeIn
  <2> QED
    BY <2>2, <2>3, SumStep
<1> QED
  BY <1>1

\* The sum with an element and without it.
LEMMA SumWithout ==
    ASSUME NEW weight, NEW S, IsFiniteSet(S), \A x \in S : weight[x] \in Int, NEW x \in S
    PROVE  SumOver(weight, S) = weight[x] + SumOver(weight, S \ {x})
<1> DEFINE Bad == {T \in SUBSET S : \E y \in T :
                      SumOver(weight, T) # weight[y] + SumOver(weight, T \ {y})}
<1>1. Bad = {}
  <2> SUFFICES ASSUME Bad # {} PROVE FALSE
    OBVIOUS
  <2>1. PICK T \in Bad : \A y \in T : T \ {y} \notin Bad
    <3>1. Bad \in SUBSET SUBSET S
      OBVIOUS
    <3> HIDE DEF Bad
    <3> QED
      BY <3>1, MinimalSubset
  <2>2. PICK y \in T : SumOver(weight, T) # weight[y] + SumOver(weight, T \ {y})
    OBVIOUS
  <2> DEFINE c == Some(T)
  <2>3. IsFiniteSet(T) /\ c \in T
    BY FS_Subset, SomeIn
  <2>4. SumOver(weight, T) = weight[c] + SumOver(weight, T \ {c})
    BY <2>2, <2>3, SumStep
  <2> HIDE DEF c
  <2>5. c # y
    BY <2>2, <2>4
  <2> DEFINE R == (T \ {c}) \ {y}
  <2>6. SumOver(weight, T \ {c}) = weight[y] + SumOver(weight, R)
    BY <2>1, <2>3, <2>5
  <2>7. SumOver(weight, T \ {y}) = weight[c] + SumOver(weight, R)
    <3>1. SumOver(weight, T \ {y}) = weight[c] + SumOver(weight, (T \ {y}) \ {c})
      BY <2>1, <2>3, <2>5
    <3>2. (T \ {y}) \ {c} = R
      OBVIOUS
    <3> HIDE DEF R
    <3> QED
      BY <3>1, <3>2, Zenon
  <2>8. R \in SUBSET S
    OBVIOUS
  <2> HIDE DEF R
  <2>9. SumOver(weight, R) \in Int
    BY <2>8, FS_Subset, SumInt
  <2>10. weight[c] \in Int /\ weight[y] \in Int
    BY <2>3
  <2> HIDE DEF Bad
  <2> QED
    BY <2>2, <2>4, <2>6, <2>7, <2>9, <2>10
<1>2. S \notin Bad
  BY <1>1
<1> QED
  BY <1>2

\* A sum over two sets that have nothing in common.
LEMMA SumUnion ==
    ASSUME NEW weight, NEW S, IsFiniteSet(S), NEW T, IsFiniteSet(T), S \cap T = {},
           \A x \in S \cup T : weight[x] \in Int
    PROVE  SumOver(weight, S \cup T) = SumOver(weight, S) + SumOver(weight, T)
<1> DEFINE Bad == {U \in SUBSET T :
                      SumOver(weight, S \cup U) # SumOver(weight, S) + SumOver(weight, U)}
<1>1. SumOver(weight, S) \in Int
  BY SumInt
<1>2. Bad = {}
  <2> SUFFICES ASSUME Bad # {} PROVE FALSE
    OBVIOUS
  <2>1. PICK U \in Bad : \A x \in U : U \ {x} \notin Bad
    <3>1. Bad \in SUBSET SUBSET T
      OBVIOUS
    <3> HIDE DEF Bad
    <3> QED
      BY <3>1, MinimalSubset
  <2>2. U # {}
    <3>1. S \cup {} = S
      OBVIOUS
    <3> QED
      BY <1>1, <3>1, SumEmpty
  <2>3. PICK x \in U : TRUE
    BY <2>2
  <2>4. /\ IsFiniteSet(U) /\ IsFiniteSet(S \cup U)
        /\ IsFiniteSet(U \ {x}) /\ \A y \in U : weight[y] \in Int
    BY FS_Subset, FS_Union, FS_RemoveElement
  <2>5. SumOver(weight, U) = weight[x] + SumOver(weight, U \ {x})
    BY <2>4, SumWithout
  <2>6. SumOver(weight, S \cup U) = weight[x] + SumOver(weight, (S \cup U) \ {x})
    <3>1. \A y \in S \cup U : weight[y] \in Int
      BY <2>4
    <3>2. x \in S \cup U
      OBVIOUS
    <3> QED
      BY <2>4, <3>1, <3>2, SumWithout
  <2> DEFINE Both == S \cup (U \ {x})
  <2>7. (S \cup U) \ {x} = Both
    OBVIOUS
  <2>8. SumOver(weight, Both) = SumOver(weight, S) + SumOver(weight, U \ {x})
    BY <2>1
  <2>9. SumOver(weight, U \ {x}) \in Int
    BY <2>4, SumInt
  <2>10. /\ weight[x] \in Int
         /\ SumOver(weight, S \cup U) # SumOver(weight, S) + SumOver(weight, U)
    BY <2>4
  <2> HIDE DEF Bad, Both
  <2>11. SumOver(weight, S \cup U) = weight[x] + SumOver(weight, Both)
    BY <2>6, <2>7, Zenon
  <2> QED
    BY <1>1, <2>5, <2>8, <2>9, <2>10, <2>11
<1>3. T \notin Bad
  BY <1>2
<1> QED
  BY <1>3

Image(h, S) == {h[x] : x \in S}

\* Elements are renamed and keep their weights.
LEMMA SumRenamed ==
    ASSUME NEW weight, NEW other, NEW S, IsFiniteSet(S), NEW h,
           \A x \in S : weight[x] \in Int /\ other[h[x]] = weight[x],
           \A x, y \in S : h[x] = h[y] => x = y
    PROVE  /\ IsFiniteSet(Image(h, S))
           /\ SumOver(other, Image(h, S)) = SumOver(weight, S)
<1> DEFINE Bad == {T \in SUBSET S : SumOver(other, Image(h, T)) # SumOver(weight, T)}
<1>1. \A T \in SUBSET S : IsFiniteSet(T) /\ IsFiniteSet(Image(h, T))
  <2> SUFFICES ASSUME NEW T \in SUBSET S
               PROVE  IsFiniteSet(T) /\ IsFiniteSet(Image(h, T))
    OBVIOUS
  <2>1. IsFiniteSet(T)
    BY FS_Subset
  <2>2. [x \in T |-> h[x]] \in Surjection(T, Image(h, T))
    BY DEF Surjection, Image
  <2> QED
    BY <2>1, <2>2, FS_Surjection
<1>2. Bad = {}
  <2> SUFFICES ASSUME Bad # {} PROVE FALSE
    OBVIOUS
  <2>1. PICK T \in Bad : \A x \in T : T \ {x} \notin Bad
    <3>1. Bad \in SUBSET SUBSET S
      OBVIOUS
    <3> HIDE DEF Bad
    <3> QED
      BY <3>1, MinimalSubset
  <2>2. T # {}
    <3>1. Image(h, {}) = {}
      BY DEF Image
    <3> QED
      BY <3>1, SumEmpty
  <2>3. PICK x \in T : TRUE
    BY <2>2
  <2>4. SumOver(weight, T) = weight[x] + SumOver(weight, T \ {x})
    BY <1>1, SumWithout
  <2>5. SumOver(other, Image(h, T)) = other[h[x]] + SumOver(other, Image(h, T) \ {h[x]})
    <3>1. h[x] \in Image(h, T) /\ \A y \in Image(h, T) : other[y] \in Int
      BY DEF Image
    <3>2. IsFiniteSet(Image(h, T))
      BY <1>1
    <3> QED
      BY <3>1, <3>2, SumWithout
  <2>6. Image(h, T) \ {h[x]} = Image(h, T \ {x})
    BY DEF Image
  <2>7. SumOver(other, Image(h, T \ {x})) = SumOver(weight, T \ {x})
    BY <2>1
  <2> QED
    BY <2>4, <2>5, <2>6, <2>7
<1>3. S \notin Bad
  BY <1>2
<1> QED
  BY <1>1, <1>3

\* Weights that are the same on S have the same sum.
LEMMA SumSame ==
    ASSUME NEW weight, NEW other, NEW S, IsFiniteSet(S),
           \A x \in S : weight[x] \in Int /\ other[x] = weight[x]
    PROVE  SumOver(other, S) = SumOver(weight, S)
<1> DEFINE h == [x \in S |-> x]
<1>1. Image(h, S) = S
  BY DEF Image
<1>2. \A x \in S : weight[x] \in Int /\ other[h[x]] = weight[x]
  OBVIOUS
<1>3. \A x, y \in S : h[x] = h[y] => x = y
  OBVIOUS
<1> HIDE DEF h
<1> QED
  BY <1>1, <1>2, <1>3, SumRenamed

\* Only one element changes its weight.
LEMMA SumChanged ==
    ASSUME NEW weight, NEW other, NEW S, IsFiniteSet(S), NEW x \in S,
           \A y \in S : weight[y] \in Int /\ other[y] \in Int,
           \A y \in S : y # x => other[y] = weight[y]
    PROVE  SumOver(other, S) = SumOver(weight, S) - weight[x] + other[x]
<1> DEFINE T == S \ {x}
<1>1. IsFiniteSet(T) /\ \A y \in T : weight[y] \in Int /\ other[y] = weight[y]
  BY FS_RemoveElement
<1>2. SumOver(weight, S) = weight[x] + SumOver(weight, T)
  BY SumWithout
<1>3. SumOver(other, S) = other[x] + SumOver(other, T)
  BY SumWithout
<1> HIDE DEF T
<1>4. SumOver(other, T) = SumOver(weight, T) /\ SumOver(weight, T) \in Int
  BY <1>1, SumSame, SumInt
<1> QED
  BY <1>2, <1>3, <1>4

\* What weighs nothing adds nothing.
LEMMA SumZero ==
    ASSUME NEW weight, NEW S, IsFiniteSet(S), \A x \in S : weight[x] = 0
    PROVE  SumOver(weight, S) = 0
<1> DEFINE Bad == {T \in SUBSET S : SumOver(weight, T) # 0}
<1>1. Bad = {}
  <2> SUFFICES ASSUME Bad # {} PROVE FALSE
    OBVIOUS
  <2>1. PICK T \in Bad : \A x \in T : T \ {x} \notin Bad
    <3>1. Bad \in SUBSET SUBSET S
      OBVIOUS
    <3> HIDE DEF Bad
    <3> QED
      BY <3>1, MinimalSubset
  <2>2. T # {}
    BY SumEmpty
  <2>3. PICK x \in T : TRUE
    BY <2>2
  <2> DEFINE rest == T \ {x}
  <2>4. IsFiniteSet(T) /\ rest \in SUBSET S /\ \A y \in T : weight[y] = 0
    BY FS_Subset
  <2>5. SumOver(weight, rest) = 0
    BY <2>1, <2>4
  <2>6. SumOver(weight, T) = weight[x] + SumOver(weight, rest)
    BY <2>4, SumWithout
  <2> QED
    BY <2>4, <2>5, <2>6
<1> QED
  BY <1>1
=============================================================================
