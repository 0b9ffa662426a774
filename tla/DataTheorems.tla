---------------------------- MODULE DataTheorems ----------------------------
(***************************************************************************)
(* Facts about data that the proofs of the components rest on: induction   *)
(* over finite sets, and what sums over finite sets are.                   *)
(*                                                                         *)
(* The library states induction for an operator P(_), which the provers do *)
(* not instantiate.  Here the property is a set of good elements instead,  *)
(* and induction is the existence of a least element that is not good.     *)
(***************************************************************************)
EXTENDS Integers, FiniteSets, Functions, FiniteSetTheorems, WellFoundedInduction, TLAPS

\* A set of naturals that is not empty has a least element.
LEMMA LeastNatural ==
  ASSUME NEW T \in SUBSET Nat, T # {}
  PROVE  \E n \in T : \A m \in T : n <= m
<1>1. \E n \in T : \A m \in T : ~(<<m, n>> \in OpToRel(<, Nat))
  BY NatLessThanWellFounded, WFMin, Zenon
<1>2. \A m, n \in Nat : m < n => <<m, n>> \in OpToRel(<, Nat)
  BY Zenon DEF OpToRel
<1>3. PICK n \in T : \A m \in T : ~(<<m, n>> \in OpToRel(<, Nat))
  BY <1>1, Zenon
<1>4. \A m \in T : ~(m < n)
  BY <1>2, <1>3, Zenon
<1> QED BY <1>4

\* Induction over the subsets of a finite set: what holds of a subset as soon as it holds of all
\* its proper subsets holds of every subset.
LEMMA SubsetInduction ==
  ASSUME NEW S, IsFiniteSet(S), NEW Good,
         \A T \in SUBSET S : (\A U \in SUBSET T : U # T => U \in Good) => T \in Good
  PROVE  \A T \in SUBSET S : T \in Good
<1> DEFINE Bad == {n \in Nat : \E T \in SUBSET S : Cardinality(T) = n /\ T \notin Good}
<1>1. SUFFICES ASSUME NEW T0 \in SUBSET S, T0 \notin Good PROVE FALSE
  OBVIOUS
<1>2. \A T \in SUBSET S : Cardinality(T) \in Nat
  BY FS_Subset, FS_CardinalityType
<1>3. Cardinality(T0) \in Bad
  BY <1>1, <1>2
<1>4. PICK n \in Bad : \A m \in Bad : n <= m
  BY <1>3, LeastNatural
<1>5. PICK T \in SUBSET S : Cardinality(T) = n /\ T \notin Good
  OBVIOUS
<1>6. ASSUME NEW U \in SUBSET T, U # T
      PROVE  U \in Good
  <2>1. Cardinality(U) <= n /\ Cardinality(U) # n
    BY <1>5, <1>6, FS_Subset
  <2>2. U \in SUBSET S /\ Cardinality(U) \in Nat
    BY <1>2
  <2> QED BY <1>4, <2>1, <2>2
<1> QED BY <1>5, <1>6

(***************************************************************************)
(* PartialSums.                                                                   *)
(***************************************************************************)
\* The function that the sum over a set applies: the sums over all of its subsets.
PartialSums(g, fun, S) ==
    g = [s \in SUBSET S |-> IF s = {} THEN 0
                            ELSE LET x == CHOOSE x \in s : TRUE IN fun[x] + g[s \ {x}]]

Chosen(s) == CHOOSE x \in s : TRUE

\* The sum over no element, and the sum over some, in the order of the choice.
LEMMA SumsAt ==
  ASSUME NEW g, NEW fun, NEW S, PartialSums(g, fun, S)
  PROVE  /\ g[{}] = 0
         /\ \A s \in SUBSET S : s # {} => g[s] = fun[Chosen(s)] + g[s \ {Chosen(s)}]
BY DEF PartialSums, Chosen

\* A sum is a value of that function, of the many it chooses one.
LEMMA SumIsItsFold ==
  ASSUME NEW fun, NEW S
  PROVE  SumFunctionOnSet(fun, S) = (CHOOSE g : PartialSums(g, fun, S))[S]
BY DEF SumFunctionOnSet, FoldFunctionOnSet, MapThenFoldSet, PartialSums

\* There is such a function: the sums of all subsets of up to n elements give those of n + 1.
LEMMA SumsExist ==
  ASSUME NEW fun, NEW S, IsFiniteSet(S)
  PROVE  \E g : PartialSums(g, fun, S)
<1> DEFINE Value(g, s) == IF s = {} THEN 0 ELSE fun[Chosen(s)] + g[s \ {Chosen(s)}]
           Good == {T \in SUBSET S :
                      \E g : \A s \in SUBSET S : Cardinality(s) <= Cardinality(T) => g[s] = Value(g, s)}
<1>1. \A T \in SUBSET S : IsFiniteSet(T) /\ Cardinality(T) \in Nat
  BY FS_Subset, FS_CardinalityType
<1>2. ASSUME NEW T \in SUBSET S, \A U \in SUBSET T : U # T => U \in Good
      PROVE  T \in Good
  <2>1. CASE T = {}
    <3> DEFINE z == [s \in SUBSET S |-> 0]
    <3>1. ASSUME NEW s \in SUBSET S, Cardinality(s) <= Cardinality(T)
          PROVE  z[s] = Value(z, s)
      BY <1>1, <2>1, <3>1, FS_EmptySet
    <3> QED BY <2>1, <3>1
  <2>2. CASE T # {}
    <3> DEFINE n == Cardinality(T)
    <3>1. PICK y \in T : TRUE
      BY <2>2
    <3>2. T \ {y} \in Good /\ Cardinality(T \ {y}) = n - 1 /\ n \in Nat
      BY <1>1, <1>2, FS_RemoveElement
    <3>3. PICK g : \A s \in SUBSET S : Cardinality(s) <= n - 1 => g[s] = Value(g, s)
      BY <3>2
    <3> DEFINE h == [s \in SUBSET S |-> Value(g, s)]
    <3>4. ASSUME NEW s \in SUBSET S, Cardinality(s) <= n
          PROVE  h[s] = Value(h, s)
      <4>1. CASE s = {}
        BY <4>1
      <4>2. CASE s # {}
        <5>1. Chosen(s) \in s
          BY <4>2 DEF Chosen
        <5>2. Cardinality(s \ {Chosen(s)}) = Cardinality(s) - 1
          BY <1>1, <5>1, FS_RemoveElement
        <5>3. s \ {Chosen(s)} \in SUBSET S /\ Cardinality(s \ {Chosen(s)}) <= n - 1
          BY <1>1, <3>2, <3>4, <5>2
        <5>4. h[s \ {Chosen(s)}] = g[s \ {Chosen(s)}]
          BY <3>3, <5>3
        <5> QED BY <4>2, <5>4
      <4> QED BY <4>1, <4>2
    <3>5. \A s \in SUBSET S : Cardinality(s) <= Cardinality(T) => h[s] = Value(h, s)
      BY <3>4
    <3> HIDE DEF h
    <3> QED BY <3>5
  <2> QED BY <2>1, <2>2
<1>3. S \in Good
  <2> HIDE DEF Good
  <2> QED BY <1>2, SubsetInduction
<1>4. PICK g : \A s \in SUBSET S : Cardinality(s) <= Cardinality(S) => g[s] = Value(g, s)
  BY <1>3
<1>5. \A s \in SUBSET S : g[s] = Value(g, s)
  BY <1>4, FS_Subset
<1> DEFINE h == [s \in SUBSET S |-> g[s]]
<1>6. ASSUME NEW s \in SUBSET S
      PROVE  h[s] = Value(h, s)
  <2>1. s \ {Chosen(s)} \in SUBSET S
    OBVIOUS
  <2> QED BY <1>5, <2>1
<1>7. h = [s \in SUBSET S |-> Value(h, s)]
  <2>1. h = [s \in SUBSET S |-> h[s]]
    OBVIOUS
  <2> HIDE DEF h, Value
  <2> QED BY <1>6, <2>1
<1>8. PartialSums(h, fun, S)
  BY <1>7 DEF PartialSums, Chosen
<1> QED BY <1>8

\* Two such functions over different sets agree where the summands do.
LEMMA SumsAgree ==
  ASSUME NEW fun, NEW other, NEW S, IsFiniteSet(S), NEW T \in SUBSET S,
         \A x \in T : fun[x] = other[x],
         NEW g, PartialSums(g, fun, S), NEW h, PartialSums(h, other, T)
  PROVE  g[T] = h[T]
<1> DEFINE Good == {s \in SUBSET T : g[s] = h[s]}
<1>1. ASSUME NEW s \in SUBSET T, \A U \in SUBSET s : U # s => U \in Good
      PROVE  s \in Good
  <2>1. CASE s = {}
    BY <2>1, SumsAt
  <2>2. CASE s # {}
    <3>1. Chosen(s) \in s
      BY <2>2 DEF Chosen
    <3>2. s \ {Chosen(s)} \in Good
      BY <1>1, <3>1
    <3>3. /\ g[s] = fun[Chosen(s)] + g[s \ {Chosen(s)}]
          /\ h[s] = other[Chosen(s)] + h[s \ {Chosen(s)}]
      BY <2>2, SumsAt
    <3>4. fun[Chosen(s)] = other[Chosen(s)]
      BY <3>1
    <3> QED BY <3>2, <3>3, <3>4
  <2> QED BY <2>1, <2>2
<1>2. IsFiniteSet(T)
  BY FS_Subset
<1>3. T \in Good
  <2> HIDE DEF Good
  <2> QED BY <1>1, <1>2, SubsetInduction
<1> QED BY <1>3

\* A sum depends on its summands only.
LEMMA SumSame ==
  ASSUME NEW S, IsFiniteSet(S), NEW fun, NEW other, \A x \in S : fun[x] = other[x]
  PROVE  SumFunctionOnSet(fun, S) = SumFunctionOnSet(other, S)
<1> DEFINE g == CHOOSE k : PartialSums(k, fun, S)
           h == CHOOSE k : PartialSums(k, other, S)
<1>1. PartialSums(g, fun, S) /\ PartialSums(h, other, S)
  BY SumsExist
<1> HIDE DEF g, h
<1>2. g[S] = h[S]
  BY <1>1, SumsAgree
<1> USE DEF g, h
<1> QED BY <1>2, SumIsItsFold

\* The empty sum.
LEMMA SumOfNothing ==
  ASSUME NEW fun
  PROVE  SumFunctionOnSet(fun, {}) = 0
<1> DEFINE g == CHOOSE k : PartialSums(k, fun, {})
<1>1. PartialSums(g, fun, {})
  BY SumsExist, FS_EmptySet
<1>2. g[{}] = 0
  <2> HIDE DEF g
  <2> QED BY <1>1, SumsAt
<1> QED BY <1>2, SumIsItsFold

\* A sum is its chosen element's summand and the sum over the others.
LEMMA SumChosen ==
  ASSUME NEW S, IsFiniteSet(S), S # {}, NEW fun
  PROVE  SumFunctionOnSet(fun, S) = fun[Chosen(S)] + SumFunctionOnSet(fun, S \ {Chosen(S)})
<1> DEFINE T == S \ {Chosen(S)}
           g == CHOOSE k : PartialSums(k, fun, S)
           h == CHOOSE k : PartialSums(k, fun, T)
<1>0. IsFiniteSet(T)
  BY FS_RemoveElement
<1>1. PartialSums(g, fun, S) /\ PartialSums(h, fun, T)
  BY <1>0, SumsExist
<1>2. SumFunctionOnSet(fun, S) = g[S] /\ SumFunctionOnSet(fun, T) = h[T]
  BY SumIsItsFold
<1> HIDE DEF g, h
<1>3. g[S] = fun[Chosen(S)] + g[T]
  BY <1>1, SumsAt
<1>4. ASSUME NEW U \in SUBSET S, NEW k, PartialSums(k, fun, U)
      PROVE  g[U] = k[U]
  <2>1. \A x \in U : fun[x] = fun[x]
    OBVIOUS
  <2> QED BY <1>1, <1>4, <2>1, SumsAgree
<1>5. T \in SUBSET S
  OBVIOUS
<1>6. g[T] = h[T]
  <2> HIDE DEF T
  <2> QED BY <1>1, <1>4, <1>5
<1> QED BY <1>2, <1>3, <1>6

\* A sum is a natural number, and its elements may be summed in any order.
LEMMA SumRemove ==
  ASSUME NEW S, IsFiniteSet(S), NEW fun, \A x \in S : fun[x] \in Nat
  PROVE  /\ SumFunctionOnSet(fun, S) \in Nat
         /\ \A y \in S : SumFunctionOnSet(fun, S) = fun[y] + SumFunctionOnSet(fun, S \ {y})
<1> DEFINE Sum(T) == SumFunctionOnSet(fun, T)
           Good == {T \in SUBSET S : Sum(T) \in Nat
                                     /\ \A y \in T : Sum(T) = fun[y] + Sum(T \ {y})}
<1>0. /\ Sum({}) = 0
      /\ \A T \in SUBSET S : T # {} => Sum(T) = fun[Chosen(T)] + Sum(T \ {Chosen(T)})
      /\ \A T \in SUBSET S : T # {} => Chosen(T) \in T
  BY SumOfNothing, SumChosen, FS_Subset DEF Chosen
<1> HIDE DEF Sum
<1>1. ASSUME NEW T \in SUBSET S, \A U \in SUBSET T : U # T => U \in Good
      PROVE  T \in Good
  <2>1. CASE T = {}
    BY <1>0, <2>1
  <2>2. CASE T # {}
    <3> DEFINE x == Chosen(T)
    <3>1. x \in T /\ Sum(T) = fun[x] + Sum(T \ {x})
      BY <1>0, <2>2
    <3> HIDE DEF x
    <3>2. T \ {x} \in Good
      BY <1>1, <3>1
    <3>3. fun[x] \in Nat /\ Sum(T) \in Nat
      BY <3>1, <3>2
    <3>4. ASSUME NEW y \in T, y # x
          PROVE  Sum(T) = fun[y] + Sum(T \ {y})
      <4>1. T \ {y} \in Good
        BY <1>1
      <4>2. Sum(T \ {x}) = fun[y] + Sum((T \ {x}) \ {y})
        BY <3>2, <3>4
      <4>3. Sum(T \ {y}) = fun[x] + Sum((T \ {y}) \ {x})
        BY <3>1, <3>4, <4>1
      <4>4. (T \ {x}) \ {y} = (T \ {y}) \ {x} /\ (T \ {x}) \ {y} # T
        BY <3>1
      <4> DEFINE rest == Sum((T \ {x}) \ {y})
      <4>5. Sum((T \ {y}) \ {x}) = rest
        BY <4>4, Zenon
      <4>6. rest \in Nat /\ fun[y] \in Nat
        BY <1>1, <4>4
      <4>7. Sum(T) = fun[x] + (fun[y] + rest) /\ Sum(T \ {y}) = fun[x] + rest
        BY <3>1, <4>2, <4>3, <4>5, Zenon
      <4> HIDE DEF Good, rest
      <4> QED BY <3>3, <4>6, <4>7
    <3> QED BY <3>1, <3>3, <3>4
  <2> QED BY <2>1, <2>2
<1>2. S \in Good
  <2> HIDE DEF Good
  <2> QED BY <1>1, SubsetInduction
<1> QED BY <1>2 DEF Sum

\* One more element adds its summand.
LEMMA SumAdd ==
  ASSUME NEW S, IsFiniteSet(S), NEW x, x \notin S, NEW fun, \A y \in S \cup {x} : fun[y] \in Nat
  PROVE  SumFunctionOnSet(fun, S \cup {x}) = fun[x] + SumFunctionOnSet(fun, S)
<1>1. IsFiniteSet(S \cup {x}) /\ (S \cup {x}) \ {x} = S
  BY FS_AddElement
<1> QED BY <1>1, SumRemove

\* A sum of larger summands is larger.
LEMMA SumMonotone ==
  ASSUME NEW S, IsFiniteSet(S), NEW fun, NEW other,
         \A x \in S : fun[x] \in Nat /\ other[x] \in Nat /\ fun[x] <= other[x]
  PROVE  SumFunctionOnSet(fun, S) <= SumFunctionOnSet(other, S)
<1> DEFINE F(T) == SumFunctionOnSet(fun, T)
           G(T) == SumFunctionOnSet(other, T)
           Good == {T \in SUBSET S : F(T) <= G(T)}
<1>1. \A T \in SUBSET S : /\ F(T) \in Nat /\ \A y \in T : F(T) = fun[y] + F(T \ {y})
                          /\ G(T) \in Nat /\ \A y \in T : G(T) = other[y] + G(T \ {y})
  BY SumRemove, FS_Subset
<1>2. F({}) = 0 /\ G({}) = 0
  BY SumOfNothing
<1> HIDE DEF F, G
<1>3. ASSUME NEW T \in SUBSET S, \A U \in SUBSET T : U # T => U \in Good
      PROVE  T \in Good
  <2>1. CASE T = {}
    BY <1>2, <2>1
  <2>2. CASE T # {}
    <3>1. PICK y \in T : TRUE
      BY <2>2
    <3>2. T \ {y} \in Good /\ T \ {y} \in SUBSET S
      BY <1>3
    <3>3. F(T \ {y}) \in Nat /\ G(T \ {y}) \in Nat /\ F(T) = fun[y] + F(T \ {y}) /\ G(T) = other[y] + G(T \ {y})
      BY <1>1, <3>2
    <3> QED BY <3>2, <3>3
  <2> QED BY <2>1, <2>2
<1>4. S \in Good
  <2> HIDE DEF Good
  <2> QED BY <1>3, SubsetInduction
<1> QED BY <1>4 DEF F, G

\* A sum over a part of the set is not larger.
LEMMA SumOfPart ==
  ASSUME NEW S, IsFiniteSet(S), NEW T \in SUBSET S, NEW fun, \A x \in S : fun[x] \in Nat
  PROVE  SumFunctionOnSet(fun, T) <= SumFunctionOnSet(fun, S)
<1> DEFINE F(U) == SumFunctionOnSet(fun, U)
           Good == {U \in SUBSET S : F(T \cap U) <= F(U)}
<1>1. \A U \in SUBSET S : F(U) \in Nat /\ \A y \in U : F(U) = fun[y] + F(U \ {y})
  BY SumRemove, FS_Subset
<1> HIDE DEF F
<1>3. ASSUME NEW U \in SUBSET S, \A V \in SUBSET U : V # U => V \in Good
      PROVE  U \in Good
  <2>1. CASE T \cap U = U
    <3>1. F(T \cap U) = F(U)
      BY <2>1, Zenon
    <3>2. F(U) <= F(U)
      BY <1>1
    <3> QED BY <3>1, <3>2
  <2>2. CASE T \cap U # U
    <3>1. PICK y \in U : y \notin T
      BY <2>2
    <3>2. U \ {y} \in Good /\ T \cap (U \ {y}) = T \cap U
      BY <1>3, <3>1
    <3>3. F(U) = fun[y] + F(U \ {y}) /\ F(U \ {y}) \in Nat /\ F(T \cap U) \in Nat /\ fun[y] \in Nat
      BY <1>1
    <3> QED BY <3>2, <3>3
  <2> QED BY <2>1, <2>2
<1>4. S \in Good
  <2> HIDE DEF Good
  <2> QED BY <1>3, SubsetInduction
<1>5. T \cap S = T
  OBVIOUS
<1> QED BY <1>4, <1>5 DEF F

\* Two functions that differ in one element have sums that differ by as much.
LEMMA SumChange ==
  ASSUME NEW S, IsFiniteSet(S), NEW y \in S, NEW fun, NEW other,
         \A x \in S : fun[x] \in Nat /\ other[x] \in Nat,
         \A x \in S \ {y} : fun[x] = other[x]
  PROVE  SumFunctionOnSet(fun, S) + other[y] = SumFunctionOnSet(other, S) + fun[y]
<1> DEFINE F(T) == SumFunctionOnSet(fun, T)
           G(T) == SumFunctionOnSet(other, T)
<1>1. F(S) = fun[y] + F(S \ {y}) /\ G(S) = other[y] + G(S \ {y})
  BY SumRemove
<1>2. F(S \ {y}) = G(S \ {y})
  BY SumSame, FS_RemoveElement
<1>3. F(S \ {y}) \in Nat
  BY SumRemove, FS_RemoveElement
<1> HIDE DEF F, G
<1>4. fun[y] \in Nat /\ other[y] \in Nat
  OBVIOUS
<1>5. F(S) + other[y] = G(S) + fun[y]
  BY <1>1, <1>2, <1>3, <1>4
<1> QED BY <1>5 DEF F, G

\* A sum of zeros is zero.
LEMMA SumOfZeros ==
  ASSUME NEW S, IsFiniteSet(S), NEW fun, \A x \in S : fun[x] = 0
  PROVE  SumFunctionOnSet(fun, S) = 0
<1> DEFINE F(T) == SumFunctionOnSet(fun, T)
           Good == {T \in SUBSET S : F(T) = 0}
<1>1. F({}) = 0
  BY SumOfNothing
<1>2. \A T \in SUBSET S : \A y \in T : F(T) = fun[y] + F(T \ {y})
  BY SumRemove, FS_Subset
<1> HIDE DEF F
<1>3. ASSUME NEW T \in SUBSET S, \A U \in SUBSET T : U # T => U \in Good
      PROVE  T \in Good
  <2>1. CASE T = {}
    BY <1>1, <2>1
  <2>2. CASE T # {}
    <3>1. PICK y \in T : TRUE
      BY <2>2
    <3>2. T \ {y} \in Good /\ F(T) = fun[y] + F(T \ {y}) /\ fun[y] = 0
      BY <1>2, <1>3
    <3> QED BY <3>2
  <2> QED BY <2>1, <2>2
<1>4. S \in Good
  <2> HIDE DEF Good
  <2> QED BY <1>3, SubsetInduction
<1> QED BY <1>4 DEF F

\* A sum over a set is the sum over a part of it and the sum over the rest.
LEMMA SumSplit ==
  ASSUME NEW S, IsFiniteSet(S), NEW T \in SUBSET S, NEW fun, \A x \in S : fun[x] \in Nat
  PROVE  SumFunctionOnSet(fun, S) = SumFunctionOnSet(fun, T) + SumFunctionOnSet(fun, S \ T)
<1> DEFINE F(U) == SumFunctionOnSet(fun, U)
           Good == {U \in SUBSET S : F(U) = F(T \cap U) + F(U \ T)}
<1>1. \A U \in SUBSET S : F(U) \in Nat /\ \A y \in U : F(U) = fun[y] + F(U \ {y})
  BY SumRemove, FS_Subset
<1>2. F({}) = 0
  BY SumOfNothing
<1> HIDE DEF F
<1>3. ASSUME NEW U \in SUBSET S, \A V \in SUBSET U : V # U => V \in Good
      PROVE  U \in Good
  <2>1. CASE U = {}
    <3>1. T \cap U = {} /\ U \ T = {}
      BY <2>1
    <3>2. F(T \cap U) = 0 /\ F(U \ T) = 0 /\ F(U) = 0
      BY <1>2, <2>1, <3>1, Zenon
    <3> QED BY <3>2
  <2>2. CASE U # {}
    <3>1. PICK y \in U : TRUE
      BY <2>2
    <3> DEFINE V == U \ {y}
    <3>2. V \in Good /\ F(U) = fun[y] + F(V) /\ fun[y] \in Nat
      BY <1>1, <1>3
    <3>3. F(T \cap V) \in Nat /\ F(V \ T) \in Nat
      <4>1. T \cap V \in SUBSET S /\ V \ T \in SUBSET S
        OBVIOUS
      <4> QED BY <1>1, <4>1
    <3>4. CASE y \in T
      <4>1. (T \cap U) \ {y} = T \cap V /\ U \ T = V \ T /\ y \in T \cap U /\ T \cap U \in SUBSET S
        BY <3>4
      <4>2. F(T \cap U) = fun[y] + F(T \cap V) /\ F(U \ T) = F(V \ T)
        BY <1>1, <4>1
      <4> HIDE DEF V
      <4>3. F(U) = F(T \cap U) + F(U \ T)
        BY <3>2, <3>3, <4>2
      <4> QED BY <4>3
    <3>5. CASE y \notin T
      <4>1. (U \ T) \ {y} = V \ T /\ T \cap U = T \cap V /\ y \in U \ T /\ U \ T \in SUBSET S
        BY <3>5
      <4>2. F(U \ T) = fun[y] + F(V \ T) /\ F(T \cap U) = F(T \cap V)
        BY <1>1, <4>1
      <4> HIDE DEF V
      <4>3. F(U) = F(T \cap U) + F(U \ T)
        BY <3>2, <3>3, <4>2
      <4> QED BY <4>3
    <3> QED BY <3>4, <3>5
  <2> QED BY <2>1, <2>2
<1>4. S \in Good
  <2> HIDE DEF Good
  <2> QED BY <1>3, SubsetInduction
<1>5. T \cap S = T
  OBVIOUS
<1>6. F(S) = F(T \cap S) + F(S \ T)
  BY <1>4
<1> QED BY <1>5, <1>6 DEF F

\* No element contributes more than the sum.
LEMMA SumBoundsElements ==
  ASSUME NEW S, IsFiniteSet(S), NEW fun, \A x \in S : fun[x] \in Nat
  PROVE  \A x \in S : fun[x] <= SumFunctionOnSet(fun, S)
<1> SUFFICES ASSUME NEW x \in S PROVE fun[x] <= SumFunctionOnSet(fun, S)
  OBVIOUS
<1>1. SumFunctionOnSet(fun, S) = fun[x] + SumFunctionOnSet(fun, S \ {x})
  BY SumRemove
<1>2. SumFunctionOnSet(fun, S \ {x}) \in Nat
  BY SumRemove, FS_RemoveElement
<1> QED BY <1>1, <1>2

\* A sum over a part of a set may be added element by element.
LEMMA SumPlusPart ==
  ASSUME NEW S, IsFiniteSet(S), NEW T \in SUBSET S, NEW fun, NEW extra,
         \A x \in S : fun[x] \in Nat, \A x \in T : extra[x] \in Nat
  PROVE  SumFunctionOnSet(fun, S) + SumFunctionOnSet(extra, T)
           = SumFunctionOnSet([x \in S |-> fun[x] + IF x \in T THEN extra[x] ELSE 0], S)
<1> DEFINE both == [x \in S |-> fun[x] + IF x \in T THEN extra[x] ELSE 0]
           F(U) == SumFunctionOnSet(fun, U)
           E(U) == SumFunctionOnSet(extra, U)
           B(U) == SumFunctionOnSet(both, U)
           Good == {U \in SUBSET S : F(U) + E(T \cap U) = B(U)}
<1>1. \A x \in S : both[x] \in Nat
  OBVIOUS
<1> HIDE DEF both
<1>2. \A U \in SUBSET S : /\ F(U) \in Nat /\ \A y \in U : F(U) = fun[y] + F(U \ {y})
                          /\ B(U) \in Nat /\ \A y \in U : B(U) = both[y] + B(U \ {y})
  BY <1>1, SumRemove, FS_Subset
<1>3. \A U \in SUBSET T : E(U) \in Nat /\ \A y \in U : E(U) = extra[y] + E(U \ {y})
  BY SumRemove, FS_Subset
<1>4. F({}) = 0 /\ E({}) = 0 /\ B({}) = 0
  BY SumOfNothing
<1> HIDE DEF F, E, B
<1>5. ASSUME NEW U \in SUBSET S, \A V \in SUBSET U : V # U => V \in Good
      PROVE  U \in Good
  <2>1. CASE U = {}
    <3>1. T \cap U = {}
      BY <2>1
    <3>2. E(T \cap U) = 0
      BY <1>4, <3>1, Zenon
    <3> QED BY <1>4, <2>1, <3>2
  <2>2. CASE U # {}
    <3>1. PICK y \in U : TRUE
      BY <2>2
    <3> DEFINE V == U \ {y}
    <3>2. V \in Good /\ V \in SUBSET S
      BY <1>5
    <3>3. F(U) = fun[y] + F(V) /\ B(U) = both[y] + B(V) /\ F(V) \in Nat /\ B(V) \in Nat
      BY <1>2
    <3>4. T \cap V \in SUBSET T /\ T \cap U \in SUBSET T
      OBVIOUS
    <3>5. E(T \cap V) \in Nat /\ fun[y] \in Nat
      BY <1>3, <3>4
    <3>6. F(V) + E(T \cap V) = B(V)
      BY <3>2
    <3>7. CASE y \in T
      <4>1. (T \cap U) \ {y} = T \cap V /\ y \in T \cap U
        BY <3>7
      <4>2. E(T \cap U) = extra[y] + E(T \cap V)
        BY <1>3, <3>4, <4>1
      <4>3. both[y] = fun[y] + extra[y] /\ extra[y] \in Nat
        BY <3>7 DEF both
      <4> HIDE DEF V, Good
      <4>4. F(U) + E(T \cap U) = B(U)
        BY <3>3, <3>5, <3>6, <4>2, <4>3
      <4> QED BY <4>4 DEF Good
    <3>8. CASE y \notin T
      <4>1. T \cap U = T \cap V
        BY <3>8
      <4>2. E(T \cap U) = E(T \cap V)
        BY <4>1, Zenon
      <4>3. both[y] = fun[y]
        BY <3>8 DEF both
      <4> HIDE DEF V, Good
      <4>4. F(U) + E(T \cap U) = B(U)
        BY <3>3, <3>5, <3>6, <4>2, <4>3
      <4> QED BY <4>4 DEF Good
    <3> QED BY <3>7, <3>8
  <2> QED BY <2>1, <2>2
<1>6. S \in Good
  <2> HIDE DEF Good
  <2> QED BY <1>5, SubsetInduction
<1>7. T \cap S = T
  OBVIOUS
<1>8. F(S) + E(T \cap S) = B(S)
  BY <1>6
<1>9. E(T \cap S) = E(T)
  BY <1>7, Zenon
<1>10. F(S) + E(T) = B(S)
  BY <1>8, <1>9
<1> QED BY <1>10 DEF F, E, B, both

\* What is counted class by class is not more than the sum over the classes.
LEMMA CountByClass ==
  ASSUME NEW S, IsFiniteSet(S), NEW C, IsFiniteSet(C), NEW class, \A x \in S : class[x] \in C,
         NEW fun, \A c \in C : fun[c] \in Nat /\ Cardinality({x \in S : class[x] = c}) <= fun[c]
  PROVE  Cardinality(S) <= SumFunctionOnSet(fun, C)
<1> DEFINE F(U) == SumFunctionOnSet(fun, U)
           In(U) == {x \in S : class[x] \in U}
           Good == {U \in SUBSET C : Cardinality(In(U)) <= F(U)}
<1>1. \A U \in SUBSET C : F(U) \in Nat /\ \A y \in U : F(U) = fun[y] + F(U \ {y})
  BY SumRemove, FS_Subset
<1>2. \A U : IsFiniteSet(In(U)) /\ Cardinality(In(U)) \in Nat
  BY FS_Subset, FS_CardinalityType
<1>3. F({}) = 0
  BY SumOfNothing
<1> HIDE DEF F
<1>4. ASSUME NEW U \in SUBSET C, \A V \in SUBSET U : V # U => V \in Good
      PROVE  U \in Good
  <2>1. CASE U = {}
    <3>1. In(U) = {}
      BY <2>1
    <3>2. Cardinality(In(U)) = 0
      BY <3>1, FS_EmptySet
    <3> QED BY <1>3, <2>1, <3>2
  <2>2. CASE U # {}
    <3>1. PICK y \in U : TRUE
      BY <2>2
    <3> DEFINE rest == In(U \ {y})
               one == {x \in S : class[x] = y}
    <3>2. IsFiniteSet(one) /\ Cardinality(one) \in Nat /\ Cardinality(one) <= fun[y] /\ fun[y] \in Nat
      BY <3>1, FS_Subset, FS_CardinalityType
    <3>3. IsFiniteSet(rest) /\ Cardinality(rest) \in Nat /\ Cardinality(rest) <= F(U \ {y})
      BY <1>2, <1>4, <3>1
    <3>4. rest \cap one = {} /\ rest \cup one = In(U)
      BY <3>1
    <3>5. F(U) = fun[y] + F(U \ {y}) /\ F(U \ {y}) \in Nat
      BY <1>1, <3>1
    <3> HIDE DEF rest, one, In
    <3>6. Cardinality(rest \cup one) = Cardinality(rest) + Cardinality(one)
      <4>1. Cardinality(rest \cap one) = 0
        BY <3>4, FS_EmptySet, Zenon
      <4>2. Cardinality(rest \cup one) = Cardinality(rest) + Cardinality(one) - Cardinality(rest \cap one)
        BY <3>2, <3>3, FS_Union, Zenon
      <4> QED BY <3>2, <3>3, <4>1, <4>2
    <3>7. Cardinality(In(U)) = Cardinality(rest) + Cardinality(one)
      BY <3>4, <3>6, Zenon
    <3>8. Cardinality(In(U)) <= F(U)
      BY <3>2, <3>3, <3>5, <3>7
    <3> QED BY <3>8
  <2> QED BY <2>1, <2>2
<1>5. C \in Good
  <2> HIDE DEF Good
  <2> QED BY <1>4, SubsetInduction
<1>6. In(C) = S
  OBVIOUS
<1>7. Cardinality(In(C)) <= F(C)
  BY <1>5
<1> QED BY <1>6, <1>7 DEF F
====
