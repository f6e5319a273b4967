----------------------------- MODULE SumTheorems -----------------------------
(***************************************************************************)
(* Laws the accounting of credits needs: of SumFunction, the sum of the    *)
(* values of a function with a finite domain, and of the number of the     *)
(* elements of a sequence that are in a set.  The sum is a fold that       *)
(* removes a chosen element at a time; that the choice does not matter,    *)
(* and every law below, is proved by induction on the subsets of the       *)
(* domain.  The induction is stated about a set of subsets, not about a    *)
(* predicate: a nonempty set of subsets that are not in it would have a    *)
(* minimal element.                                                        *)
(***************************************************************************)
EXTENDS Integers, Sequences, FiniteSets, Functions, FiniteSetTheorems,
        SequenceTheorems, NaturalsInduction, WellFoundedInduction, TLAPS

(* Induction on the finite subsets of a set.                               *)
LEMMA SubsetInduction ==
    ASSUME NEW S, IsFiniteSet(S), NEW G,
           \A T \in SUBSET S : (\A x \in T : T \ {x} \in G) => T \in G
    PROVE  S \in G /\ \A T \in SUBSET S : T \in G
<1> DEFINE B == (SUBSET S) \ G
<1> SUFFICES ASSUME B # {} PROVE FALSE
  OBVIOUS
<1>1. IsWellFoundedOn(StrictSubsetOrdering(S), SUBSET S)
  <2>1. IsWellFoundedOn(StrictSubsetOrdering(S), FiniteSubsetsOf(S))
    BY FS_StrictSubsetOrderingWellFounded
  <2>2. FiniteSubsetsOf(S) = SUBSET S
    BY FS_FiniteSubsetsOfFinite
  <2> QED BY <2>1, <2>2
<1>2. B \subseteq SUBSET S
  OBVIOUS
<1> HIDE DEF B
<1>3. PICK T \in B : \A U \in B : ~(<<U, T>> \in StrictSubsetOrdering(S))
  BY <1>1, <1>2, WFMin
<1>4. T \in SUBSET S /\ T \notin G
  BY <1>3 DEF B
<1>5. ASSUME NEW x \in T PROVE T \ {x} \in G
  <2>1. T \ {x} \in SUBSET S /\ T \ {x} \subseteq T /\ T \ {x} # T
    BY <1>4, <1>5
  <2>2. <<T \ {x}, T>> \in StrictSubsetOrdering(S)
    BY <1>4, <2>1 DEF StrictSubsetOrdering
  <2> QED BY <1>3, <2>1, <2>2 DEF B
<1> QED BY <1>4, <1>5

(* Induction on the natural numbers, about a set of numbers.               *)
LEMMA NumberInduction ==
    ASSUME NEW G, 0 \in G, \A n \in Nat : n \in G => n + 1 \in G
    PROVE  \A n \in Nat : n \in G
<1> DEFINE B == Nat \ G
<1> SUFFICES ASSUME B # {} PROVE FALSE
  OBVIOUS
<1>1. B \subseteq Nat
  OBVIOUS
<1> HIDE DEF B
<1>2. PICK n \in B : \A m \in B : ~(<<m, n>> \in OpToRel(<, Nat))
  BY <1>1, WFMin, NatLessThanWellFounded
<1>3. n \in Nat /\ n \notin G /\ n # 0
  BY <1>2 DEF B
<1>4. n - 1 \in Nat /\ n - 1 < n /\ (n - 1) + 1 = n
  BY <1>3
<1>5. <<n - 1, n>> \in OpToRel(<, Nat)
  BY <1>3, <1>4 DEF OpToRel
<1>6. n - 1 \in G
  BY <1>2, <1>4, <1>5 DEF B
<1> QED BY <1>3, <1>4, <1>6

-----------------------------------------------------------------------------
(* The partial sums of a function.                                         *)

(* One step of the fold: the sum over T from the sums over its subsets.    *)
Fold(f, S, h) ==
    [T \in SUBSET S |-> IF T = {} THEN 0
                        ELSE f[CHOOSE x \in T : TRUE]
                             + h[T \ {CHOOSE x \in T : TRUE}]]

LEMMA SumIsFold ==
    ASSUME NEW f, NEW S
    PROVE  SumFunctionOnSet(f, S) = (CHOOSE h : h = Fold(f, S, h))[S]
BY DEF SumFunctionOnSet, FoldFunctionOnSet, MapThenFoldSet, Fold

(* The fold is right for subsets of up to n elements after n steps.        *)
LEMMA FoldExists ==
    ASSUME NEW S, IsFiniteSet(S), NEW f
    PROVE  \E h : h = Fold(f, S, h)
<1> DEFINE Small(n) == {T \in SUBSET S : Cardinality(T) <= n}
           Right(n, h) == \A T \in Small(n) : h[T] = Fold(f, S, h)[T]
           G == {n \in Nat : \E h : DOMAIN h = SUBSET S /\ h = [T \in DOMAIN h |-> h[T]]
                                    /\ Right(n, h)}
<1>1. \A T \in SUBSET S : Cardinality(T) \in Nat /\ IsFiniteSet(T)
  BY FS_Subset, FS_CardinalityType
<1>2. 0 \in G
  <2> DEFINE h == [T \in SUBSET S |-> 0]
  <2>1. \A T \in Small(0) : T = {}
    BY <1>1, FS_EmptySet
  <2>2. Right(0, h)
    BY <2>1 DEF Fold
  <2>3. DOMAIN h = SUBSET S /\ h = [T \in DOMAIN h |-> h[T]]
    OBVIOUS
  <2> HIDE DEF h
  <2> QED BY <2>2, <2>3
<1>3. ASSUME NEW n \in Nat, n \in G PROVE n + 1 \in G
  <2>1. PICK h : DOMAIN h = SUBSET S /\ Right(n, h)
    BY <1>3
  <2> DEFINE k == Fold(f, S, h)
  <2>2. DOMAIN k = SUBSET S /\ k = [T \in DOMAIN k |-> k[T]]
    BY DEF Fold
  <2>3. ASSUME NEW T \in Small(n + 1) PROVE k[T] = Fold(f, S, k)[T]
    <3>1. CASE T = {}
      BY <3>1 DEF Fold
    <3>2. CASE T # {}
      <4> DEFINE c == CHOOSE x \in T : TRUE
      <4>1. c \in T
        BY <3>2
      <4>2. /\ k[T] = f[c] + h[T \ {c}]
            /\ Fold(f, S, k)[T] = f[c] + k[T \ {c}]
        BY <3>2 DEF Fold
      <4> HIDE DEF c, k
      <4>3. Cardinality(T \ {c}) = Cardinality(T) - 1
        BY <4>1, <1>1, FS_RemoveElement
      <4>4. T \ {c} \in Small(n)
        BY <4>3, <1>1
      <4>5. h[T \ {c}] = k[T \ {c}]
        BY <4>4, <2>1 DEF k
      <4> QED BY <4>2, <4>5
    <3> QED BY <3>1, <3>2
  <2> HIDE DEF k
  <2> QED BY <2>2, <2>3
<1> HIDE DEF G
<1>4. Cardinality(S) \in G
  BY <1>1, <1>2, <1>3, NumberInduction
<1>5. PICK h : /\ DOMAIN h = SUBSET S /\ h = [T \in DOMAIN h |-> h[T]]
               /\ Right(Cardinality(S), h)
  BY <1>4 DEF G
<1>6. \A T \in SUBSET S : T \in Small(Cardinality(S))
  BY <1>1, FS_Subset
<1>7. \A T \in SUBSET S : h[T] = Fold(f, S, h)[T]
  BY <1>5, <1>6
<1>8. Fold(f, S, h) = [T \in SUBSET S |-> Fold(f, S, h)[T]]
  BY DEF Fold
<1>9. h = [T \in SUBSET S |-> h[T]]
  BY <1>5
<1> QED BY <1>7, <1>8, <1>9

(* h gives the sum of f over every subset of S.                            *)
Sums(f, S, h) ==
    /\ h \in [SUBSET S -> Int]
    /\ h[{}] = 0
    /\ \A T \in SUBSET S : \A x \in T : h[T] = f[x] + h[T \ {x}]

LEMMA SumsExist ==
    ASSUME NEW S, IsFiniteSet(S), NEW f, \A x \in S : f[x] \in Int
    PROVE  \E h : Sums(f, S, h) /\ h[S] = SumFunctionOnSet(f, S)
<1> DEFINE h == CHOOSE h : h = Fold(f, S, h)
<1>1. h = Fold(f, S, h)
  BY FoldExists
<1>2. SumFunctionOnSet(f, S) = h[S]
  BY SumIsFold
<1> HIDE DEF h
<1>3. \A T \in SUBSET S :
          h[T] = IF T = {} THEN 0
                 ELSE f[CHOOSE x \in T : TRUE] + h[T \ {CHOOSE x \in T : TRUE}]
  BY <1>1 DEF Fold
<1>4. h[{}] = 0
  BY <1>3
<1>5. \A T \in SUBSET S : T # {} => \E c \in T : h[T] = f[c] + h[T \ {c}]
  BY <1>3
<1>6. h \in [SUBSET S -> Int]
  <2> DEFINE G == {T \in SUBSET S : h[T] \in Int}
  <2>1. ASSUME NEW T \in SUBSET S, \A x \in T : T \ {x} \in G
        PROVE  h[T] \in Int
    <3>1. CASE T = {}
      BY <1>4, <3>1
    <3>2. CASE T # {}
      <4>1. PICK c \in T : h[T] = f[c] + h[T \ {c}]
        BY <1>5, <3>2
      <4>2. h[T \ {c}] \in Int /\ f[c] \in Int
        BY <2>1, <4>1
      <4> QED BY <4>1, <4>2
    <3> QED BY <3>1, <3>2
  <2>2. \A T \in SUBSET S : (\A x \in T : T \ {x} \in G) => T \in G
    BY <2>1
  <2>3. \A T \in SUBSET S : h[T] \in Int
    <3> HIDE DEF G
    <3>1. \A T \in SUBSET S : T \in G
      BY <2>2, SubsetInduction
    <3> QED BY <3>1 DEF G
  <2>4. h = [T \in SUBSET S |-> h[T]]
    BY <1>1 DEF Fold
  <2> QED BY <2>3, <2>4
<1>7. \A T \in SUBSET S : \A x \in T : h[T] = f[x] + h[T \ {x}]
  <2> DEFINE G == {T \in SUBSET S : \A x \in T : h[T] = f[x] + h[T \ {x}]}
  <2>1. ASSUME NEW T \in SUBSET S, \A x \in T : T \ {x} \in G, NEW x \in T
        PROVE  h[T] = f[x] + h[T \ {x}]
    <3>1. PICK c \in T : h[T] = f[c] + h[T \ {c}]
      BY <1>5
    <3>2. CASE c = x
      BY <3>1, <3>2
    <3>3. CASE c # x
      <4>1. x \in T \ {c} /\ c \in T \ {x}
        BY <3>3
      <4>2. (T \ {x}) \ {c} = (T \ {c}) \ {x}
        OBVIOUS
      <4> DEFINE w == h[(T \ {c}) \ {x}]
      <4>3. /\ h[T \ {c}] = f[x] + w
            /\ h[T \ {x}] = f[c] + w
        BY <2>1, <4>1, <4>2
      <4>4. f[c] \in Int /\ f[x] \in Int /\ w \in Int
        BY <1>6
      <4> HIDE DEF w
      <4> QED BY <3>1, <4>3, <4>4
    <3> QED BY <3>2, <3>3
  <2>2. \A T \in SUBSET S : (\A x \in T : T \ {x} \in G) => T \in G
    BY <2>1
  <2> HIDE DEF G
  <2>3. \A T \in SUBSET S : T \in G
    BY <2>2, SubsetInduction
  <2> QED BY <2>3 DEF G
<1> QED BY <1>2, <1>4, <1>6, <1>7 DEF Sums

(* S is the domain of f.                                                   *)
PartialSums(f, S, h) ==
    /\ h \in [SUBSET S -> Int]
    /\ h[{}] = 0
    /\ \A T \in SUBSET S : \A x \in T : h[T] = f[x] + h[T \ {x}]
    /\ h[S] = SumFunction(f)

LEMMA PartialSumsExist ==
    ASSUME NEW S, IsFiniteSet(S), NEW f \in [S -> Int]
    PROVE  \E h : PartialSums(f, S, h)
<1>1. PICK h : Sums(f, S, h) /\ h[S] = SumFunctionOnSet(f, S)
  BY SumsExist
<1>2. SumFunction(f) = SumFunctionOnSet(f, S)
  BY DEF SumFunction
<1> QED BY <1>1, <1>2 DEF PartialSums, Sums

-----------------------------------------------------------------------------
(* The laws.                                                               *)

LEMMA SumType ==
    ASSUME NEW S, IsFiniteSet(S), NEW f \in [S -> Int]
    PROVE  SumFunction(f) \in Int
<1>1. PICK h : PartialSums(f, S, h)
  BY PartialSumsExist
<1> QED BY <1>1 DEF PartialSums

(* A sum of natural numbers is a natural number, and 0 only if all are.    *)
LEMMA SumNat ==
    ASSUME NEW S, IsFiniteSet(S), NEW f \in [S -> Nat]
    PROVE  SumFunction(f) \in Nat
<1>1. PICK h : PartialSums(f, S, h)
  BY PartialSumsExist
<1> DEFINE G == {T \in SUBSET S : h[T] \in Nat}
<1>2. ASSUME NEW T \in SUBSET S, \A x \in T : T \ {x} \in G
      PROVE  h[T] \in Nat
  <2>1. CASE T = {}
    BY <1>1, <2>1 DEF PartialSums
  <2>2. CASE T # {}
    <3>1. PICK x \in T : TRUE
      BY <2>2
    <3>2. h[T] = f[x] + h[T \ {x}] /\ h[T \ {x}] \in Nat /\ f[x] \in Nat
      BY <1>1, <1>2, <3>1 DEF PartialSums
    <3> QED BY <3>2
  <2> QED BY <2>1, <2>2
<1>3. \A T \in SUBSET S : (\A x \in T : T \ {x} \in G) => T \in G
  BY <1>2
<1> HIDE DEF G
<1>4. S \in G
  BY <1>3, SubsetInduction
<1> QED BY <1>1, <1>4 DEF PartialSums, G

LEMMA SumConstant ==
    ASSUME NEW S, IsFiniteSet(S), NEW c \in Int, NEW f,
           f = [x \in S |-> c]
    PROVE  SumFunction(f) = Cardinality(S) * c
<1>1. PICK h : PartialSums(f, S, h)
  BY PartialSumsExist
<1>2. \A T \in SUBSET S : Cardinality(T) \in Nat /\ IsFiniteSet(T)
  BY FS_Subset, FS_CardinalityType
<1> DEFINE G == {T \in SUBSET S : h[T] = Cardinality(T) * c}
<1>3. ASSUME NEW T \in SUBSET S, \A x \in T : T \ {x} \in G
      PROVE  h[T] = Cardinality(T) * c
  <2>1. CASE T = {}
    BY <1>1, <2>1, FS_EmptySet DEF PartialSums
  <2>2. CASE T # {}
    <3>1. PICK x \in T : TRUE
      BY <2>2
    <3>2. h[T] = c + Cardinality(T \ {x}) * c
      BY <1>1, <1>3, <3>1 DEF PartialSums
    <3>3. Cardinality(T \ {x}) = Cardinality(T) - 1 /\ Cardinality(T) \in Nat
      BY <1>2, <3>1, FS_RemoveElement
    <3> DEFINE n == Cardinality(T)
    <3>4. h[T] = c + (n - 1) * c /\ n \in Int
      BY <3>2, <3>3
    <3> HIDE DEF n
    <3>5. c + (n - 1) * c = n * c
      BY <3>4
    <3> QED BY <3>4, <3>5 DEF n
  <2> QED BY <2>1, <2>2
<1>4. \A T \in SUBSET S : (\A x \in T : T \ {x} \in G) => T \in G
  BY <1>3
<1> HIDE DEF G
<1>5. S \in G
  BY <1>4, SubsetInduction
<1> QED BY <1>1, <1>5 DEF PartialSums, G

LEMMA SumZero ==
    ASSUME NEW S, IsFiniteSet(S), NEW f \in [S -> Int], \A x \in S : f[x] = 0
    PROVE  SumFunction(f) = 0
<1>1. f = [x \in S |-> 0]
  OBVIOUS
<1>2. SumFunction(f) = Cardinality(S) * 0
  BY <1>1, SumConstant
<1>3. Cardinality(S) \in Nat
  BY FS_CardinalityType
<1> QED BY <1>2, <1>3

LEMMA SumAdd ==
    ASSUME NEW S, IsFiniteSet(S), NEW f \in [S -> Int], NEW g \in [S -> Int],
           NEW k \in [S -> Int], \A x \in S : k[x] = f[x] + g[x]
    PROVE  SumFunction(k) = SumFunction(f) + SumFunction(g)
<1>1. PICK a : PartialSums(f, S, a)
  BY PartialSumsExist
<1>2. PICK b : PartialSums(g, S, b)
  BY PartialSumsExist
<1>3. PICK h : PartialSums(k, S, h)
  BY PartialSumsExist
<1> DEFINE G == {T \in SUBSET S : h[T] = a[T] + b[T]}
<1>4. ASSUME NEW T \in SUBSET S, \A x \in T : T \ {x} \in G
      PROVE  h[T] = a[T] + b[T]
  <2>1. CASE T = {}
    BY <1>1, <1>2, <1>3, <2>1 DEF PartialSums
  <2>2. CASE T # {}
    <3>1. PICK x \in T : TRUE
      BY <2>2
    <3> DEFINE U == T \ {x}
    <3>2. U \in SUBSET S /\ h[U] = a[U] + b[U]
      BY <1>4, <3>1
    <3>3. /\ a[T] = f[x] + a[U] /\ b[T] = g[x] + b[U] /\ h[T] = k[x] + h[U]
      BY <1>1, <1>2, <1>3, <3>1 DEF PartialSums
    <3>4. /\ k[x] = f[x] + g[x] /\ f[x] \in Int /\ g[x] \in Int
          /\ a[U] \in Int /\ b[U] \in Int
      BY <1>1, <1>2, <3>1, <3>2 DEF PartialSums
    <3> HIDE DEF U
    <3> QED BY <3>2, <3>3, <3>4
  <2> QED BY <2>1, <2>2
<1>5. \A T \in SUBSET S : (\A x \in T : T \ {x} \in G) => T \in G
  BY <1>4
<1> HIDE DEF G
<1>6. S \in G
  BY <1>5, SubsetInduction
<1> QED BY <1>1, <1>2, <1>3, <1>6 DEF PartialSums, G

(* Only the value at y differs.                                            *)
LEMMA SumUpdate ==
    ASSUME NEW S, IsFiniteSet(S), NEW f \in [S -> Int], NEW k \in [S -> Int],
           NEW y \in S, \A x \in S \ {y} : k[x] = f[x]
    PROVE  SumFunction(k) = SumFunction(f) - f[y] + k[y]
<1>1. PICK a : PartialSums(f, S, a)
  BY PartialSumsExist
<1>2. PICK h : PartialSums(k, S, h)
  BY PartialSumsExist
<1> DEFINE G == {T \in SUBSET S : y \notin T => h[T] = a[T]}
<1>3. ASSUME NEW T \in SUBSET S, \A x \in T : T \ {x} \in G, y \notin T
      PROVE  h[T] = a[T]
  <2>1. CASE T = {}
    BY <1>1, <1>2, <2>1 DEF PartialSums
  <2>2. CASE T # {}
    <3>1. PICK x \in T : TRUE
      BY <2>2
    <3>2. h[T \ {x}] = a[T \ {x}] /\ k[x] = f[x]
      BY <1>3, <3>1
    <3> QED BY <1>1, <1>2, <3>1, <3>2 DEF PartialSums
  <2> QED BY <2>1, <2>2
<1>4. \A T \in SUBSET S : (\A x \in T : T \ {x} \in G) => T \in G
  BY <1>3
<1>5. S \ {y} \in G
  <2> HIDE DEF G
  <2>1. \A T \in SUBSET S : T \in G
    BY <1>4, SubsetInduction
  <2> QED BY <2>1
<1>6. h[S \ {y}] = a[S \ {y}] /\ a[S \ {y}] \in Int
  BY <1>1, <1>5 DEF PartialSums
<1>7. a[S] = f[y] + a[S \ {y}] /\ h[S] = k[y] + h[S \ {y}]
  BY <1>1, <1>2 DEF PartialSums
<1>8. f[y] \in Int /\ k[y] \in Int
  OBVIOUS
<1>9. h[S] = a[S] - f[y] + k[y]
  BY <1>6, <1>7, <1>8
<1> QED BY <1>1, <1>2, <1>9 DEF PartialSums

(* The sum over a part of the domain is that of the function with 0        *)
(* everywhere else.                                                        *)
LEMMA SumWithin ==
    ASSUME NEW S, IsFiniteSet(S), NEW P \in SUBSET S, NEW f, \A x \in P : f[x] \in Int,
           NEW k \in [S -> Int], \A x \in P : k[x] = f[x], \A x \in S \ P : k[x] = 0
    PROVE  SumFunctionOnSet(f, P) = SumFunction(k)
<1>1. PICK a : Sums(f, P, a) /\ a[P] = SumFunctionOnSet(f, P)
  <2>1. IsFiniteSet(P)
    BY FS_Subset
  <2>2. \A x \in P : f[x] \in Int
    OBVIOUS
  <2> QED BY <2>1, <2>2, SumsExist
<1>2. PICK h : PartialSums(k, S, h)
  BY PartialSumsExist
<1> DEFINE G == {T \in SUBSET S : h[T] = a[T \cap P]}
<1>3. ASSUME NEW T \in SUBSET S, \A x \in T : T \ {x} \in G
      PROVE  h[T] = a[T \cap P]
  <2>1. CASE T = {}
    <3>1. T \cap P = {}
      BY <2>1
    <3> QED BY <1>1, <1>2, <2>1, <3>1 DEF PartialSums, Sums
  <2>2. CASE T # {}
    <3>1. PICK x \in T : TRUE
      BY <2>2
    <3>2. h[T] = k[x] + a[(T \ {x}) \cap P]
      BY <1>2, <1>3, <3>1 DEF PartialSums
    <3>3. CASE x \in P
      <4>1. (T \ {x}) \cap P = (T \cap P) \ {x} /\ x \in T \cap P /\ T \cap P \in SUBSET P
        BY <3>1, <3>3
      <4>2. a[T \cap P] = f[x] + a[(T \cap P) \ {x}]
        BY <1>1, <4>1 DEF Sums
      <4> QED BY <3>2, <3>3, <4>1, <4>2
    <3>4. CASE x \notin P
      <4>1. (T \ {x}) \cap P = T \cap P /\ T \cap P \in SUBSET P
        BY <3>4
      <4>2. a[T \cap P] \in Int
        BY <1>1, <4>1 DEF Sums
      <4>3. k[x] = 0
        BY <3>1, <3>4
      <4>4. h[T] = 0 + a[T \cap P]
        BY <3>2, <4>1, <4>3
      <4> QED BY <4>2, <4>4
    <3> QED BY <3>3, <3>4
  <2> QED BY <2>1, <2>2
<1>4. \A T \in SUBSET S : (\A x \in T : T \ {x} \in G) => T \in G
  BY <1>3
<1> HIDE DEF G
<1>5. S \in G
  BY <1>4, SubsetInduction
<1>6. S \cap P = P
  OBVIOUS
<1> QED BY <1>1, <1>2, <1>5, <1>6 DEF PartialSums, G

LEMMA SumOnPart ==
    ASSUME NEW S, IsFiniteSet(S), NEW f \in [S -> Int], NEW P \in SUBSET S,
           NEW k \in [S -> Int], \A x \in P : k[x] = f[x], \A x \in S \ P : k[x] = 0
    PROVE  SumFunctionOnSet(f, P) = SumFunction(k)
<1>1. \A x \in P : f[x] \in Int
  OBVIOUS
<1> QED BY <1>1, SumWithin

LEMMA SumExtend ==
    ASSUME NEW S, IsFiniteSet(S), NEW P \in SUBSET S, NEW f \in [P -> Int],
           NEW k \in [S -> Int], \A x \in P : k[x] = f[x], \A x \in S \ P : k[x] = 0
    PROVE  SumFunction(k) = SumFunction(f)
<1>1. SumFunctionOnSet(f, P) = SumFunction(k)
  BY SumWithin
<1>2. SumFunction(f) = SumFunctionOnSet(f, P)
  BY DEF SumFunction
<1> QED BY <1>1, <1>2

LEMMA SumMonotone ==
    ASSUME NEW S, IsFiniteSet(S), NEW f \in [S -> Int], NEW g \in [S -> Int],
           \A x \in S : f[x] <= g[x]
    PROVE  SumFunction(f) <= SumFunction(g)
<1> DEFINE k == [x \in S |-> g[x] - f[x]]
<1>1. k \in [S -> Nat] /\ k \in [S -> Int] /\ \A x \in S : g[x] = f[x] + k[x]
  OBVIOUS
<1> HIDE DEF k
<1>2. SumFunction(g) = SumFunction(f) + SumFunction(k)
  BY <1>1, SumAdd
<1>3. SumFunction(k) \in Nat
  BY <1>1, SumNat
<1>4. SumFunction(f) \in Int
  BY SumType
<1> QED BY <1>2, <1>3, <1>4

(* A sum of two values and zeroes.                                         *)
LEMMA SumOfTwo ==
    ASSUME NEW S, IsFiniteSet(S), NEW f \in [S -> Int], NEW x \in S, NEW y \in S,
           x # y, \A z \in S \ {x, y} : f[z] = 0
    PROVE  SumFunction(f) = f[x] + f[y]
<1> DEFINE o == [z \in S |-> 0]
           g == [z \in S |-> IF z = x THEN f[x] ELSE 0]
<1>1. /\ o \in [S -> Int] /\ g \in [S -> Int] /\ \A z \in S : o[z] = 0
      /\ \A z \in S \ {x} : g[z] = o[z]
      /\ \A z \in S \ {y} : f[z] = g[z]
      /\ g[x] = f[x] /\ g[y] = 0 /\ o[x] = 0
  OBVIOUS
<1> HIDE DEF o, g
<1>2. SumFunction(o) = 0
  BY <1>1, SumZero
<1>3. SumFunction(g) = SumFunction(o) - o[x] + g[x]
  BY <1>1, SumUpdate
<1>4. SumFunction(f) = SumFunction(g) - g[y] + f[y]
  BY <1>1, SumUpdate
<1>5. f[x] \in Int /\ f[y] \in Int
  OBVIOUS
<1> QED BY <1>1, <1>2, <1>3, <1>4, <1>5

(* A sum over pairs is the sum of the sums of the rows.  The pairs are     *)
(* given by the row and the column of each element of S; the table t has 0 *)
(* where there is none.                                                    *)
IsTable(S, f, row, col, A, B, t) ==
    /\ t \in [A -> [B -> Int]]
    /\ \A k \in S : t[row[k]][col[k]] = f[k]
    /\ \A a \in A, b \in B :
           (\A k \in S : ~(row[k] = a /\ col[k] = b)) => t[a][b] = 0

LEMMA SumOfRows ==
    ASSUME NEW S, IsFiniteSet(S), NEW A, IsFiniteSet(A), NEW B, IsFiniteSet(B),
           NEW f \in [S -> Int], NEW row \in [S -> A], NEW col \in [S -> B],
           \A k, l \in S : row[k] = row[l] /\ col[k] = col[l] => k = l,
           NEW t, IsTable(S, f, row, col, A, B, t)
    PROVE  SumFunction(f) = SumFunction([a \in A |-> SumFunction(t[a])])
<1> DEFINE Hit(T, a, b) == \E k \in T : row[k] = a /\ col[k] = b
           Part(T) == [a \in A |-> [b \in B |-> IF Hit(T, a, b) THEN t[a][b] ELSE 0]]
           Rows(T) == [a \in A |-> SumFunction(Part(T)[a])]
<1>1. PICK h : PartialSums(f, S, h)
  BY PartialSumsExist
<1>2. t \in [A -> [B -> Int]]
  BY DEF IsTable
<1>3. ASSUME NEW T \in SUBSET S
      PROVE  /\ Part(T) \in [A -> [B -> Int]]
             /\ Rows(T) \in [A -> Int] /\ SumFunction(Rows(T)) \in Int
  <2>1. Part(T) \in [A -> [B -> Int]]
    BY <1>2
  <2> HIDE DEF Part
  <2>2. \A a \in A : SumFunction(Part(T)[a]) \in Int
    BY <2>1, SumType
  <2>3. Rows(T) \in [A -> Int]
    BY <2>2
  <2> HIDE DEF Rows
  <2> QED BY <2>1, <2>3, SumType
<1> DEFINE G == {T \in SUBSET S : h[T] = SumFunction(Rows(T))}
<1>4. ASSUME NEW T \in SUBSET S, \A x \in T : T \ {x} \in G
      PROVE  h[T] = SumFunction(Rows(T))
  <2>1. CASE T = {}
    <3>1. \A a \in A : \A b \in B : Part(T)[a][b] = 0
      BY <2>1
    <3>2. \A a \in A : Part(T)[a] \in [B -> Int]
      BY <1>3
    <3>3. \A a \in A : Rows(T)[a] = 0
      <4> HIDE DEF Part
      <4>1. \A a \in A : SumFunction(Part(T)[a]) = 0
        BY <3>1, <3>2, SumZero
      <4> QED BY <4>1
    <3>4. Rows(T) \in [A -> Int]
      BY <1>3
    <3> HIDE DEF Rows
    <3>5. SumFunction(Rows(T)) = 0
      BY <3>3, <3>4, SumZero
    <3> QED BY <1>1, <2>1, <3>5 DEF PartialSums
  <2>2. CASE T # {}
    <3>1. PICK x \in T : TRUE
      BY <2>2
    <3> DEFINE U == T \ {x}
               a == row[x]
               b == col[x]
    <3>2. U \in SUBSET S /\ h[U] = SumFunction(Rows(U)) /\ x \in S /\ x \notin U
      BY <1>4, <3>1
    <3>3. a \in A /\ b \in B /\ f[x] \in Int /\ h[U] \in Int
      BY <1>1, <3>2 DEF PartialSums
    <3>4. h[T] = f[x] + h[U]
      BY <1>1, <3>1 DEF PartialSums
    <3>5. Part(T)[a][b] = f[x] /\ Part(U)[a][b] = 0
      <4>1. Hit(T, a, b)
        BY <3>1
      <4>2. ~Hit(U, a, b)
        BY <3>2
      <4>3. t[a][b] = f[x]
        BY <3>2 DEF IsTable
      <4> HIDE DEF Hit
      <4> QED BY <3>3, <4>1, <4>2, <4>3
    <3>6. \A d \in A, e \in B : ~(d = a /\ e = b) => Part(T)[d][e] = Part(U)[d][e]
      <4>1. ASSUME NEW d \in A, NEW e \in B, ~(d = a /\ e = b)
            PROVE  Hit(T, d, e) <=> Hit(U, d, e)
        BY <4>1, <3>1
      <4> HIDE DEF Hit, a, b
      <4> QED BY <4>1
    <3>7. /\ Part(T) \in [A -> [B -> Int]] /\ Part(U) \in [A -> [B -> Int]]
          /\ Rows(T) \in [A -> Int] /\ Rows(U) \in [A -> Int]
          /\ SumFunction(Rows(U)) \in Int
      BY <1>3, <3>2
    <3> HIDE DEF Part, Hit, U, a, b
    <3>8. \A d \in A \ {a} : Part(T)[d] = Part(U)[d]
      BY <3>6, <3>7
    <3>9. SumFunction(Part(T)[a]) = SumFunction(Part(U)[a]) - 0 + f[x]
      <4>1. Part(T)[a] \in [B -> Int] /\ Part(U)[a] \in [B -> Int]
        BY <3>3, <3>7
      <4>2. \A e \in B \ {b} : Part(T)[a][e] = Part(U)[a][e]
        BY <3>3, <3>6
      <4>3. SumFunction(Part(T)[a])
            = SumFunction(Part(U)[a]) - Part(U)[a][b] + Part(T)[a][b]
        BY <3>3, <4>1, <4>2, SumUpdate
      <4> QED BY <3>5, <4>3
    <3>10. /\ \A d \in A \ {a} : Rows(T)[d] = Rows(U)[d]
           /\ Rows(T)[a] = Rows(U)[a] - 0 + f[x]
           /\ Rows(U)[a] \in Int
      BY <3>3, <3>7, <3>8, <3>9
    <3> HIDE DEF Rows
    <3>11. SumFunction(Rows(T)) = SumFunction(Rows(U)) - Rows(U)[a] + Rows(T)[a]
      <4> DEFINE r == Rows(T)
                 u == Rows(U)
      <4>1. /\ r \in [A -> Int] /\ u \in [A -> Int]
            /\ \A d \in A \ {a} : r[d] = u[d]
        BY <3>7, <3>10
      <4> HIDE DEF r, u
      <4>2. SumFunction(r) = SumFunction(u) - u[a] + r[a]
        BY <3>3, <4>1, SumUpdate
      <4> QED BY <4>2 DEF r, u
    <3> QED BY <3>2, <3>3, <3>4, <3>7, <3>10, <3>11
  <2> QED BY <2>1, <2>2
<1>5. S \in G
  <2>1. \A T \in SUBSET S : (\A x \in T : T \ {x} \in G) => T \in G
    BY <1>4
  <2> HIDE DEF G
  <2> QED BY <2>1, SubsetInduction
<1>6. Part(S) = t
  <2>1. ASSUME NEW a \in A, NEW b \in B
        PROVE  (IF Hit(S, a, b) THEN t[a][b] ELSE 0) = t[a][b]
    BY DEF IsTable
  <2> HIDE DEF Hit
  <2> QED BY <1>2, <2>1
<1>7. Rows(S) = [a \in A |-> SumFunction(t[a])]
  BY <1>6
<1> HIDE DEF Rows
<1> QED BY <1>1, <1>5, <1>7 DEF PartialSums

(* A table may be added up by its rows or by its columns.                  *)
LEMMA SumSwap ==
    ASSUME NEW A, IsFiniteSet(A), NEW B, IsFiniteSet(B), NEW f \in [A \X B -> Int]
    PROVE  SumFunction([a \in A |-> SumFunction([b \in B |-> f[<<a, b>>]])])
           = SumFunction([b \in B |-> SumFunction([a \in A |-> f[<<a, b>>]])])
<1> DEFINE S == A \X B
           row == [k \in S |-> k[1]]
           col == [k \in S |-> k[2]]
           t == [a \in A |-> [b \in B |-> f[<<a, b>>]]]
           u == [b \in B |-> [a \in A |-> f[<<a, b>>]]]
<1>1. IsFiniteSet(S)
  BY FS_Product
<1>2. /\ row \in [S -> A] /\ col \in [S -> B]
      /\ \A k, l \in S : row[k] = row[l] /\ col[k] = col[l] => k = l
      /\ \A k, l \in S : col[k] = col[l] /\ row[k] = row[l] => k = l
  OBVIOUS
<1>3. IsTable(S, f, row, col, A, B, t)
  <2>1. t \in [A -> [B -> Int]]
    OBVIOUS
  <2>2. \A k \in S : t[row[k]][col[k]] = f[k]
    OBVIOUS
  <2>3. \A a \in A, b \in B : <<a, b>> \in S /\ row[<<a, b>>] = a /\ col[<<a, b>>] = b
    OBVIOUS
  <2> HIDE DEF S, row, col, t
  <2>4. \A a \in A, b \in B :
            (\A k \in S : ~(row[k] = a /\ col[k] = b)) => t[a][b] = 0
    <3> SUFFICES ASSUME NEW a \in A, NEW b \in B,
                        \A k \in S : ~(row[k] = a /\ col[k] = b)
                 PROVE  FALSE
      BY Zenon
    <3> QED BY <2>3
  <2> QED BY ONLY <2>1, <2>2, <2>4 DEF IsTable
<1>4. IsTable(S, f, col, row, B, A, u)
  <2>1. u \in [B -> [A -> Int]]
    OBVIOUS
  <2>2. \A k \in S : u[col[k]][row[k]] = f[k]
    OBVIOUS
  <2>3. \A a \in A, b \in B : <<a, b>> \in S /\ row[<<a, b>>] = a /\ col[<<a, b>>] = b
    OBVIOUS
  <2> HIDE DEF S, row, col, u
  <2>4. \A b \in B, a \in A :
            (\A k \in S : ~(col[k] = b /\ row[k] = a)) => u[b][a] = 0
    <3> SUFFICES ASSUME NEW b \in B, NEW a \in A,
                        \A k \in S : ~(col[k] = b /\ row[k] = a)
                 PROVE  FALSE
      BY Zenon
    <3> QED BY <2>3
  <2> QED BY ONLY <2>1, <2>2, <2>4 DEF IsTable
<1>5. f \in [S -> Int]
  OBVIOUS
<1>6. /\ [a \in A |-> SumFunction(t[a])]
         = [a \in A |-> SumFunction([b \in B |-> f[<<a, b>>]])]
      /\ [b \in B |-> SumFunction(u[b])]
         = [b \in B |-> SumFunction([a \in A |-> f[<<a, b>>]])]
  OBVIOUS
<1> HIDE DEF S, row, col, t, u
<1>7. SumFunction(f) = SumFunction([a \in A |-> SumFunction(t[a])])
  <2>1. PICK g, R : g = f /\ R = S
    OBVIOUS
  <2>2. /\ IsFiniteSet(R) /\ IsFiniteSet(A) /\ IsFiniteSet(B) /\ g \in [R -> Int]
        /\ row \in [R -> A] /\ col \in [R -> B]
        /\ IsTable(R, g, row, col, A, B, t)
    BY <1>1, <1>2, <1>3, <1>5, <2>1
  <2>3. \A k, l \in R : row[k] = row[l] /\ col[k] = col[l] => k = l
    BY <1>2, <2>1
  <2>4. SumFunction(g) = SumFunction([a \in A |-> SumFunction(t[a])])
    BY ONLY <2>2, <2>3, SumOfRows
  <2> QED BY <2>1, <2>4
<1>8. SumFunction(f) = SumFunction([b \in B |-> SumFunction(u[b])])
  <2>1. PICK g, R : g = f /\ R = S
    OBVIOUS
  <2>2. /\ IsFiniteSet(R) /\ IsFiniteSet(A) /\ IsFiniteSet(B) /\ g \in [R -> Int]
        /\ row \in [R -> A] /\ col \in [R -> B]
        /\ IsTable(R, g, col, row, B, A, u)
    BY <1>1, <1>2, <1>4, <1>5, <2>1
  <2>3. \A k, l \in R : col[k] = col[l] /\ row[k] = row[l] => k = l
    BY <1>2, <2>1
  <2>4. SumFunction(g) = SumFunction([b \in B |-> SumFunction(u[b])])
    BY ONLY <2>2, <2>3, SumOfRows
  <2> QED BY <2>1, <2>4
<1> QED BY <1>6, <1>7, <1>8

LEMMA SumOneMore ==
    ASSUME NEW D, IsFiniteSet(D), NEW y \in D, NEW S \in SUBSET D,
           y \notin S, D \subseteq S \cup {y}, NEW f \in [S -> Int],
           NEW t \in [D -> Int], \A x \in S : t[x] = f[x]
    PROVE  SumFunction(t) = SumFunction(f) + t[y]
<1>1. IsFiniteSet(S)
  BY FS_Subset
<1>2. PICK k \in [D -> Int] : /\ \A x \in S : k[x] = f[x]
                              /\ k[y] = 0 /\ \A x \in D \ S : k[x] = 0
  <2> DEFINE k == [x \in D |-> IF x \in S THEN f[x] ELSE 0]
  <2>1. k \in [D -> Int]
    OBVIOUS
  <2>2. /\ \A x \in S : k[x] = f[x]
        /\ k[y] = 0 /\ \A x \in D \ S : k[x] = 0
    OBVIOUS
  <2> QED BY <2>1, <2>2
<1>3. SumFunction(k) = SumFunction(f)
  BY <1>2, SumExtend
<1>4. SumFunction(t) = SumFunction(k) - k[y] + t[y]
  <2>1. \A x \in D \ {y} : t[x] = k[x]
    BY <1>2
  <2> QED BY <1>1, <2>1, SumUpdate
<1>5. SumFunction(k) \in Int
  BY <1>1, SumType
<1> QED BY <1>1, <1>2, <1>3, <1>4, <1>5

(* The sum of a sequence.                                                  *)
LEMMA SumAppend ==
    ASSUME NEW s \in Seq(Int), NEW v \in Int
    PROVE  SumFunction(Append(s, v)) = SumFunction(s) + v
<1>1. PICK n \in Nat : n = Len(s) /\ s \in [1 .. n -> Int]
  BY LenProperties
<1>2. PICK t : t = Append(s, v)
  OBVIOUS
<1>3. t \in Seq(Int) /\ Len(t) = n + 1
  BY <1>1, <1>2
<1>4. t[n + 1] = v /\ \A i \in 1 .. n : t[i] = s[i]
  BY <1>1, <1>2
<1>5. PICK D, S, y : D = 1 .. n + 1 /\ S = 1 .. n /\ y = n + 1
  OBVIOUS
<1>6. /\ IsFiniteSet(D) /\ y \in D /\ S \in SUBSET D
      /\ y \notin S /\ D \subseteq S \cup {y}
  <2>1. IsFiniteSet(D)
    BY <1>5, FS_Interval
  <2>2. \A i : i \in 1 .. n + 1 <=> i \in 1 .. n \/ i = n + 1
    OBVIOUS
  <2>3. n + 1 \notin 1 .. n
    OBVIOUS
  <2> QED BY <1>5, <2>1, <2>2, <2>3
<1>7. t \in [D -> Int] /\ s \in [S -> Int] /\ t[y] = v /\ \A x \in S : t[x] = s[x]
  <2>1. t \in [1 .. Len(t) -> Int]
    BY <1>3, LenProperties
  <2> QED BY <1>1, <1>3, <1>4, <1>5, <2>1
<1>8. \A f \in [S -> Int] : \A k \in [D -> Int] :
          (\A x \in S : k[x] = f[x]) => SumFunction(k) = SumFunction(f) + k[y]
  BY ONLY <1>6, SumOneMore
<1>9. SumFunction(t) = SumFunction(s) + t[y]
  BY ONLY <1>7, <1>8, Zenon
<1> QED BY <1>2, <1>7, <1>9

LEMMA SumNone == SumFunction(<< >>) = 0
<1>1. IsFiniteSet({}) /\ << >> \in [{} -> Int]
  BY FS_EmptySet
<1>2. \A x \in {} : << >>[x] = 0
  OBVIOUS
<1> QED BY <1>1, <1>2, SumZero

-----------------------------------------------------------------------------
(* How many elements of a sequence are in P.                               *)

Count(s, P) == Cardinality({i \in DOMAIN s : s[i] \in P})

LEMMA CountType ==
    ASSUME NEW S, NEW s \in Seq(S), NEW P
    PROVE  /\ Count(s, P) \in Nat
           /\ IsFiniteSet({i \in DOMAIN s : s[i] \in P})
<1>1. DOMAIN s = 1 .. Len(s) /\ Len(s) \in Nat
  BY LenProperties
<1>2. IsFiniteSet(1 .. Len(s))
  BY <1>1, FS_Interval
<1>3. IsFiniteSet({i \in DOMAIN s : s[i] \in P})
  BY <1>1, <1>2, FS_Subset
<1> QED BY <1>3, FS_CardinalityType DEF Count

LEMMA CountEmpty == \A P : Count(<< >>, P) = 0
<1> TAKE P
<1>1. {i \in DOMAIN << >> : << >>[i] \in P} = {}
  OBVIOUS
<1> QED BY <1>1, FS_EmptySet DEF Count

LEMMA CountAppend ==
    ASSUME NEW S, NEW s \in Seq(S), NEW e \in S, NEW P
    PROVE  Count(Append(s, e), P) = Count(s, P) + (IF e \in P THEN 1 ELSE 0)
<1> DEFINE I == {i \in DOMAIN s : s[i] \in P}
           J == {i \in DOMAIN Append(s, e) : Append(s, e)[i] \in P}
           n == Len(s) + 1
<1>1. /\ Append(s, e) \in Seq(S) /\ Len(Append(s, e)) = n
      /\ \A j \in 1 .. Len(s) : Append(s, e)[j] = s[j]
      /\ Append(s, e)[n] = e
  BY AppendProperties
<1>2. /\ DOMAIN Append(s, e) = 1 .. n /\ DOMAIN s = 1 .. Len(s)
      /\ Len(s) \in Nat
  BY <1>1, LenProperties
<1>3. IsFiniteSet(I) /\ Cardinality(I) \in Nat
  BY CountType DEF Count
<1>4. J = IF e \in P THEN I \cup {n} ELSE I
  BY <1>1, <1>2
<1>5. n \notin I
  BY <1>2
<1> HIDE DEF I, J, n
<1>6. Cardinality(J) = Cardinality(I) + (IF e \in P THEN 1 ELSE 0)
  <2>1. Cardinality(I \cup {n}) = Cardinality(I) + 1
    BY <1>3, <1>5, FS_AddElement
  <2> QED BY <1>3, <1>4, <2>1
<1> QED BY <1>6 DEF Count, I, J

LEMMA CountConcat ==
    ASSUME NEW S, NEW s \in Seq(S), NEW t \in Seq(S), NEW P
    PROVE  Count(s \o t, P) = Count(s, P) + Count(t, P)
<1> DEFINE I == {i \in DOMAIN s : s[i] \in P}
           J == {i \in DOMAIN t : t[i] \in P}
           K == {i \in DOMAIN (s \o t) : (s \o t)[i] \in P}
           L == {i \in K : i > Len(s)}
           move == [j \in J |-> j + Len(s)]
<1>1. /\ s \o t \in Seq(S) /\ Len(s \o t) = Len(s) + Len(t)
      /\ \A i \in 1 .. Len(s) + Len(t) :
             (s \o t)[i] = IF i <= Len(s) THEN s[i] ELSE t[i - Len(s)]
  BY ConcatProperties
<1>2. /\ DOMAIN (s \o t) = 1 .. Len(s) + Len(t)
      /\ DOMAIN s = 1 .. Len(s) /\ DOMAIN t = 1 .. Len(t)
      /\ Len(s) \in Nat /\ Len(t) \in Nat
  BY <1>1, LenProperties
<1>3. IsFiniteSet(I) /\ IsFiniteSet(J) /\ IsFiniteSet(K)
      /\ Cardinality(I) \in Nat
  BY <1>1, CountType DEF Count
<1>4. K = I \cup L /\ I \cap L = {} /\ L \subseteq K
  BY <1>1, <1>2
<1>5. /\ \A j \in J : move[j] \in L
      /\ \A j, k \in J : move[j] = move[k] => j = k
  BY <1>1, <1>2
<1>6. \A i \in L : i - Len(s) \in J /\ move[i - Len(s)] = i
  BY <1>1, <1>2
<1>7. ExistsBijection(J, L)
  <2> HIDE DEF J, L
  <2>1. move \in [J -> L]
    BY <1>5
  <2>2. move \in Bijection(J, L)
    <3> HIDE DEF move
    <3>1. \A i \in L : \E j \in J : move[j] = i
      BY <1>6
    <3> QED BY <1>5, <2>1, <3>1 DEF Bijection, Injection, Surjection, IsInjective
  <2> QED BY <2>2 DEF ExistsBijection
<1>8. IsFiniteSet(L) /\ Cardinality(L) = Cardinality(J)
  <2> HIDE DEF J, L
  <2> QED BY <1>3, <1>7, FS_Bijection
<1>9. Cardinality(K) = Cardinality(I) + Cardinality(L) - 0
  <2> HIDE DEF I, K, L
  <2>1. Cardinality(I \cap L) = 0
    BY <1>4, FS_EmptySet
  <2> QED BY <1>3, <1>4, <1>8, <2>1, FS_Union
<1>10. Cardinality(J) \in Nat
  BY <1>3, FS_CardinalityType
<1>11. /\ Count(s, P) = Cardinality(I) /\ Count(t, P) = Cardinality(J)
       /\ Count(s \o t, P) = Cardinality(K)
  BY DEF Count
<1> HIDE DEF I, J, K, L
<1> QED BY <1>3, <1>8, <1>9, <1>10, <1>11

LEMMA CountTail ==
    ASSUME NEW S, NEW s \in Seq(S), s # << >>, NEW P
    PROVE  Count(s, P) = (IF Head(s) \in P THEN 1 ELSE 0) + Count(Tail(s), P)
<1>1. s = << Head(s) >> \o Tail(s) /\ Tail(s) \in Seq(S) /\ Head(s) \in S
  OBVIOUS
<1> DEFINE h == << Head(s) >>
<1>2. h \in Seq(S) /\ h = Append(<< >>, Head(s)) /\ << >> \in Seq(S)
  BY <1>1
<1>3. Count(h, P) = Count(<< >>, P) + (IF Head(s) \in P THEN 1 ELSE 0)
  <2> DEFINE e == Head(s)
             z == << >>
  <2>1. z \in Seq(S) /\ e \in S /\ h = Append(z, e)
    BY <1>1, <1>2
  <2> HIDE DEF e, z, h
  <2>2. Count(Append(z, e), P) = Count(z, P) + (IF e \in P THEN 1 ELSE 0)
    BY <2>1, CountAppend
  <2> QED BY <2>1, <2>2 DEF e, z
<1>4. Count(h, P) = IF Head(s) \in P THEN 1 ELSE 0
  BY <1>3, CountEmpty
<1>5. Count(h \o Tail(s), P) = Count(h, P) + Count(Tail(s), P)
  BY <1>1, <1>2, CountConcat
<1> HIDE DEF h
<1> QED BY <1>1, <1>4, <1>5 DEF h

(* The same before the first m.                                            *)
Before(s, P, m) ==
    {i \in DOMAIN s : s[i] \in P /\ \A j \in 1 .. i : s[j] # m}
CountBefore(s, P, m) == Cardinality(Before(s, P, m))

LEMMA BeforeType ==
    ASSUME NEW S, NEW s \in Seq(S), NEW P, NEW m
    PROVE  /\ CountBefore(s, P, m) \in Nat
           /\ IsFiniteSet(Before(s, P, m))
<1> DEFINE I == {i \in DOMAIN s : s[i] \in P}
<1>1. IsFiniteSet(I) /\ Before(s, P, m) \in SUBSET I
  BY CountType DEF Before
<1> HIDE DEF I
<1>2. IsFiniteSet(Before(s, P, m))
  BY <1>1, FS_Subset
<1> QED BY <1>2, FS_CardinalityType DEF CountBefore

(* There is no m.                                                          *)
LEMMA BeforeAbsent ==
    ASSUME NEW S, NEW s \in Seq(S), NEW P, NEW m,
           \A i \in DOMAIN s : s[i] # m
    PROVE  CountBefore(s, P, m) = Count(s, P)
<1>1. DOMAIN s = 1 .. Len(s) /\ Len(s) \in Nat
  BY LenProperties
<1>2. Before(s, P, m) = {i \in DOMAIN s : s[i] \in P}
  BY <1>1 DEF Before
<1> QED BY <1>2 DEF CountBefore, Count

(* What follows the first m does not count.                                *)
LEMMA BeforePrefix ==
    ASSUME NEW S, NEW u \in Seq(S), NEW s \in Seq(S), NEW P, NEW m,
           Len(u) <= Len(s), \A i \in 1 .. Len(u) : u[i] = s[i],
           \E i \in DOMAIN u : u[i] = m
    PROVE  CountBefore(s, P, m) = CountBefore(u, P, m)
<1>1. /\ DOMAIN s = 1 .. Len(s) /\ Len(s) \in Nat
      /\ DOMAIN u = 1 .. Len(u) /\ Len(u) \in Nat
  BY LenProperties
<1>2. PICK k \in 1 .. Len(u) : s[k] = m
  BY <1>1
<1>3. ASSUME NEW i \in 1 .. Len(s), \A j \in 1 .. i : s[j] # m
      PROVE  i \in 1 .. Len(u)
  BY <1>1, <1>2, <1>3
<1>4. ASSUME NEW i \in 1 .. Len(u)
      PROVE  (\A j \in 1 .. i : s[j] # m) <=> (\A j \in 1 .. i : u[j] # m)
  <2>1. \A j \in 1 .. i : j \in 1 .. Len(u)
    BY <1>1
  <2> QED BY <2>1
<1>5. Before(s, P, m) = Before(u, P, m)
  BY <1>1, <1>3, <1>4 DEF Before
<1> QED BY <1>5 DEF CountBefore

LEMMA BeforeGrows ==
    ASSUME NEW S, NEW s \in Seq(S), NEW t \in Seq(S), NEW P, NEW m,
           \E i \in DOMAIN s : s[i] = m
    PROVE  CountBefore(s \o t, P, m) = CountBefore(s, P, m)
<1> DEFINE w == s \o t
<1>1. /\ w \in Seq(S) /\ Len(s) <= Len(w) /\ Len(s) \in Nat
      /\ \A i \in 1 .. Len(s) : s[i] = w[i]
  <2>1. /\ w \in Seq(S) /\ Len(w) = Len(s) + Len(t)
        /\ \A i \in 1 .. Len(s) + Len(t) :
               w[i] = IF i <= Len(s) THEN s[i] ELSE t[i - Len(s)]
    BY ConcatProperties
  <2>2. Len(s) \in Nat /\ Len(t) \in Nat
    BY LenProperties
  <2> HIDE DEF w
  <2> QED BY <2>1, <2>2
<1> HIDE DEF w
<1>2. CountBefore(w, P, m) = CountBefore(s, P, m)
  BY <1>1, BeforePrefix
<1> QED BY <1>2 DEF w

(* The first m is put after s.                                             *)
LEMMA BeforeMark ==
    ASSUME NEW S, NEW s \in Seq(S), NEW t \in Seq(S), NEW P, NEW m,
           \A i \in DOMAIN s : s[i] # m, t # << >>, t[1] = m
    PROVE  CountBefore(s \o t, P, m) = Count(s, P)
<1> DEFINE w == s \o t
<1>1. /\ w \in Seq(S) /\ Len(w) = Len(s) + Len(t)
      /\ \A i \in 1 .. Len(s) + Len(t) :
             w[i] = IF i <= Len(s) THEN s[i] ELSE t[i - Len(s)]
  BY ConcatProperties
<1>2. Len(s) \in Nat /\ Len(t) \in Nat \ {0} /\ DOMAIN s = 1 .. Len(s)
  BY LenProperties, EmptySeq
<1> HIDE DEF w
<1>3. DOMAIN w = 1 .. Len(w)
  BY <1>1, LenProperties
<1>4. w[Len(s) + 1] = m
  <2>1. /\ Len(s) + 1 \in 1 .. Len(s) + Len(t)
        /\ ~(Len(s) + 1 <= Len(s)) /\ (Len(s) + 1) - Len(s) = 1
    BY <1>2
  <2> QED BY <1>1, <2>1
<1>5. ASSUME NEW i \in 1 .. Len(w), \A j \in 1 .. i : w[j] # m
      PROVE  i \in 1 .. Len(s)
  BY <1>1, <1>2, <1>4, <1>5
<1>6. ASSUME NEW i \in 1 .. Len(s) PROVE \A j \in 1 .. i : w[j] # m
  <2> SUFFICES ASSUME NEW j \in 1 .. i PROVE w[j] # m
    OBVIOUS
  <2>1. j \in 1 .. Len(s)
    BY <1>2
  <2>2. w[j] = s[j]
    BY <1>1, <1>2, <2>1
  <2> QED BY <1>2, <2>1, <2>2
<1>7. \A i \in 1 .. Len(s) : w[i] = s[i] /\ i \in 1 .. Len(w)
  BY <1>1, <1>2
<1>8. Before(w, P, m) = {i \in DOMAIN s : s[i] \in P}
  BY <1>2, <1>3, <1>5, <1>6, <1>7 DEF Before
<1> QED BY <1>8 DEF CountBefore, Count, w

(* An element is taken from the front.                                     *)
LEMMA BeforeTail ==
    ASSUME NEW S, NEW s \in Seq(S), s # << >>, NEW P, NEW m, Head(s) # m
    PROVE  CountBefore(s, P, m) = (IF Head(s) \in P THEN 1 ELSE 0)
                                  + CountBefore(Tail(s), P, m)
<1> DEFINE t == Tail(s)
           J == Before(t, P, m)
           K == Before(s, P, m)
           L == K \ {1}
           move == [j \in J |-> j + 1]
<1>1. /\ t \in Seq(S) /\ Len(t) = Len(s) - 1
      /\ \A j \in 1 .. Len(t) : t[j] = s[j + 1]
  BY HeadTailProperties
<1>2. Head(s) = s[1] /\ Len(s) \in Nat \ {0}
  BY LenProperties, EmptySeq
<1> HIDE DEF t
<1>3. DOMAIN s = 1 .. Len(s) /\ DOMAIN t = 1 .. Len(t) /\ Len(t) \in Nat
  BY <1>1, LenProperties
<1>4. IsFiniteSet(J) /\ IsFiniteSet(K) /\ Cardinality(K) \in Nat
  BY <1>1, BeforeType DEF CountBefore
<1>5. ASSUME NEW j \in 1 .. Len(t)
      PROVE  (\A i \in 1 .. j : t[i] # m) <=> (\A i \in 1 .. j + 1 : s[i] # m)
  <2>1. \A i \in 1 .. j : i \in 1 .. Len(t) /\ t[i] = s[i + 1] /\ i + 1 \in 1 .. j + 1
    BY <1>1, <1>3
  <2>2. \A i \in 1 .. j + 1 : i = 1 \/ (i - 1 \in 1 .. j /\ s[i] = t[i - 1])
    <3> SUFFICES ASSUME NEW i \in 1 .. j + 1, i # 1
                 PROVE  i - 1 \in 1 .. j /\ s[i] = t[i - 1]
      OBVIOUS
    <3>1. i - 1 \in 1 .. j /\ (i - 1) + 1 = i
      OBVIOUS
    <3> QED BY <2>1, <3>1
  <2> QED BY <1>2, <2>1, <2>2
<1>6. \A j \in 1 .. Len(t) : j \in J <=> j + 1 \in L
  BY <1>1, <1>2, <1>3, <1>5 DEF Before
<1>7. \A i \in L : i - 1 \in 1 .. Len(t)
  BY <1>1, <1>2, <1>3 DEF Before
<1>8. J \subseteq 1 .. Len(t)
  BY <1>3 DEF Before
<1>9. ExistsBijection(J, L)
  <2>1. /\ \A j \in J : move[j] \in L
        /\ \A j, k \in J : move[j] = move[k] => j = k
        /\ \A i \in L : \E j \in J : move[j] = i
    <3>1. \A i \in L : i \in Int
      BY <1>3 DEF Before
    <3>2. \A i \in L : (i - 1) + 1 = i
      BY <3>1
    <3> HIDE DEF J, L
    <3>3. \A i \in L : i - 1 \in J
      BY <1>6, <1>7, <3>2
    <3>4. \A j \in J : move[j] = j + 1
      OBVIOUS
    <3>5. \A i \in L : move[i - 1] = i
      BY <3>2, <3>3, <3>4
    <3>6. \A j \in J : j \in Int /\ move[j] \in L
      BY <1>6, <1>8, <3>4
    <3>7. \A j, k \in J : j + 1 = k + 1 => j = k
      BY <3>6
    <3>8. \A i \in L : \E j \in J : move[j] = i
      BY <3>3, <3>5
    <3> HIDE DEF move
    <3> QED BY <3>4, <3>6, <3>7, <3>8
  <2> HIDE DEF J, L
  <2>2. move \in [J -> L]
    BY <2>1
  <2> HIDE DEF move
  <2>3. move \in Bijection(J, L)
    BY <2>1, <2>2 DEF Bijection, Injection, Surjection, IsInjective
  <2> QED BY <2>3 DEF ExistsBijection
<1>10. IsFiniteSet(L) /\ Cardinality(L) = Cardinality(J)
  <2> HIDE DEF J, L
  <2> QED BY <1>4, <1>9, FS_Bijection
<1>11. Cardinality(L) = IF 1 \in K THEN Cardinality(K) - 1 ELSE Cardinality(K)
  <2> HIDE DEF K
  <2> QED BY <1>4, FS_RemoveElement
<1>12. 1 \in K <=> Head(s) \in P
  BY <1>2, <1>3 DEF Before
<1>13. CountBefore(s, P, m) = Cardinality(K) /\ CountBefore(t, P, m) = Cardinality(J)
  BY DEF CountBefore
<1> HIDE DEF J, K, L
<1> QED BY <1>4, <1>10, <1>11, <1>12, <1>13 DEF t

LEMMA BeforeHead ==
    ASSUME NEW S, NEW s \in Seq(S), s # << >>, NEW P, NEW m, Head(s) = m
    PROVE  CountBefore(s, P, m) = 0
<1>1. s[1] = m /\ DOMAIN s = 1 .. Len(s) /\ Len(s) \in Nat
  BY LenProperties, EmptySeq
<1>2. Before(s, P, m) = {}
  BY <1>1 DEF Before
<1> QED BY <1>2, FS_EmptySet DEF CountBefore
=============================================================================
