----------------------------- MODULE Sums_proofs ------------------------------
(***************************************************************************)
(* What a sum over a finite set is, for every set and every column of       *)
(* numbers.  The sum is a recursive function on the subsets of the set, so  *)
(* every fact rests on an induction over finite sets; SubsetInduction is    *)
(* that induction with the property given as a set of subsets, and it       *)
(* follows from the well-foundedness of strict inclusion.                   *)
(***************************************************************************)
EXTENDS Sums, FiniteSetsExt, FiniteSetTheorems, WellFoundedInduction, TLAPS

--------------------------------------------------------------------------------
(* Induction over the subsets of a finite set *)

LEMMA SubsetInduction ==
  ASSUME NEW U, IsFiniteSet(U), NEW Good,
         \A S \in SUBSET U :
           (\A T \in SUBSET S : T # S => T \in Good) => S \in Good
  PROVE  SUBSET U \subseteq Good
<1> DEFINE Bad == {S \in SUBSET U : S \notin Good}
           R == StrictSubsetOrdering(U)
<1>1. IsWellFoundedOn(R, SUBSET U)
  BY FS_StrictSubsetOrderingWellFounded, FS_FiniteSubsetsOfFinite, Zenon
<1>2. SUFFICES ASSUME Bad # {} PROVE FALSE
  OBVIOUS
<1>3. PICK S \in Bad : \A T \in Bad : ~ (<<T, S>> \in R)
  <2> HIDE DEF R
  <2>1. Bad \subseteq SUBSET U
    OBVIOUS
  <2> HIDE DEF Bad
  <2> QED  BY <1>1, <1>2, <2>1, WFMin
<1>4. \A T \in SUBSET S : T # S => T \in Good
  <2> SUFFICES ASSUME NEW T \in SUBSET S, T # S, T \notin Good PROVE FALSE
    OBVIOUS
  <2>1. T \in Bad /\ S \in SUBSET U
    OBVIOUS
  <2>2. <<T, S>> \in R
    BY <2>1 DEF StrictSubsetOrdering
  <2> QED  BY <1>3, <2>1, <2>2
<1> QED  BY <1>4

\* A finite set of numbers that is not empty has a least and a greatest one.
LEMMA FiniteSetsHaveEnds ==
  ASSUME NEW S \in SUBSET Int, IsFiniteSet(S), S # {}
  PROVE  /\ Min(S) \in S /\ \A y \in S : Min(S) <= y
         /\ Max(S) \in S /\ \A y \in S : Max(S) >= y
<1> DEFINE Good == {T \in SUBSET S : T = {} \/ \E a, b \in T : \A y \in T : a <= y /\ y <= b}
<1>1. ASSUME NEW T \in SUBSET S, \A U \in SUBSET T : U # T => U \in Good
      PROVE  T \in Good
  <2>1. CASE T = {}
    BY <2>1
  <2>2. ASSUME NEW x \in T PROVE T \in Good
    <3>1. T \ {x} \in Good
      BY <1>1
    <3>2. CASE T \ {x} = {}
      <4>1. \A y \in T : y = x
        BY <3>2
      <4>2. x \in Int
        OBVIOUS
      <4> QED  BY <4>1, <4>2
    <3>3. CASE T \ {x} # {}
      <4> SUFFICES \E p, q \in T : \A y \in T : p <= y /\ y <= q
        OBVIOUS
      <4>1. PICK a, b \in T \ {x} : \A y \in T \ {x} : a <= y /\ y <= b
        BY <3>1, <3>3
      <4>2. a \in Int /\ b \in Int /\ x \in Int /\ a <= b /\ \A y \in T : y \in Int
        BY <4>1
      <4>3. CASE x < a
        <5>1. \A y \in T : x <= y /\ y <= b
          BY <4>1, <4>2, <4>3
        <5> QED  BY <5>1
      <4>4. CASE x > b
        <5>1. \A y \in T : a <= y /\ y <= x
          BY <4>1, <4>2, <4>4
        <5> QED  BY <5>1
      <4>5. CASE a <= x /\ x <= b
        <5>1. \A y \in T : a <= y /\ y <= b
          BY <4>1, <4>2, <4>5
        <5> QED  BY <5>1
      <4> QED  BY <4>2, <4>3, <4>4, <4>5
    <3> QED  BY <3>2, <3>3
  <2> QED  BY <2>1, <2>2
<1> HIDE DEF Good
<1>2. SUBSET S \subseteq Good
  BY <1>1, SubsetInduction
<1>3. \E a, b \in S : \A y \in S : a <= y /\ y <= b
  BY <1>2 DEF Good
<1> QED  BY <1>3 DEF Min, Max

--------------------------------------------------------------------------------
(* The recursive function behind a sum *)

\* What the sums of the smaller sets make of a set.
SumStep(f, sums, S) ==
  IF S = {} THEN 0
  ELSE LET x == CHOOSE x \in S : TRUE IN f[x] + sums[S \ {x}]

\* "sums" satisfies the recursive equation on all subsets of U.
SumsOf(f, sums, U) == sums = [S \in SUBSET U |-> SumStep(f, sums, S)]

LEMMA ChosenMember ==
  ASSUME NEW S, S # {}
  PROVE  LET x == CHOOSE x \in S : TRUE
         IN x \in S /\ S \ {x} \in SUBSET S /\ S \ {x} # S
OBVIOUS

\* Two functions that satisfy the equation agree where both do.
LEMMA SumsAgree ==
  ASSUME NEW U, IsFiniteSet(U), NEW V, V \subseteq U, NEW f, NEW a, NEW b,
         SumsOf(f, a, U), SumsOf(f, b, V)
  PROVE  \A S \in SUBSET V : a[S] = b[S]
<1> DEFINE Good == {S \in SUBSET V : a[S] = b[S]}
<1>1. ASSUME NEW S \in SUBSET V, \A T \in SUBSET S : T # S => T \in Good
      PROVE  S \in Good
  <2>1. a[S] = SumStep(f, a, S) /\ b[S] = SumStep(f, b, S)
    BY DEF SumsOf
  <2>2. CASE S = {}
    BY <2>1, <2>2 DEF SumStep
  <2>3. CASE S # {}
    <3> DEFINE x == CHOOSE x \in S : TRUE
    <3>1. x \in S /\ S \ {x} \in SUBSET S /\ S \ {x} # S
      BY <2>3, ChosenMember
    <3> HIDE DEF x
    <3>2. a[S \ {x}] = b[S \ {x}]
      BY <1>1, <3>1
    <3>3. a[S] = f[x] + a[S \ {x}] /\ b[S] = f[x] + b[S \ {x}]
      BY <2>1, <2>3 DEF SumStep, x
    <3> QED  BY <3>2, <3>3
  <2> QED  BY <2>2, <2>3
<1>2. IsFiniteSet(V)
  BY FS_Subset
<1> HIDE DEF Good
<1>3. SUBSET V \subseteq Good
  BY <1>1, <1>2, SubsetInduction
<1> QED  BY <1>3 DEF Good

\* There is such a function for every finite set of rows.
LEMMA SumsExist ==
  ASSUME NEW U, IsFiniteSet(U), NEW f
  PROVE  \E a : SumsOf(f, a, U)
<1> DEFINE Good == {V \in SUBSET U : \E a : SumsOf(f, a, V)}
<1>1. ASSUME NEW V \in SUBSET U, \A T \in SUBSET V : T # V => T \in Good
      PROVE  V \in Good
  <2> DEFINE A(T) == CHOOSE a : SumsOf(f, a, T)
             part == [T \in SUBSET V |-> A(T)[T]]
             whole == [S \in SUBSET V |-> SumStep(f, part, S)]
  <2>1. \A T \in SUBSET V : T # V => SumsOf(f, A(T), T)
    BY <1>1
  <2> HIDE DEF A
  <2>2. ASSUME NEW T \in SUBSET V, T # V PROVE whole[T] = part[T]
    <3>1. part[T] = SumStep(f, A(T), T)
      BY <2>1, <2>2 DEF SumsOf
    <3>2. CASE T = {}
      BY <3>1, <3>2 DEF SumStep
    <3>3. CASE T # {}
      <4> DEFINE y == CHOOSE y \in T : TRUE
      <4>1. y \in T /\ T \ {y} \in SUBSET T /\ T \ {y} # T
        BY <3>3, ChosenMember
      <4> HIDE DEF y
      <4>2. T \ {y} \in SUBSET V /\ T \ {y} # V
        BY <4>1
      <4>3. SumsOf(f, A(T), T) /\ SumsOf(f, A(T \ {y}), T \ {y})
        BY <2>1, <2>2, <4>2
      <4>4. IsFiniteSet(T)
        <5>1. T \in SUBSET U
          OBVIOUS
        <5> QED  BY <5>1, FS_Subset
      <4>5. A(T)[T \ {y}] = A(T \ {y})[T \ {y}]
        <5>1. T \ {y} \subseteq T /\ T \ {y} \in SUBSET (T \ {y})
          OBVIOUS
        <5> QED  BY <4>3, <4>4, <5>1, SumsAgree
      <4>6. part[T] = f[y] + A(T)[T \ {y}]
        BY <3>1, <3>3 DEF SumStep, y
      <4>7. whole[T] = f[y] + part[T \ {y}]
        BY <3>3, <4>1 DEF SumStep, y
      <4>8. part[T \ {y}] = A(T \ {y})[T \ {y}]
        BY <4>2
      <4> QED  BY <4>5, <4>6, <4>7, <4>8
    <3> QED  BY <3>2, <3>3
  <2>3. ASSUME NEW S \in SUBSET V PROVE whole[S] = SumStep(f, whole, S)
    <3>1. CASE S = {}
      BY <3>1 DEF SumStep
    <3>2. CASE S # {}
      <4> DEFINE x == CHOOSE x \in S : TRUE
      <4>1. x \in S /\ S \ {x} \in SUBSET S /\ S \ {x} # S
        BY <3>2, ChosenMember
      <4> HIDE DEF x
      <4>2. S \ {x} \in SUBSET V /\ S \ {x} # V
        BY <4>1
      <4> HIDE DEF part, whole
      <4>3. whole[S \ {x}] = part[S \ {x}]
        BY <2>2, <4>2
      <4>4. whole[S] = f[x] + part[S \ {x}]
        BY <3>2 DEF whole, SumStep, x
      <4>5. SumStep(f, whole, S) = f[x] + whole[S \ {x}]
        BY <3>2 DEF SumStep, x
      <4> QED  BY <4>3, <4>4, <4>5
    <3> QED  BY <3>1, <3>2
  <2>4. SumsOf(f, whole, V)
    <3>1. whole = [S \in SUBSET V |-> whole[S]]
      OBVIOUS
    <3> HIDE DEF whole
    <3> QED  BY <2>3, <3>1 DEF SumsOf
  <2> HIDE DEF whole
  <2> QED  BY <2>4
<1> HIDE DEF Good
<1>2. SUBSET U \subseteq Good
  BY <1>1, SubsetInduction
<1>3. U \in Good
  BY <1>2
<1> QED  BY <1>3 DEF Good

\* So the sum over a set is its value there.
LEMMA SumIsValue ==
  ASSUME NEW U, IsFiniteSet(U), NEW f
  PROVE  \E a : SumsOf(f, a, U) /\ \A S \in SUBSET U : SumOver(f, S) = a[S]
<1> DEFINE A(S) == CHOOSE a : SumsOf(f, a, S)
<1>1. \A S : IsFiniteSet(S) => SumsOf(f, A(S), S)
  BY SumsExist
<1>2. ASSUME NEW S PROVE SumOver(f, S) = A(S)[S]
  BY DEF SumOver, FoldFunctionOnSet, MapThenFoldSet, SumsOf, SumStep
<1> HIDE DEF A
<1>3. ASSUME NEW S \in SUBSET U PROVE A(S)[S] = A(U)[S]
  <2>1. IsFiniteSet(S)
    BY FS_Subset
  <2>2. \A T \in SUBSET S : A(U)[T] = A(S)[T]
    <3>1. S \subseteq U /\ SumsOf(f, A(U), U) /\ SumsOf(f, A(S), S)
      BY <1>1, <2>1
    <3> QED  BY <3>1, SumsAgree
  <2> QED  BY <2>2
<1> QED  BY <1>1, <1>2, <1>3

--------------------------------------------------------------------------------
(* What every sum satisfies *)

LEMMA SumEmpty ==
  ASSUME NEW f
  PROVE  SumOver(f, {}) = 0
<1>1. IsFiniteSet({})
  BY FS_EmptySet
<1>2. PICK a : SumsOf(f, a, {}) /\ \A S \in SUBSET {} : SumOver(f, S) = a[S]
  BY <1>1, SumIsValue
<1>3. a[{}] = SumStep(f, a, {})
  BY <1>2 DEF SumsOf
<1> QED  BY <1>2, <1>3 DEF SumStep

LEMMA SumUnfolds ==
  ASSUME NEW S, IsFiniteSet(S), S # {}, NEW f
  PROVE  \E x \in S : SumOver(f, S) = f[x] + SumOver(f, S \ {x})
<1>1. PICK a : SumsOf(f, a, S) /\ \A T \in SUBSET S : SumOver(f, T) = a[T]
  BY SumIsValue
<1> DEFINE x == CHOOSE x \in S : TRUE
<1>2. x \in S /\ S \ {x} \in SUBSET S
  BY ChosenMember
<1>3. a[S] = f[x] + a[S \ {x}]
  BY <1>1 DEF SumsOf, SumStep
<1> HIDE DEF x
<1>4. SumOver(f, S) = f[x] + SumOver(f, S \ {x})
  BY <1>1, <1>2, <1>3
<1> QED  BY <1>2, <1>4

\* The sum of integers is an integer.
LEMMA SumIsInt ==
  ASSUME NEW U, IsFiniteSet(U), NEW f, \A x \in U : f[x] \in Int
  PROVE  \A S \in SUBSET U : SumOver(f, S) \in Int
<1> DEFINE Good == {S \in SUBSET U : SumOver(f, S) \in Int}
<1>1. ASSUME NEW S \in SUBSET U, \A T \in SUBSET S : T # S => T \in Good
      PROVE  S \in Good
  <2>1. CASE S = {}
    BY <2>1, SumEmpty
  <2>2. CASE S # {}
    <3>1. IsFiniteSet(S)
      BY FS_Subset
    <3>2. PICK x \in S : SumOver(f, S) = f[x] + SumOver(f, S \ {x})
      BY <2>2, <3>1, SumUnfolds
    <3>3. S \ {x} \in Good
      BY <1>1
    <3> QED  BY <3>2, <3>3
  <2> QED  BY <2>1, <2>2
<1> HIDE DEF Good
<1>2. SUBSET U \subseteq Good
  BY <1>1, SubsetInduction
<1> QED  BY <1>2 DEF Good

\* Any member may be taken out first.
LEMMA SumRemove ==
  ASSUME NEW U, IsFiniteSet(U), NEW f, \A x \in U : f[x] \in Int
  PROVE  \A S \in SUBSET U : \A y \in S : SumOver(f, S) = f[y] + SumOver(f, S \ {y})
<1> DEFINE Good == {S \in SUBSET U :
                      \A y \in S : SumOver(f, S) = f[y] + SumOver(f, S \ {y})}
<1>1. ASSUME NEW S \in SUBSET U, \A T \in SUBSET S : T # S => T \in Good
      PROVE  S \in Good
  <2> SUFFICES ASSUME NEW y \in S PROVE SumOver(f, S) = f[y] + SumOver(f, S \ {y})
    OBVIOUS
  <2>1. IsFiniteSet(S)
    BY FS_Subset
  <2>2. PICK x \in S : SumOver(f, S) = f[x] + SumOver(f, S \ {x})
    BY <2>1, SumUnfolds
  <2>3. CASE x # y
    <3>1. S \ {x} \in Good /\ S \ {y} \in Good
      BY <1>1
    <3>2. y \in S \ {x} /\ x \in S \ {y}
      BY <2>3
    <3>3. SumOver(f, S \ {x}) = f[y] + SumOver(f, (S \ {x}) \ {y})
      BY <3>1, <3>2
    <3>4. SumOver(f, S \ {y}) = f[x] + SumOver(f, (S \ {y}) \ {x})
      BY <3>1, <3>2
    <3> DEFINE rest == (S \ {y}) \ {x}
    <3>5. (S \ {x}) \ {y} = rest /\ rest \in SUBSET U
      OBVIOUS
    <3> HIDE DEF Good, rest
    <3>6. f[x] \in Int /\ f[y] \in Int /\ SumOver(f, rest) \in Int
      BY <3>5, SumIsInt
    <3>7. SumOver(f, S \ {x}) = f[y] + SumOver(f, rest)
      BY <3>3, <3>5
    <3>8. SumOver(f, S \ {y}) = f[x] + SumOver(f, rest)
      BY <3>4 DEF rest
    <3>9. SumOver(f, S) = f[x] + (f[y] + SumOver(f, rest))
      BY <2>2, <3>7
    <3> QED  BY <3>6, <3>8, <3>9
  <2> QED  BY <2>2, <2>3
<1> HIDE DEF Good
<1>2. SUBSET U \subseteq Good
  BY <1>1, SubsetInduction
<1> QED  BY <1>2 DEF Good

\* Only the values on the set count.
LEMMA SumSame ==
  ASSUME NEW S, IsFiniteSet(S), NEW f, NEW g,
         \A x \in S : f[x] \in Int /\ f[x] = g[x]
  PROVE  SumOver(f, S) = SumOver(g, S)
<1> DEFINE Good == {T \in SUBSET S : SumOver(f, T) = SumOver(g, T)}
<1>1. ASSUME NEW T \in SUBSET S, \A V \in SUBSET T : V # T => V \in Good
      PROVE  T \in Good
  <2>1. CASE T = {}
    BY <2>1, SumEmpty
  <2>2. CASE T # {}
    <3>1. PICK x \in T : TRUE
      BY <2>2
    <3>2. /\ SumOver(f, T) = f[x] + SumOver(f, T \ {x})
          /\ SumOver(g, T) = g[x] + SumOver(g, T \ {x})
      BY SumRemove
    <3>3. T \ {x} \in Good
      BY <1>1
    <3> QED  BY <3>2, <3>3
  <2> QED  BY <2>1, <2>2
<1> HIDE DEF Good
<1>2. SUBSET S \subseteq Good
  BY <1>1, SubsetInduction
<1> QED  BY <1>2 DEF Good

\* The sum of the sums of two columns.
LEMMA SumPlus ==
  ASSUME NEW S, IsFiniteSet(S), NEW f, NEW g, NEW h,
         \A x \in S : f[x] \in Int /\ g[x] \in Int /\ h[x] = f[x] + g[x]
  PROVE  SumOver(h, S) = SumOver(f, S) + SumOver(g, S)
<1> DEFINE Good == {T \in SUBSET S : SumOver(h, T) = SumOver(f, T) + SumOver(g, T)}
<1>1. ASSUME NEW T \in SUBSET S, \A V \in SUBSET T : V # T => V \in Good
      PROVE  T \in Good
  <2>1. CASE T = {}
    BY <2>1, SumEmpty
  <2>2. CASE T # {}
    <3>1. PICK x \in T : TRUE
      BY <2>2
    <3>2. \A z \in S : h[z] \in Int
      OBVIOUS
    <3>3. /\ SumOver(f, T) = f[x] + SumOver(f, T \ {x})
          /\ SumOver(g, T) = g[x] + SumOver(g, T \ {x})
      BY SumRemove
    <3>4. SumOver(h, T) = h[x] + SumOver(h, T \ {x})
      BY <3>2, SumRemove
    <3>5. T \ {x} \in Good
      BY <1>1
    <3>6. SumOver(f, T \ {x}) \in Int /\ SumOver(g, T \ {x}) \in Int
      BY SumIsInt
    <3> QED  BY <3>3, <3>4, <3>5, <3>6
  <2> QED  BY <2>1, <2>2
<1> HIDE DEF Good
<1>2. SUBSET S \subseteq Good
  BY <1>1, SubsetInduction
<1> QED  BY <1>2 DEF Good

\* A sum grows with its column.
LEMMA SumLess ==
  ASSUME NEW S, IsFiniteSet(S), NEW f, NEW g,
         \A x \in S : f[x] \in Int /\ g[x] \in Int /\ f[x] <= g[x]
  PROVE  SumOver(f, S) <= SumOver(g, S)
<1> DEFINE Good == {T \in SUBSET S : SumOver(f, T) <= SumOver(g, T)}
<1>1. ASSUME NEW T \in SUBSET S, \A V \in SUBSET T : V # T => V \in Good
      PROVE  T \in Good
  <2>1. CASE T = {}
    BY <2>1, SumEmpty
  <2>2. CASE T # {}
    <3>1. PICK x \in T : TRUE
      BY <2>2
    <3>2. /\ SumOver(f, T) = f[x] + SumOver(f, T \ {x})
          /\ SumOver(g, T) = g[x] + SumOver(g, T \ {x})
      BY SumRemove
    <3>3. T \ {x} \in Good
      BY <1>1
    <3>4. SumOver(f, T \ {x}) \in Int /\ SumOver(g, T \ {x}) \in Int
      BY SumIsInt
    <3> QED  BY <3>2, <3>3, <3>4
  <2> QED  BY <2>1, <2>2
<1> HIDE DEF Good
<1>2. SUBSET S \subseteq Good
  BY <1>1, SubsetInduction
<1> QED  BY <1>2 DEF Good

--------------------------------------------------------------------------------
(* Consequences *)

LEMMA SumZero ==
  ASSUME NEW S, IsFiniteSet(S), NEW f, \A x \in S : f[x] = 0
  PROVE  SumOver(f, S) = 0
<1>1. SumOver(f, S) = SumOver(f, S) + SumOver(f, S)
  <2>1. \A x \in S : f[x] \in Int /\ f[x] = f[x] + f[x]
    OBVIOUS
  <2> QED  BY <2>1, SumPlus
<1>2. SumOver(f, S) \in Int
  BY SumIsInt
<1>3. \A n \in Int : n = n + n => n = 0
  OBVIOUS
<1> QED  BY <1>1, <1>2, <1>3

LEMMA SumNotNegative ==
  ASSUME NEW S, IsFiniteSet(S), NEW f, \A x \in S : f[x] \in Nat
  PROVE  SumOver(f, S) \in Nat
<1> DEFINE zero == [x \in S |-> 0]
<1>1. \A x \in S : f[x] \in Int /\ zero[x] \in Int /\ zero[x] <= f[x] /\ zero[x] = 0
  OBVIOUS
<1> HIDE DEF zero
<1>2. SumOver(zero, S) = 0 /\ SumOver(zero, S) <= SumOver(f, S)
  BY <1>1, SumZero, SumLess
<1>3. SumOver(f, S) \in Int
  BY SumIsInt
<1> QED  BY <1>2, <1>3

\* One row changes.
LEMMA SumChange ==
  ASSUME NEW S, IsFiniteSet(S), NEW f, NEW g, NEW y \in S,
         \A x \in S : f[x] \in Int /\ g[x] \in Int,
         \A x \in S \ {y} : g[x] = f[x]
  PROVE  SumOver(g, S) = SumOver(f, S) - f[y] + g[y]
<1>1. IsFiniteSet(S \ {y}) /\ S \ {y} \in SUBSET S
  BY FS_Subset
<1>2. SumOver(f, S \ {y}) = SumOver(g, S \ {y})
  BY <1>1, SumSame
<1>3. SumOver(f, S) = f[y] + SumOver(f, S \ {y})
  BY SumRemove
<1>4. SumOver(g, S) = g[y] + SumOver(g, S \ {y})
  BY SumRemove
<1>5. SumOver(f, S \ {y}) \in Int
  BY <1>1, SumIsInt
<1> QED  BY <1>2, <1>3, <1>4, <1>5

\* A part, and the rest.
LEMMA SumParts ==
  ASSUME NEW U, IsFiniteSet(U), NEW f, \A x \in U : f[x] \in Int,
         NEW A \in SUBSET U, NEW B \in SUBSET U, A \cap B = {}
  PROVE  SumOver(f, A \cup B) = SumOver(f, A) + SumOver(f, B)
<1> DEFINE Good == {C \in SUBSET B : SumOver(f, A \cup C) = SumOver(f, A) + SumOver(f, C)}
<1>1. ASSUME NEW C \in SUBSET B, \A V \in SUBSET C : V # C => V \in Good
      PROVE  C \in Good
  <2>1. CASE C = {}
    <3>1. A \cup C = A /\ SumOver(f, A) \in Int
      BY <2>1, SumIsInt
    <3> QED  BY <2>1, <3>1, SumEmpty
  <2>2. CASE C # {}
    <3>1. PICK x \in C : TRUE
      BY <2>2
    <3>2. A \cup C \in SUBSET U /\ x \in A \cup C /\ (A \cup C) \ {x} = A \cup (C \ {x})
      OBVIOUS
    <3>3. SumOver(f, A \cup C) = f[x] + SumOver(f, A \cup (C \ {x}))
      BY <3>2, SumRemove
    <3>4. SumOver(f, C) = f[x] + SumOver(f, C \ {x})
      BY SumRemove
    <3>5. C \ {x} \in Good
      BY <1>1
    <3>6. f[x] \in Int /\ SumOver(f, A) \in Int /\ SumOver(f, C \ {x}) \in Int
      BY SumIsInt
    <3> QED  BY <3>3, <3>4, <3>5, <3>6
  <2> QED  BY <2>1, <2>2
<1>2. IsFiniteSet(B)
  BY FS_Subset
<1> HIDE DEF Good
<1>3. SUBSET B \subseteq Good
  BY <1>1, <1>2, SubsetInduction
<1> QED  BY <1>3 DEF Good

\* Rows that hold nothing do not count.
LEMMA SumWithoutZeros ==
  ASSUME NEW U, IsFiniteSet(U), NEW f, \A x \in U : f[x] \in Int,
         NEW S \in SUBSET U, \A x \in U \ S : f[x] = 0
  PROVE  SumOver(f, U) = SumOver(f, S)
<1>1. S \cup (U \ S) = U /\ S \cap (U \ S) = {} /\ U \ S \in SUBSET U
  OBVIOUS
<1>2. IsFiniteSet(U \ S)
  BY <1>1, FS_Subset
<1>3. SumOver(f, U \ S) = 0
  BY <1>2, SumZero
<1>4. SumOver(f, S) \in Int
  BY SumIsInt
<1>5. SumOver(f, S \cup (U \ S)) = SumOver(f, S) + SumOver(f, U \ S)
  BY <1>1, SumParts
<1>6. \A n \in Int : n + 0 = n
  OBVIOUS
<1> QED  BY <1>1, <1>3, <1>4, <1>5, <1>6

\* The rows of one key.
Group(U, key, k) == {x \in U : key[x] = k}

\* Adding up by groups: the rows of each key first, then the keys.
LEMMA SumByKey ==
  ASSUME NEW U, IsFiniteSet(U), NEW f, \A x \in U : f[x] \in Int,
         NEW K, IsFiniteSet(K), NEW key, \A x \in U : key[x] \in K,
         NEW g, \A k \in K : g[k] = SumOver(f, Group(U, key, k))
  PROVE  SumOver(f, U) = SumOver(g, K)
<1> DEFINE Keyed(L) == {x \in U : key[x] \in L}
           Good == {L \in SUBSET K : SumOver(f, Keyed(L)) = SumOver(g, L)}
<1>1. \A S \in SUBSET U : SumOver(f, S) \in Int
  BY SumIsInt
<1>2. \A k \in K : g[k] \in Int
  <2> SUFFICES ASSUME NEW k \in K PROVE g[k] \in Int
    OBVIOUS
  <2>1. Group(U, key, k) \in SUBSET U
    BY DEF Group
  <2> QED  BY <1>1, <2>1
<1>3. ASSUME NEW L \in SUBSET K, \A V \in SUBSET L : V # L => V \in Good
      PROVE  L \in Good
  <2>1. CASE L = {}
    <3>1. Keyed(L) = {}
      BY <2>1
    <3> QED  BY <2>1, <3>1, SumEmpty
  <2>2. CASE L # {}
    <3>1. PICK k \in L : TRUE
      BY <2>2
    <3> DEFINE own == Group(U, key, k)
               rest == L \ {k}
    <3>2. /\ Keyed(L) = own \cup Keyed(rest) /\ own \cap Keyed(rest) = {}
          /\ own \in SUBSET U /\ Keyed(rest) \in SUBSET U
      BY DEF Group
    <3>3. rest \in Good
      BY <1>3
    <3>4. SumOver(f, Keyed(rest)) = SumOver(g, rest) /\ g[k] = SumOver(f, own)
      BY <3>3
    <3>5. SumOver(g, L) = g[k] + SumOver(g, rest)
      BY <1>2, SumRemove
    <3> HIDE DEF own, rest, Keyed
    <3>6. SumOver(f, Keyed(L)) = SumOver(f, own) + SumOver(f, Keyed(rest))
      BY <3>2, SumParts
    <3> QED  BY <3>4, <3>5, <3>6
  <2> QED  BY <2>1, <2>2
<1> HIDE DEF Good
<1>4. SUBSET K \subseteq Good
  BY <1>3, SubsetInduction
<1>5. K \in Good
  BY <1>4
<1>6. Keyed(K) = U
  OBVIOUS
<1> QED  BY <1>5, <1>6 DEF Good

\* A part of the rows is all of them with the others set to nothing.
LEMMA SumOfPart ==
  ASSUME NEW U, IsFiniteSet(U), NEW S \in SUBSET U, NEW f, NEW g,
         \A x \in S : f[x] \in Int /\ g[x] = f[x],
         \A x \in U \ S : g[x] = 0
  PROVE  SumOver(f, S) = SumOver(g, U)
<1>1. SumOver(f, S) = SumOver(g, S)
  <2>1. IsFiniteSet(S)
    BY FS_Subset
  <2> QED  BY <2>1, SumSame
<1>2. SumOver(g, U) = SumOver(g, S)
  <2>1. \A x \in U : g[x] \in Int
    OBVIOUS
  <2> QED  BY <2>1, SumWithoutZeros
<1> QED  BY <1>1, <1>2

\* Counting is adding up ones.
LEMMA SumOfOnes ==
  ASSUME NEW S, IsFiniteSet(S), NEW ones, \A x \in S : ones[x] = 1
  PROVE  SumOver(ones, S) = Cardinality(S)
<1> DEFINE Good == {T \in SUBSET S : SumOver(ones, T) = Cardinality(T)}
<1>1. \A x \in S : ones[x] \in Int
  OBVIOUS
<1>2. ASSUME NEW T \in SUBSET S, \A V \in SUBSET T : V # T => V \in Good
      PROVE  T \in Good
  <2>1. IsFiniteSet(T)
    BY FS_Subset
  <2>2. CASE T = {}
    BY <2>2, SumEmpty, FS_EmptySet
  <2>3. CASE T # {}
    <3>1. PICK x \in T : TRUE
      BY <2>3
    <3>2. T \ {x} \in Good
      BY <1>2
    <3>3. SumOver(ones, T) = 1 + SumOver(ones, T \ {x})
      BY <1>1, SumRemove
    <3>4. Cardinality(T \ {x}) = Cardinality(T) - 1 /\ Cardinality(T) \in Nat
      BY <2>1, FS_RemoveElement, FS_CardinalityType
    <3> QED  BY <3>2, <3>3, <3>4
  <2> QED  BY <2>2, <2>3
<1> HIDE DEF Good
<1>3. SUBSET S \subseteq Good
  BY <1>2, SubsetInduction
<1> QED  BY <1>3 DEF Good

\* A multiple of every row makes a multiple of the sum.
LEMMA SumOfMultiples ==
  ASSUME NEW S, IsFiniteSet(S), NEW c \in Int, NEW f, NEW g,
         \A x \in S : f[x] \in Int /\ g[x] = c * f[x]
  PROVE  SumOver(g, S) = c * SumOver(f, S)
<1> DEFINE Good == {T \in SUBSET S : SumOver(g, T) = c * SumOver(f, T)}
<1>1. \A x \in S : f[x] \in Int /\ g[x] \in Int
  OBVIOUS
<1>2. ASSUME NEW T \in SUBSET S, \A V \in SUBSET T : V # T => V \in Good
      PROVE  T \in Good
  <2>1. CASE T = {}
    BY <2>1, SumEmpty
  <2>2. CASE T # {}
    <3>1. PICK x \in T : TRUE
      BY <2>2
    <3>2. T \ {x} \in Good
      BY <1>2
    <3>3. /\ SumOver(f, T) = f[x] + SumOver(f, T \ {x})
          /\ SumOver(g, T) = g[x] + SumOver(g, T \ {x})
      BY <1>1, SumRemove
    <3>4. PICK one, rest : one = f[x] /\ rest = SumOver(f, T \ {x})
      OBVIOUS
    <3>5. one \in Int /\ rest \in Int
      BY <1>1, <3>4, SumIsInt
    <3>6. c * (one + rest) = c * one + c * rest
      BY <3>5
    <3> QED  BY <3>2, <3>3, <3>4, <3>6
  <2> QED  BY <2>1, <2>2
<1> HIDE DEF Good
<1>3. SUBSET S \subseteq Good
  BY <1>2, SubsetInduction
<1> QED  BY <1>3 DEF Good

\* Of a finite ranking, the first k are k.  Ahead is a strict order of S, as the
\* set of its pairs.
Ranks(Ahead, S) ==
  /\ \A i \in S : <<i, i>> \notin Ahead
  /\ \A i, j, k \in S : <<i, j>> \in Ahead /\ <<j, k>> \in Ahead => <<i, k>> \in Ahead
  /\ \A i, j \in S : i # j => <<i, j>> \in Ahead \/ <<j, i>> \in Ahead
AheadOf(Ahead, S, i) == {j \in S : <<j, i>> \in Ahead}
Foremost(Ahead, S, k) == {i \in S : Cardinality(AheadOf(Ahead, S, i)) < k}

LEMMA RankingHasLast ==
  ASSUME NEW Ahead, NEW S, IsFiniteSet(S), Ranks(Ahead, S), S # {}
  PROVE  \E z \in S : \A i \in S : i # z => <<i, z>> \in Ahead
<1> DEFINE Good == {T \in SUBSET S : T = {} \/ \E z \in T : \A i \in T : i # z => <<i, z>> \in Ahead}
<1>1. ASSUME NEW T \in SUBSET S, \A V \in SUBSET T : V # T => V \in Good
      PROVE  T \in Good
  <2>1. ASSUME NEW x \in T PROVE T \in Good
    <3>1. T \ {x} \in Good
      BY <1>1
    <3>2. CASE T \ {x} = {}
      <4>1. \A i \in T : i # x => <<i, x>> \in Ahead
        BY <3>2
      <4> QED  BY <4>1
    <3>3. CASE T \ {x} # {}
      <4>1. PICK z \in T \ {x} : \A i \in T \ {x} : i # z => <<i, z>> \in Ahead
        BY <3>1, <3>3
      <4>2. CASE <<x, z>> \in Ahead
        <5>1. \A i \in T : i # z => <<i, z>> \in Ahead
          BY <4>1, <4>2
        <5> QED  BY <5>1
      <4>3. CASE <<z, x>> \in Ahead
        <5>1. \A i \in T : i # x => <<i, x>> \in Ahead
          BY <4>1, <4>3 DEF Ranks
        <5> QED  BY <5>1
      <4> QED  BY <4>1, <4>2, <4>3 DEF Ranks
    <3> QED  BY <3>2, <3>3
  <2> QED  BY <2>1
<1> HIDE DEF Good
<1>2. SUBSET S \subseteq Good
  BY <1>1, SubsetInduction
<1>3. S \in Good
  BY <1>2
<1> QED  BY <1>3 DEF Good

LEMMA FirstOnes ==
  ASSUME NEW Ahead, NEW S, IsFiniteSet(S), Ranks(Ahead, S), NEW k \in 0..Cardinality(S)
  PROVE  Cardinality(Foremost(Ahead, S, k)) = k
<1> DEFINE Good == {T \in SUBSET S : \A n \in 0..Cardinality(T) :
                                       Cardinality(Foremost(Ahead, T, n)) = n}
<1>1. ASSUME NEW T \in SUBSET S, \A V \in SUBSET T : V # T => V \in Good
      PROVE  T \in Good
  <2>1. IsFiniteSet(T) /\ Cardinality(T) \in Nat
    BY FS_Subset, FS_CardinalityType
  <2>2. CASE T = {}
    <3>1. Cardinality(T) = 0 /\ \A n : Foremost(Ahead, T, n) = {}
      BY <2>2, FS_EmptySet DEF Foremost
    <3> QED  BY <3>1, FS_EmptySet
  <2>3. CASE T # {}
    <3>1. Ranks(Ahead, T)
      BY DEF Ranks
    <3>2. PICK z \in T : \A i \in T : i # z => <<i, z>> \in Ahead
      BY <2>1, <2>3, <3>1, RankingHasLast
    <3>3. PICK V : V = T \ {z}
      OBVIOUS
    <3>4. /\ V \in SUBSET T /\ V # T /\ IsFiniteSet(V) /\ Cardinality(V) \in Nat
          /\ Cardinality(T) = Cardinality(V) + 1
      <4>1. IsFiniteSet(T \ {z}) /\ Cardinality(T \ {z}) = Cardinality(T) - 1
        BY <2>1, <3>2, FS_RemoveElement
      <4>2. Cardinality(T \ {z}) \in Nat
        BY <4>1, FS_CardinalityType
      <4> QED  BY <2>1, <3>2, <3>3, <4>1, <4>2
    <3>5. V \in Good
      BY <1>1, <3>4
    <3>6. \A i \in V : <<z, i>> \notin Ahead
      BY <3>1, <3>2, <3>3 DEF Ranks
    <3>7. /\ \A i \in V : AheadOf(Ahead, T, i) = AheadOf(Ahead, V, i)
          /\ AheadOf(Ahead, T, z) = V
      BY <3>1, <3>2, <3>3, <3>6 DEF AheadOf, Ranks
    <3>8. ASSUME NEW i \in T PROVE Cardinality(AheadOf(Ahead, T, i)) < Cardinality(T)
      <4>1. AheadOf(Ahead, T, i) \in SUBSET (T \ {i})
        BY <3>1 DEF AheadOf, Ranks
      <4>2. IsFiniteSet(T \ {i}) /\ Cardinality(T \ {i}) = Cardinality(T) - 1
        BY <2>1, FS_RemoveElement
      <4>3. Cardinality(AheadOf(Ahead, T, i)) <= Cardinality(T \ {i})
        BY <4>1, <4>2, FS_Subset
      <4>4. Cardinality(AheadOf(Ahead, T, i)) \in Nat
        BY <4>1, <4>2, FS_Subset, FS_CardinalityType
      <4> QED  BY <2>1, <4>2, <4>3, <4>4
    <3>9. ASSUME NEW n \in 0..Cardinality(T)
          PROVE  Cardinality(Foremost(Ahead, T, n)) = n
      <4>1. CASE n = Cardinality(T)
        <5>1. Foremost(Ahead, T, n) = T
          BY <3>8, <4>1 DEF Foremost
        <5> QED  BY <4>1, <5>1
      <4>2. CASE n # Cardinality(T)
        <5>1. n \in 0..Cardinality(V)
          BY <2>1, <3>4, <4>2
        <5>2. Foremost(Ahead, T, n) = Foremost(Ahead, V, n)
          <6>1. z \notin Foremost(Ahead, T, n)
            BY <3>4, <3>7, <5>1 DEF Foremost
          <6> QED  BY <3>3, <3>7, <6>1 DEF Foremost
        <5> QED  BY <3>5, <5>1, <5>2
      <4> QED  BY <4>1, <4>2
    <3> QED  BY <3>9
  <2> QED  BY <2>2, <2>3
<1> HIDE DEF Good
<1>2. SUBSET S \subseteq Good
  BY <1>1, SubsetInduction
<1>3. S \in Good
  BY <1>2
<1> QED  BY <1>3 DEF Good

\* Marking the members of a part counts them.
LEMMA SumOfMarks ==
  ASSUME NEW S, IsFiniteSet(S), NEW P \in SUBSET S, NEW f,
         \A x \in S : f[x] = IF x \in P THEN 1 ELSE 0
  PROVE  SumOver(f, S) = Cardinality(P)
<1>1. \A x \in S : f[x] \in Int
  OBVIOUS
<1>2. \A x \in S \ P : f[x] = 0
  OBVIOUS
<1>3. SumOver(f, S) = SumOver(f, P)
  BY <1>1, <1>2, SumWithoutZeros
<1>4. IsFiniteSet(P) /\ \A x \in P : f[x] = 1
  BY FS_Subset
<1> QED  BY <1>3, <1>4, SumOfOnes

\* The values of finitely many rows are finitely many.
LEMMA ValuesAreFinite ==
  ASSUME NEW S, IsFiniteSet(S), NEW f
  PROVE  IsFiniteSet({f[x] : x \in S})
<1>1. PICK g, T : g = [x \in S |-> f[x]] /\ T = {f[x] : x \in S}
  OBVIOUS
<1>2. g \in Surjection(S, T)
  BY <1>1 DEF Surjection
<1> QED  BY <1>1, <1>2, FS_Surjection

--------------------------------------------------------------------------------
(* Products, built as sums are *)

\* What the products of the smaller sets make of a set.
ProductStep(f, products, S) ==
  IF S = {} THEN 1
  ELSE LET x == CHOOSE x \in S : TRUE IN f[x] * products[S \ {x}]

\* "products" satisfies the recursive equation on all subsets of U.
ProductsOf(f, products, U) == products = [S \in SUBSET U |-> ProductStep(f, products, S)]

\* Two functions that satisfy the equation agree where both do.
LEMMA ProductsAgree ==
  ASSUME NEW U, IsFiniteSet(U), NEW V, V \subseteq U, NEW f, NEW a, NEW b,
         ProductsOf(f, a, U), ProductsOf(f, b, V)
  PROVE  \A S \in SUBSET V : a[S] = b[S]
<1> DEFINE Good == {S \in SUBSET V : a[S] = b[S]}
<1>1. ASSUME NEW S \in SUBSET V, \A T \in SUBSET S : T # S => T \in Good
      PROVE  S \in Good
  <2>1. a[S] = ProductStep(f, a, S) /\ b[S] = ProductStep(f, b, S)
    BY DEF ProductsOf
  <2>2. CASE S = {}
    BY <2>1, <2>2 DEF ProductStep
  <2>3. CASE S # {}
    <3> DEFINE x == CHOOSE x \in S : TRUE
    <3>1. x \in S /\ S \ {x} \in SUBSET S /\ S \ {x} # S
      BY <2>3, ChosenMember
    <3> HIDE DEF x
    <3>2. a[S \ {x}] = b[S \ {x}]
      BY <1>1, <3>1
    <3>3. a[S] = f[x] * a[S \ {x}] /\ b[S] = f[x] * b[S \ {x}]
      BY <2>1, <2>3 DEF ProductStep, x
    <3> QED  BY <3>2, <3>3
  <2> QED  BY <2>2, <2>3
<1>2. IsFiniteSet(V)
  BY FS_Subset
<1> HIDE DEF Good
<1>3. SUBSET V \subseteq Good
  BY <1>1, <1>2, SubsetInduction
<1> QED  BY <1>3 DEF Good

\* There is such a function for every finite set of rows.
LEMMA ProductsExist ==
  ASSUME NEW U, IsFiniteSet(U), NEW f
  PROVE  \E a : ProductsOf(f, a, U)
<1> DEFINE Good == {V \in SUBSET U : \E a : ProductsOf(f, a, V)}
<1>1. ASSUME NEW V \in SUBSET U, \A T \in SUBSET V : T # V => T \in Good
      PROVE  V \in Good
  <2> DEFINE A(T) == CHOOSE a : ProductsOf(f, a, T)
             part == [T \in SUBSET V |-> A(T)[T]]
             whole == [S \in SUBSET V |-> ProductStep(f, part, S)]
  <2>1. \A T \in SUBSET V : T # V => ProductsOf(f, A(T), T)
    BY <1>1
  <2> HIDE DEF A
  <2>2. ASSUME NEW T \in SUBSET V, T # V PROVE whole[T] = part[T]
    <3>1. part[T] = ProductStep(f, A(T), T)
      BY <2>1, <2>2 DEF ProductsOf
    <3>2. CASE T = {}
      BY <3>1, <3>2 DEF ProductStep
    <3>3. CASE T # {}
      <4> DEFINE y == CHOOSE y \in T : TRUE
      <4>1. y \in T /\ T \ {y} \in SUBSET T /\ T \ {y} # T
        BY <3>3, ChosenMember
      <4> HIDE DEF y
      <4>2. T \ {y} \in SUBSET V /\ T \ {y} # V
        BY <4>1
      <4>3. ProductsOf(f, A(T), T) /\ ProductsOf(f, A(T \ {y}), T \ {y})
        BY <2>1, <2>2, <4>2
      <4>4. IsFiniteSet(T)
        <5>1. T \in SUBSET U
          OBVIOUS
        <5> QED  BY <5>1, FS_Subset
      <4>5. A(T)[T \ {y}] = A(T \ {y})[T \ {y}]
        <5>1. T \ {y} \subseteq T /\ T \ {y} \in SUBSET (T \ {y})
          OBVIOUS
        <5> QED  BY <4>3, <4>4, <5>1, ProductsAgree
      <4>6. part[T] = f[y] * A(T)[T \ {y}]
        BY <3>1, <3>3 DEF ProductStep, y
      <4>7. whole[T] = f[y] * part[T \ {y}]
        BY <3>3, <4>1 DEF ProductStep, y
      <4>8. part[T \ {y}] = A(T \ {y})[T \ {y}]
        BY <4>2
      <4> QED  BY <4>5, <4>6, <4>7, <4>8
    <3> QED  BY <3>2, <3>3
  <2>3. ASSUME NEW S \in SUBSET V PROVE whole[S] = ProductStep(f, whole, S)
    <3>1. CASE S = {}
      BY <3>1 DEF ProductStep
    <3>2. CASE S # {}
      <4> DEFINE x == CHOOSE x \in S : TRUE
      <4>1. x \in S /\ S \ {x} \in SUBSET S /\ S \ {x} # S
        BY <3>2, ChosenMember
      <4> HIDE DEF x
      <4>2. S \ {x} \in SUBSET V /\ S \ {x} # V
        BY <4>1
      <4> HIDE DEF part, whole
      <4>3. whole[S \ {x}] = part[S \ {x}]
        BY <2>2, <4>2
      <4>4. whole[S] = f[x] * part[S \ {x}]
        BY <3>2 DEF whole, ProductStep, x
      <4>5. ProductStep(f, whole, S) = f[x] * whole[S \ {x}]
        BY <3>2 DEF ProductStep, x
      <4> QED  BY <4>3, <4>4, <4>5
    <3> QED  BY <3>1, <3>2
  <2>4. ProductsOf(f, whole, V)
    <3>1. whole = [S \in SUBSET V |-> whole[S]]
      OBVIOUS
    <3> HIDE DEF whole
    <3> QED  BY <2>3, <3>1 DEF ProductsOf
  <2> HIDE DEF whole
  <2> QED  BY <2>4
<1> HIDE DEF Good
<1>2. SUBSET U \subseteq Good
  BY <1>1, SubsetInduction
<1>3. U \in Good
  BY <1>2
<1> QED  BY <1>3 DEF Good

\* So the product over a set is its value there.
LEMMA ProductIsValue ==
  ASSUME NEW U, IsFiniteSet(U), NEW f
  PROVE  \E a : ProductsOf(f, a, U) /\ \A S \in SUBSET U : ProductOver(f, S) = a[S]
<1> DEFINE A(S) == CHOOSE a : ProductsOf(f, a, S)
<1>1. \A S : IsFiniteSet(S) => ProductsOf(f, A(S), S)
  BY ProductsExist
<1>2. ASSUME NEW S PROVE ProductOver(f, S) = A(S)[S]
  BY DEF ProductOver, FoldFunctionOnSet, MapThenFoldSet, ProductsOf, ProductStep
<1> HIDE DEF A
<1>3. ASSUME NEW S \in SUBSET U PROVE A(S)[S] = A(U)[S]
  <2>1. IsFiniteSet(S)
    BY FS_Subset
  <2>2. \A T \in SUBSET S : A(U)[T] = A(S)[T]
    <3>1. S \subseteq U /\ ProductsOf(f, A(U), U) /\ ProductsOf(f, A(S), S)
      BY <1>1, <2>1
    <3> QED  BY <3>1, ProductsAgree
  <2> QED  BY <2>2
<1> QED  BY <1>1, <1>2, <1>3

LEMMA ProductEmpty ==
  ASSUME NEW f
  PROVE  ProductOver(f, {}) = 1
<1>1. IsFiniteSet({})
  BY FS_EmptySet
<1>2. PICK a : ProductsOf(f, a, {}) /\ \A S \in SUBSET {} : ProductOver(f, S) = a[S]
  BY <1>1, ProductIsValue
<1>3. a[{}] = ProductStep(f, a, {})
  BY <1>2 DEF ProductsOf
<1> QED  BY <1>2, <1>3 DEF ProductStep

LEMMA ProductUnfolds ==
  ASSUME NEW S, IsFiniteSet(S), S # {}, NEW f
  PROVE  \E x \in S : ProductOver(f, S) = f[x] * ProductOver(f, S \ {x})
<1>1. PICK a : ProductsOf(f, a, S) /\ \A T \in SUBSET S : ProductOver(f, T) = a[T]
  BY ProductIsValue
<1> DEFINE x == CHOOSE x \in S : TRUE
<1>2. x \in S /\ S \ {x} \in SUBSET S
  BY ChosenMember
<1>3. a[S] = f[x] * a[S \ {x}]
  BY <1>1 DEF ProductsOf, ProductStep
<1> HIDE DEF x
<1>4. ProductOver(f, S) = f[x] * ProductOver(f, S \ {x})
  BY <1>1, <1>2, <1>3
<1> QED  BY <1>2, <1>4

\* The product of integers is an integer.
LEMMA ProductIsInt ==
  ASSUME NEW U, IsFiniteSet(U), NEW f, \A x \in U : f[x] \in Int
  PROVE  \A S \in SUBSET U : ProductOver(f, S) \in Int
<1> DEFINE Good == {S \in SUBSET U : ProductOver(f, S) \in Int}
<1>1. ASSUME NEW S \in SUBSET U, \A T \in SUBSET S : T # S => T \in Good
      PROVE  S \in Good
  <2>1. CASE S = {}
    BY <2>1, ProductEmpty
  <2>2. CASE S # {}
    <3>1. IsFiniteSet(S)
      BY FS_Subset
    <3>2. PICK x \in S : ProductOver(f, S) = f[x] * ProductOver(f, S \ {x})
      BY <2>2, <3>1, ProductUnfolds
    <3>3. S \ {x} \in Good
      BY <1>1
    <3> QED  BY <3>2, <3>3
  <2> QED  BY <2>1, <2>2
<1> HIDE DEF Good
<1>2. SUBSET U \subseteq Good
  BY <1>1, SubsetInduction
<1> QED  BY <1>2 DEF Good

\* A product of positive factors is positive.
LEMMA ProductIsPositive ==
  ASSUME NEW U, IsFiniteSet(U), NEW f, \A x \in U : f[x] \in Nat \ {0}
  PROVE  ProductOver(f, U) \in Nat \ {0}
<1> DEFINE Good == {S \in SUBSET U : ProductOver(f, S) \in Nat \ {0}}
<1>1. ASSUME NEW S \in SUBSET U, \A T \in SUBSET S : T # S => T \in Good
      PROVE  S \in Good
  <2>1. CASE S = {}
    BY <2>1, ProductEmpty
  <2>2. CASE S # {}
    <3>1. IsFiniteSet(S)
      BY FS_Subset
    <3>2. PICK x \in S : ProductOver(f, S) = f[x] * ProductOver(f, S \ {x})
      BY <2>2, <3>1, ProductUnfolds
    <3>3. S \ {x} \in Good
      BY <1>1
    <3>4. PICK p, q : p = f[x] /\ q = ProductOver(f, S \ {x})
      OBVIOUS
    <3>5. p \in Nat \ {0} /\ q \in Nat \ {0}
      BY <3>3, <3>4
    <3>6. p * q \in Nat \ {0}
      BY <3>5
    <3> QED  BY <3>2, <3>4, <3>6
  <2> QED  BY <2>1, <2>2
<1> HIDE DEF Good
<1>2. SUBSET U \subseteq Good
  BY <1>1, SubsetInduction
<1>3. U \in Good
  BY <1>2
<1> QED  BY <1>3 DEF Good

--------------------------------------------------------------------------------
(* Whole division *)

\* What dividing by a positive number leaves.
LEMMA DivisionWithRest ==
  ASSUME NEW n \in Int, NEW d \in Nat \ {0}
  PROVE  /\ n \div d \in Int /\ n % d \in 0..d - 1
         /\ n = d * (n \div d) + (n % d)
         /\ n \in Nat => n \div d \in Nat
OBVIOUS

\* There is one quotient and one rest.
LEMMA QuotientIs ==
  ASSUME NEW n \in Int, NEW d \in Nat \ {0}, NEW q \in Int, NEW r \in 0..d - 1, n = d * q + r
  PROVE  n \div d = q /\ n % d = r
OBVIOUS
================================================================================
