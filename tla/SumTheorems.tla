---------------------------- MODULE SumTheorems ----------------------------
(***************************************************************************)
(* Induction over natural numbers and over finite sets, and what it gives  *)
(* for the sums of the community module Functions: the sum over no         *)
(* element, with one more, over a union, and its type.                     *)
(*                                                                         *)
(* A statement to be shown by induction is given as the set of the values  *)
(* it is true of, so that the theorems have no operator as a parameter.    *)
(***************************************************************************)
EXTENDS Integers, Functions, FiniteSetTheorems, WellFoundedInduction, TLAPS

-----------------------------------------------------------------------------
NatLess == {ss \in Nat \X Nat : ss[1] < ss[2]}

\* The natural numbers have no infinite descent.
LEMMA LessIsWellFounded == IsWellFoundedOn(NatLess, Nat)
  BY NatLessThanWellFounded DEF OpToRel, NatLess

\* A set of natural numbers that has an element has a smallest one.
LEMMA Smallest ==
  ASSUME NEW T \in SUBSET Nat, T # {}
  PROVE  \E x \in T : \A y \in T : x <= y
  <1>1. \E x \in T : \A y \in T : ~ (<<y, x>> \in NatLess)
    BY LessIsWellFounded, WFMin
  <1>2. PICK x \in T : \A y \in T : ~ (<<y, x>> \in NatLess)
    BY <1>1
  <1>3. \A a, b \in Nat : a < b => <<a, b>> \in NatLess
    BY DEF NatLess
  <1>4. \A y \in T : ~(y < x)
    BY <1>2, <1>3
  <1> QED
    BY <1>2, <1>4

\* What holds of 0, and of n + 1 when it holds of n, holds of every natural number.
THEOREM NaturalInduction ==
  ASSUME NEW Good, 0 \in Good, \A n \in Nat : n \in Good => n + 1 \in Good
  PROVE  Nat \subseteq Good
  <1> DEFINE Bad == Nat \ Good
  <1>1. SUFFICES ASSUME Bad # {} PROVE FALSE
    OBVIOUS
  <1>2. PICK x \in Bad : \A y \in Bad : x <= y
    BY <1>1, Smallest
  <1>3. x # 0
    BY <1>2
  <1>4. x - 1 \in Nat
    BY <1>3
  <1>5. x - 1 \in Good
    BY <1>2, <1>4
  <1> QED
    BY <1>2, <1>4, <1>5

\* What is true of the empty set, and of a finite set when it is true of the set
\* without any of its elements, is true of the finite set.
THEOREM FiniteInduction ==
  ASSUME NEW S, IsFiniteSet(S), NEW Good, {} \in Good,
         \A T \in SUBSET S : T # {} /\ (\A x \in T : T \ {x} \in Good) => T \in Good
  PROVE  S \in Good
  <1> DEFINE Bad == {T \in SUBSET S : T \notin Good}
             Smaller == StrictSubsetOrdering(S)
  <1>1. SUFFICES ASSUME S \notin Good PROVE FALSE
    OBVIOUS
  <1>2. Bad \subseteq FiniteSubsetsOf(S) /\ Bad # {}
    BY <1>1, FS_FiniteSubsetsOfFinite
  <1>3. IsWellFoundedOn(Smaller, FiniteSubsetsOf(S))
    BY FS_StrictSubsetOrderingWellFounded
  <1> HIDE DEF Smaller
  <1>4. \E T \in Bad : \A U \in Bad : ~ (<<U, T>> \in Smaller)
    BY <1>2, <1>3, WFMin, ZenonT(60)
  <1>5. PICK T \in Bad : \A U \in Bad : ~ (<<U, T>> \in Smaller)
    BY <1>4
  <1>6. \A U \in SUBSET S : U \subseteq T /\ U # T => <<U, T>> \in Smaller
    BY DEF Smaller, StrictSubsetOrdering
  <1>7. ASSUME NEW x \in T PROVE T \ {x} \in Good
    <2>1. T \ {x} \in SUBSET S /\ T \ {x} \subseteq T /\ T \ {x} # T
      BY <1>5
    <2>2. T \ {x} \notin Bad
      BY <1>5, <1>6, <2>1
    <2> QED
      BY <2>1, <2>2
  <1> QED
    BY <1>5, <1>7

-----------------------------------------------------------------------------
\* The element a sum takes next.
AnyOf(s) == CHOOSE x \in s : TRUE

\* The sums of the subsets of a set.
IsSums(g, f, S) ==
  g = [s \in SUBSET S |-> IF s = {} THEN 0 ELSE f[AnyOf(s)] + g[s \ {AnyOf(s)}]]

\* What the fold of the library is.
LEMMA SumDefinition ==
  ASSUME NEW f, NEW S
  PROVE  SumFunctionOnSet(f, S) = (CHOOSE g : IsSums(g, f, S))[S]
  BY Zenon DEF SumFunctionOnSet, FoldFunctionOnSet, MapThenFoldSet, IsSums, AnyOf

\* The element taken is one of the set.
LEMMA AnyElement == ASSUME NEW S, S # {} PROVE AnyOf(S) \in S
  BY DEF AnyOf

\* The sums, by the element taken last.
LEMMA SumsUnfold ==
  ASSUME NEW g, NEW f, NEW S, IsSums(g, f, S)
  PROVE  /\ g[{}] = 0
         /\ \A s \in SUBSET S : s # {} => g[s] = f[AnyOf(s)] + g[s \ {AnyOf(s)}]
  BY DEF IsSums

\* The sums of the subsets exist.
LEMMA SumsExist ==
  ASSUME NEW f, NEW S, IsFiniteSet(S)
  PROVE  \E g : IsSums(g, f, S)
  <1> DEFINE upto(n) == {s \in SUBSET S : Cardinality(s) <= n}
             step(g, s) == IF s = {} THEN 0 ELSE f[AnyOf(s)] + g[s \ {AnyOf(s)}]
             sums(n) == \E g : g = [s \in upto(n) |-> step(g, s)]
  <1>1. \A s \in SUBSET S :
         IsFiniteSet(s) /\ Cardinality(s) \in Nat /\ Cardinality(s) <= Cardinality(S)
    BY FS_Subset, FS_CardinalityType
  <1>2. \A s \in SUBSET S : s # {} =>
         s \ {AnyOf(s)} \in SUBSET S /\ Cardinality(s \ {AnyOf(s)}) = Cardinality(s) - 1
    BY <1>1, AnyElement, FS_RemoveElement
  <1> HIDE DEF step
  <1>3. sums(0)
    <2> DEFINE g == [s \in upto(0) |-> 0]
    <2>1. \A s \in upto(0) : s = {}
      BY <1>1, FS_EmptySet
    <2>2. \A s \in upto(0) : step(g, s) = 0
      BY <2>1 DEF step
    <2> HIDE DEF upto
    <2> QED
      BY <2>2
  <1>4. ASSUME NEW n \in Nat, sums(n) PROVE sums(n + 1)
    <2>1. PICK g : g = [s \in upto(n) |-> step(g, s)]
      BY <1>4
    <2> DEFINE h == [s \in upto(n + 1) |-> IF s \in upto(n) THEN g[s] ELSE step(g, s)]
    <2>2. \A s \in upto(n + 1) : s # {} => s \ {AnyOf(s)} \in upto(n)
      BY <1>1, <1>2
    <2>3. \A s \in upto(n) : s \in upto(n + 1)
      BY <1>1
    <2> HIDE DEF upto
    <2>4. \A s \in upto(n) : h[s] = g[s]
      BY <2>3
    <2>5. \A s \in upto(n + 1) : step(h, s) = step(g, s)
      BY <2>2, <2>4 DEF step
    <2>6. \A s \in upto(n + 1) : h[s] = step(g, s)
      <3>1. \A s \in upto(n) : g[s] = step(g, s)
        BY <2>1
      <3> QED
        BY <3>1
    <2>7. h = [s \in upto(n + 1) |-> h[s]]
      OBVIOUS
    <2> HIDE DEF h
    <2>8. h = [s \in upto(n + 1) |-> step(h, s)]
      BY <2>5, <2>6, <2>7
    <2> QED
      BY <2>8
  <1>5. \A n \in Nat : sums(n)
    <2> DEFINE Good == {n \in Nat : sums(n)}
    <2> HIDE DEF sums
    <2>1. 0 \in Good /\ \A n \in Nat : n \in Good => n + 1 \in Good
      BY <1>3, <1>4
    <2> HIDE DEF Good
    <2>2. Nat \subseteq Good
      BY <2>1, NaturalInduction
    <2> QED
      BY <2>2 DEF Good
  <1>6. upto(Cardinality(S)) = SUBSET S /\ Cardinality(S) \in Nat
    BY <1>1
  <1> HIDE DEF upto
  <1>7. PICK g : g = [s \in SUBSET S |-> step(g, s)]
    BY <1>5, <1>6
  <1> QED
    BY <1>7 DEF step, IsSums

\* They are the same whatever set the subsets are those of.
LEMMA SumsAgree ==
  ASSUME NEW f, NEW S, IsFiniteSet(S), NEW T, T \subseteq S,
         NEW g, IsSums(g, f, S), NEW h, IsSums(h, f, T)
  PROVE  g[T] = h[T]
  <1> DEFINE Good == {U \in SUBSET T : g[U] = h[U]}
  <1>1. IsFiniteSet(T)
    BY FS_Subset
  <1>2. {} \in Good
    BY SumsUnfold
  <1>3. ASSUME NEW U \in SUBSET T, U # {}, \A x \in U : U \ {x} \in Good
        PROVE  U \in Good
    <2>1. g[U \ {AnyOf(U)}] = h[U \ {AnyOf(U)}]
      BY <1>3, AnyElement
    <2>2. U \in SUBSET S /\ U \in SUBSET T
      OBVIOUS
    <2>3. g[U] = f[AnyOf(U)] + g[U \ {AnyOf(U)}]
      BY <1>3, <2>2, SumsUnfold
    <2>4. h[U] = f[AnyOf(U)] + h[U \ {AnyOf(U)}]
      BY <1>3, <2>2, SumsUnfold
    <2> QED
      BY <2>1, <2>3, <2>4
  <1>4. \A U \in SUBSET T : U # {} /\ (\A x \in U : U \ {x} \in Good) => U \in Good
    BY <1>3
  <1> HIDE DEF Good
  <1>5. T \in Good
    BY <1>1, <1>2, <1>4, FiniteInduction
  <1> QED
    BY <1>5 DEF Good

\* A sum over a part is the one the sums of the whole name.
LEMMA SumIs ==
  ASSUME NEW f, NEW S, IsFiniteSet(S)
  PROVE  \E g : IsSums(g, f, S) /\ \A T \in SUBSET S : SumFunctionOnSet(f, T) = g[T]
  <1>1. PICK g : IsSums(g, f, S)
    BY SumsExist
  <1>2. ASSUME NEW T \in SUBSET S PROVE SumFunctionOnSet(f, T) = g[T]
    <2> DEFINE h == CHOOSE h : IsSums(h, f, T)
    <2>1. IsFiniteSet(T)
      BY FS_Subset
    <2>2. \E k : IsSums(k, f, T)
      BY <2>1, SumsExist
    <2>3. IsSums(h, f, T)
      BY <2>2
    <2>4. SumFunctionOnSet(f, T) = h[T]
      BY SumDefinition
    <2> HIDE DEF h
    <2> QED
      BY <1>1, <2>3, <2>4, SumsAgree
  <1> QED
    BY <1>1, <1>2

\* The sum over no element.
THEOREM SumOfNone == ASSUME NEW f PROVE SumFunctionOnSet(f, {}) = 0
  <1>1. PICK g : IsSums(g, f, {}) /\ \A T \in SUBSET {} : SumFunctionOnSet(f, T) = g[T]
    BY FS_EmptySet, SumIs
  <1> QED
    BY <1>1, SumsUnfold

\* The sum over a set with elements, by the element taken last.
THEOREM SumUnfold ==
  ASSUME NEW f, NEW S, IsFiniteSet(S), S # {}
  PROVE  /\ AnyOf(S) \in S
         /\ SumFunctionOnSet(f, S) = f[AnyOf(S)] + SumFunctionOnSet(f, S \ {AnyOf(S)})
  <1>1. PICK g : IsSums(g, f, S) /\ \A T \in SUBSET S : SumFunctionOnSet(f, T) = g[T]
    BY SumIs
  <1>2. S \ {AnyOf(S)} \in SUBSET S /\ S \in SUBSET S
    OBVIOUS
  <1>3. g[S] = f[AnyOf(S)] + g[S \ {AnyOf(S)}]
    <2>1. \A s \in SUBSET S : s # {} => g[s] = f[AnyOf(s)] + g[s \ {AnyOf(s)}]
      BY <1>1, SumsUnfold, ZenonT(60)
    <2> QED
      BY <1>2, <2>1
  <1> QED
    BY <1>1, <1>2, <1>3, AnyElement

\* A sum of integers is one.
THEOREM SumType ==
  ASSUME NEW f, NEW S, IsFiniteSet(S), \A x \in S : f[x] \in Int
  PROVE  SumFunctionOnSet(f, S) \in Int
  <1> DEFINE Good == {T \in SUBSET S : SumFunctionOnSet(f, T) \in Int}
  <1>1. {} \in Good
    BY SumOfNone
  <1>2. ASSUME NEW T \in SUBSET S, T # {}, \A x \in T : T \ {x} \in Good PROVE T \in Good
    <2>1. IsFiniteSet(T)
      BY FS_Subset
    <2>2. /\ AnyOf(T) \in T
          /\ SumFunctionOnSet(f, T) = f[AnyOf(T)] + SumFunctionOnSet(f, T \ {AnyOf(T)})
      BY <1>2, <2>1, SumUnfold
    <2>3. SumFunctionOnSet(f, T \ {AnyOf(T)}) \in Int
      BY <1>2, <2>2
    <2> QED
      BY <2>2, <2>3
  <1>3. \A T \in SUBSET S : T # {} /\ (\A x \in T : T \ {x} \in Good) => T \in Good
    BY <1>2
  <1> HIDE DEF Good
  <1>4. S \in Good
    BY <1>1, <1>3, FiniteInduction
  <1> QED
    BY <1>4 DEF Good

\* A sum of natural numbers is one.
THEOREM SumOfNaturals ==
  ASSUME NEW f, NEW S, IsFiniteSet(S), \A x \in S : f[x] \in Nat
  PROVE  SumFunctionOnSet(f, S) \in Nat
  <1> DEFINE Good == {T \in SUBSET S : SumFunctionOnSet(f, T) \in Nat}
  <1>1. {} \in Good
    BY SumOfNone
  <1>2. ASSUME NEW T \in SUBSET S, T # {}, \A x \in T : T \ {x} \in Good PROVE T \in Good
    <2>1. IsFiniteSet(T)
      BY FS_Subset
    <2>2. /\ AnyOf(T) \in T
          /\ SumFunctionOnSet(f, T) = f[AnyOf(T)] + SumFunctionOnSet(f, T \ {AnyOf(T)})
      BY <1>2, <2>1, SumUnfold
    <2>3. SumFunctionOnSet(f, T \ {AnyOf(T)}) \in Nat
      BY <1>2, <2>2
    <2> QED
      BY <2>2, <2>3
  <1>3. \A T \in SUBSET S : T # {} /\ (\A x \in T : T \ {x} \in Good) => T \in Good
    BY <1>2
  <1> HIDE DEF Good
  <1>4. S \in Good
    BY <1>1, <1>3, FiniteInduction
  <1> QED
    BY <1>4 DEF Good

\* Any element may be added last.
THEOREM SumRemove ==
  ASSUME NEW f, NEW S, IsFiniteSet(S), \A x \in S : f[x] \in Int, NEW x \in S
  PROVE  SumFunctionOnSet(f, S) = f[x] + SumFunctionOnSet(f, S \ {x})
  <1> DEFINE Good == {T \in SUBSET S : \A y \in T :
                        SumFunctionOnSet(f, T) = f[y] + SumFunctionOnSet(f, T \ {y})}
  <1>1. {} \in Good
    OBVIOUS
  <1>2. ASSUME NEW T \in SUBSET S, T # {}, \A z \in T : T \ {z} \in Good PROVE T \in Good
    <2>1. \A U \in SUBSET T : IsFiniteSet(U)
      BY FS_Subset
    <2>2. \A U \in SUBSET T : SumFunctionOnSet(f, U) \in Int
      BY <2>1, SumType
    <2> DEFINE a == AnyOf(T)
    <2>3. a \in T /\ SumFunctionOnSet(f, T) = f[a] + SumFunctionOnSet(f, T \ {a})
      BY <1>2, <2>1, SumUnfold
    <2> HIDE DEF a
    <2>4. ASSUME NEW y \in T, y # a
          PROVE  SumFunctionOnSet(f, T) = f[y] + SumFunctionOnSet(f, T \ {y})
      <3>1. y \in T \ {a} /\ a \in T \ {y}
        BY <2>3, <2>4
      <3>2. SumFunctionOnSet(f, T \ {a}) = f[y] + SumFunctionOnSet(f, (T \ {a}) \ {y})
        BY <1>2, <2>3, <3>1
      <3>3. SumFunctionOnSet(f, T \ {y}) = f[a] + SumFunctionOnSet(f, (T \ {y}) \ {a})
        BY <1>2, <2>4, <3>1
      <3>4. (T \ {a}) \ {y} = (T \ {y}) \ {a} /\ (T \ {a}) \ {y} \in SUBSET T
        OBVIOUS
      <3>5. SumFunctionOnSet(f, (T \ {a}) \ {y}) \in Int /\ f[a] \in Int /\ f[y] \in Int
        BY <2>2, <2>3, <2>4, <3>4
      <3> DEFINE rest == SumFunctionOnSet(f, (T \ {a}) \ {y})
      <3>6. SumFunctionOnSet(f, T \ {y}) = f[a] + rest
        BY <3>3, <3>4
      <3>7. SumFunctionOnSet(f, T) = f[a] + (f[y] + rest)
        BY <2>3, <3>2
      <3>8. rest \in Int
        BY <3>5
      <3> HIDE DEF rest
      <3> QED
        BY <3>5, <3>6, <3>7, <3>8
    <2> QED
      BY <2>3, <2>4
  <1>3. \A T \in SUBSET S : T # {} /\ (\A y \in T : T \ {y} \in Good) => T \in Good
    BY <1>2
  <1> HIDE DEF Good
  <1>4. S \in Good
    BY <1>1, <1>3, FiniteInduction
  <1> QED
    BY <1>4 DEF Good

\* The sum with one more element.
THEOREM SumAdd ==
  ASSUME NEW f, NEW S, IsFiniteSet(S), NEW x, x \notin S, \A y \in S \cup {x} : f[y] \in Int
  PROVE  SumFunctionOnSet(f, S \cup {x}) = SumFunctionOnSet(f, S) + f[x]
  <1>1. IsFiniteSet(S \cup {x})
    BY FS_AddElement
  <1>2. (S \cup {x}) \ {x} = S
    OBVIOUS
  <1>3. SumFunctionOnSet(f, S) \in Int
    BY SumType
  <1> QED
    BY <1>1, <1>2, <1>3, SumRemove

\* Only the values over the set count.
THEOREM SumCongruence ==
  ASSUME NEW f, NEW h, NEW S, IsFiniteSet(S), \A x \in S : f[x] = h[x]
  PROVE  SumFunctionOnSet(f, S) = SumFunctionOnSet(h, S)
  <1> DEFINE Good == {T \in SUBSET S : SumFunctionOnSet(f, T) = SumFunctionOnSet(h, T)}
  <1>1. {} \in Good
    BY SumOfNone
  <1>2. ASSUME NEW T \in SUBSET S, T # {}, \A x \in T : T \ {x} \in Good PROVE T \in Good
    <2>1. IsFiniteSet(T)
      BY FS_Subset
    <2>2. /\ AnyOf(T) \in T
          /\ SumFunctionOnSet(f, T) = f[AnyOf(T)] + SumFunctionOnSet(f, T \ {AnyOf(T)})
      BY <1>2, <2>1, SumUnfold
    <2>3. SumFunctionOnSet(h, T) = h[AnyOf(T)] + SumFunctionOnSet(h, T \ {AnyOf(T)})
      BY <1>2, <2>1, SumUnfold
    <2>4. SumFunctionOnSet(f, T \ {AnyOf(T)}) = SumFunctionOnSet(h, T \ {AnyOf(T)})
      BY <1>2, <2>2
    <2> QED
      BY <2>2, <2>3, <2>4
  <1>3. \A T \in SUBSET S : T # {} /\ (\A x \in T : T \ {x} \in Good) => T \in Good
    BY <1>2
  <1> HIDE DEF Good
  <1>4. S \in Good
    BY <1>1, <1>3, FiniteInduction
  <1> QED
    BY <1>4 DEF Good

\* The sum over two sets without a common element.
THEOREM SumUnion ==
  ASSUME NEW f, NEW S, IsFiniteSet(S), NEW R, IsFiniteSet(R), S \cap R = {},
         \A x \in S \cup R : f[x] \in Int
  PROVE  SumFunctionOnSet(f, S \cup R) = SumFunctionOnSet(f, S) + SumFunctionOnSet(f, R)
  <1> DEFINE Good == {T \in SUBSET S :
                        SumFunctionOnSet(f, T \cup R) = SumFunctionOnSet(f, T) + SumFunctionOnSet(f, R)}
  <1>1. {} \in Good
    <2>1. SumFunctionOnSet(f, R) \in Int
      BY SumType
    <2>2. {} \cup R = R
      OBVIOUS
    <2> QED
      BY <2>1, <2>2, SumOfNone
  <1>2. ASSUME NEW T \in SUBSET S, T # {}, \A x \in T : T \ {x} \in Good PROVE T \in Good
    <2> PICK x \in T : TRUE
      BY <1>2
    <2>1. IsFiniteSet(T) /\ IsFiniteSet(T \ {x})
      BY FS_Subset
    <2>2. IsFiniteSet((T \ {x}) \cup R)
      BY <2>1, FS_Union
    <2>3. /\ T \cup R = ((T \ {x}) \cup R) \cup {x}
          /\ T = (T \ {x}) \cup {x} /\ x \notin (T \ {x}) \cup R
      OBVIOUS
    <2>4. SumFunctionOnSet(f, T \cup R) = SumFunctionOnSet(f, (T \ {x}) \cup R) + f[x]
      <3>1. \A y \in ((T \ {x}) \cup R) \cup {x} : f[y] \in Int
        OBVIOUS
      <3> QED
        BY <2>2, <2>3, <3>1, SumAdd
    <2>5. SumFunctionOnSet(f, T) = SumFunctionOnSet(f, T \ {x}) + f[x]
      <3>1. \A y \in (T \ {x}) \cup {x} : f[y] \in Int
        OBVIOUS
      <3>2. x \notin T \ {x}
        OBVIOUS
      <3> QED
        BY <2>1, <2>3, <3>1, <3>2, SumAdd
    <2>6. SumFunctionOnSet(f, (T \ {x}) \cup R) = SumFunctionOnSet(f, T \ {x}) + SumFunctionOnSet(f, R)
      BY <1>2
    <2>7. f[x] \in Int /\ SumFunctionOnSet(f, T \ {x}) \in Int /\ SumFunctionOnSet(f, R) \in Int
      BY <2>1, SumType
    <2> QED
      BY <2>4, <2>5, <2>6, <2>7
  <1>3. \A T \in SUBSET S : T # {} /\ (\A x \in T : T \ {x} \in Good) => T \in Good
    BY <1>2
  <1> HIDE DEF Good
  <1>4. S \in Good
    BY <1>1, <1>3, FiniteInduction
  <1> QED
    BY <1>4 DEF Good

\* What adds nothing can be left out.
THEOREM SumOfZeros ==
  ASSUME NEW f, NEW S, IsFiniteSet(S), \A x \in S : f[x] = 0
  PROVE  SumFunctionOnSet(f, S) = 0
  <1> DEFINE Good == {T \in SUBSET S : SumFunctionOnSet(f, T) = 0}
  <1>1. {} \in Good
    BY SumOfNone
  <1>2. ASSUME NEW T \in SUBSET S, T # {}, \A x \in T : T \ {x} \in Good PROVE T \in Good
    <2>1. IsFiniteSet(T)
      BY FS_Subset
    <2>2. /\ AnyOf(T) \in T
          /\ SumFunctionOnSet(f, T) = f[AnyOf(T)] + SumFunctionOnSet(f, T \ {AnyOf(T)})
      BY <1>2, <2>1, SumUnfold
    <2>3. SumFunctionOnSet(f, T \ {AnyOf(T)}) = 0
      BY <1>2, <2>2
    <2> QED
      BY <2>2, <2>3
  <1>3. \A T \in SUBSET S : T # {} /\ (\A x \in T : T \ {x} \in Good) => T \in Good
    BY <1>2
  <1> HIDE DEF Good
  <1>4. S \in Good
    BY <1>1, <1>3, FiniteInduction
  <1> QED
    BY <1>4 DEF Good

\* The sum over the part of a set outside which there is nothing to add.
THEOREM SumOfPart ==
  ASSUME NEW f, NEW S, IsFiniteSet(S), \A x \in S : f[x] \in Int,
         NEW R \in SUBSET S, \A x \in S \ R : f[x] = 0
  PROVE  SumFunctionOnSet(f, S) = SumFunctionOnSet(f, R)
  <1>1. IsFiniteSet(R) /\ IsFiniteSet(S \ R)
    BY FS_Subset
  <1>2. SumFunctionOnSet(f, S \ R) = 0
    BY <1>1, SumOfZeros
  <1>3. SumFunctionOnSet(f, R) \in Int
    BY <1>1, SumType
  <1>4. R \cap (S \ R) = {} /\ R \cup (S \ R) = S
    OBVIOUS
  <1>5. SumFunctionOnSet(f, R \cup (S \ R)) = SumFunctionOnSet(f, R) + SumFunctionOnSet(f, S \ R)
    BY <1>1, <1>4, SumUnion
  <1>6. SumFunctionOnSet(f, S) = SumFunctionOnSet(f, R) + SumFunctionOnSet(f, S \ R)
    BY <1>4, <1>5, Zenon
  <1> QED
    BY <1>2, <1>3, <1>6

\* A sum over other names of the same elements, when no two have the same name.
THEOREM SumReindex ==
  ASSUME NEW f, NEW h, NEW g, NEW S, IsFiniteSet(S),
         \A x \in S : f[x] \in Int /\ h[g[x]] = f[x],
         \A x, y \in S : g[x] = g[y] => x = y
  PROVE  /\ IsFiniteSet({g[x] : x \in S})
         /\ SumFunctionOnSet(h, {g[x] : x \in S}) = SumFunctionOnSet(f, S)
  <1> DEFINE named(T) == {g[x] : x \in T}
             Good == {T \in SUBSET S :
                        /\ IsFiniteSet(named(T))
                        /\ SumFunctionOnSet(h, named(T)) = SumFunctionOnSet(f, T)}
  <1>1. {} \in Good
    <2>1. named({}) = {}
      OBVIOUS
    <2> QED
      BY <2>1, SumOfNone, FS_EmptySet
  <1>2. ASSUME NEW T \in SUBSET S, T # {}, \A x \in T : T \ {x} \in Good PROVE T \in Good
    <2>1. PICK a : a \in T
      BY <1>2
    <2>2. PICK R : R = T \ {a}
      OBVIOUS
    <2>3. /\ IsFiniteSet(R) /\ IsFiniteSet(named(R))
          /\ a \notin R /\ T = R \cup {a} /\ R \in SUBSET S
      BY <1>2, <2>1, <2>2, FS_Subset
    <2>4. SumFunctionOnSet(h, named(R)) = SumFunctionOnSet(f, R)
      BY <1>2, <2>1, <2>2
    <2>5. g[a] \notin named(R) /\ named(T) = named(R) \cup {g[a]}
      BY <2>1, <2>3
    <2>6. \A y \in named(R) \cup {g[a]} : h[y] \in Int
      BY <2>1, <2>3
    <2> HIDE DEF named
    <2>7. SumFunctionOnSet(h, named(R) \cup {g[a]}) = SumFunctionOnSet(h, named(R)) + h[g[a]]
      BY <2>3, <2>5, <2>6, SumAdd
    <2>8. SumFunctionOnSet(f, R \cup {a}) = SumFunctionOnSet(f, R) + f[a]
      <3>1. \A y \in R \cup {a} : f[y] \in Int
        BY <2>1, <2>3
      <3> QED
        BY <2>3, <3>1, SumAdd
    <2>9. h[g[a]] = f[a]
      BY <2>1
    <2>10. IsFiniteSet(named(T))
      <3>1. IsFiniteSet(named(R) \cup {g[a]})
        BY <2>3, FS_AddElement
      <3> QED
        BY <2>5, <3>1, Zenon
    <2> QED
      BY <2>3, <2>4, <2>5, <2>7, <2>8, <2>9, <2>10
  <1>3. \A T \in SUBSET S : T # {} /\ (\A x \in T : T \ {x} \in Good) => T \in Good
    BY <1>2
  <1> HIDE DEF Good
  <1>4. S \in Good
    BY <1>1, <1>3, FiniteInduction
  <1> QED
    BY <1>4 DEF Good
=============================================================================
