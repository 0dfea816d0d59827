------------------------------ MODULE SumTheorems ------------------------------
(***************************************************************************)
(* Facts about SumFunctionOnSet, the sum of a function over a finite set   *)
(* of its arguments, on which the theorems about balances and statistics   *)
(* rest.  Induction is by contradiction: were a statement false of some    *)
(* finite set or number, it would be false of a smallest one.              *)
(***************************************************************************)
EXTENDS Integers, FiniteSets, Functions, FiniteSetTheorems, WellFoundedInduction, TLAPS

\* Every non-empty set of natural numbers has a least one.
LEMMA LeastNatural ==
  ASSUME NEW T, T \subseteq Nat, T # {}
  PROVE  \E n \in T : \A m \in T : n <= m
  <1>1. PICK n \in T : \A m \in T : ~(<<m, n>> \in OpToRel(<, Nat))
    BY WFMin, NatLessThanWellFounded
  <1>2. \A m \in T : ~(m < n)
    BY <1>1 DEF OpToRel
  <1> QED
    BY <1>2

\* Every non-empty set of finite sets has a smallest one.
LEMMA SmallestSet ==
  ASSUME NEW S, NEW T, T \subseteq FiniteSubsetsOf(S), T # {}
  PROVE  \E s \in T : \A t \in T : t \subseteq s => t = s
  <1>1. PICK s \in T : \A t \in T : ~(<<t, s>> \in StrictSubsetOrdering(S))
    BY WFMin, FS_StrictSubsetOrderingWellFounded
  <1>2. \A t \in T : t \subseteq s => t = s
    BY <1>1 DEF StrictSubsetOrdering, FiniteSubsetsOf
  <1> QED
    BY <1>2

-----------------------------------------------------------------------------
Pick(s) == CHOOSE x \in s : TRUE

\* g sums f over every member of D, in the order that CHOOSE gives.
Sums(g, f, D) ==
    g = [s \in D |-> IF s = {} THEN 0 ELSE f[Pick(s)] + g[s \ {Pick(s)}]]

LEMMA PickInSet == \A s : s # {} => Pick(s) \in s
  BY DEF Pick

\* The library's sum is that of a function with the defining equation.
LEMMA SumIsChosen ==
  ASSUME NEW f, NEW S
  PROVE  SumFunctionOnSet(f, S) = (CHOOSE g : Sums(g, f, SUBSET S))[S]
  BY DEF SumFunctionOnSet, FoldFunctionOnSet, MapThenFoldSet, Sums, Pick

UpTo(S, n) == {s \in SUBSET S : Cardinality(s) <= n}

\* There is such a function on the subsets of at most n elements.
LEMMA SumsUpTo ==
  ASSUME NEW S, IsFiniteSet(S), NEW f, \A x \in S : f[x] \in Int, NEW n \in Nat
  PROVE  \E g \in [UpTo(S, n) -> Int] : Sums(g, f, UpTo(S, n))
  <1> DEFINE Bad == {k \in Nat : ~\E g \in [UpTo(S, k) -> Int] : Sums(g, f, UpTo(S, k))}
  <1> USE DEF UpTo
  <1>0. \A s \in SUBSET S : /\ IsFiniteSet(s) /\ Cardinality(s) \in Nat
                            /\ Cardinality(s) = 0 <=> s = {}
                            /\ \A x \in s : Cardinality(s \ {x}) = Cardinality(s) - 1
    BY FS_Subset, FS_CardinalityType, FS_EmptySet, FS_RemoveElement
  <1>1. SUFFICES Bad = {}
    BY <1>1
  <1>2. SUFFICES ASSUME Bad # {} PROVE FALSE
    OBVIOUS
  <1> HIDE DEF Bad
  <1>3. PICK k \in Bad : \A j \in Bad : k <= j
    <2>1. Bad \subseteq Nat
      BY DEF Bad
    <2> QED
      BY <1>2, <2>1, LeastNatural
  <1>4. k \in Nat
    BY DEF Bad
  <1>5. CASE k = 0
    <2> DEFINE g == [s \in UpTo(S, 0) |-> 0]
    <2>1. \A s \in UpTo(S, 0) : s = {}
      BY <1>0
    <2>2. g \in [UpTo(S, 0) -> Int] /\ Sums(g, f, UpTo(S, 0))
      BY <2>1 DEF Sums
    <2>3. \E h \in [UpTo(S, k) -> Int] : Sums(h, f, UpTo(S, k))
      BY <1>5, <2>2
    <2> QED
      BY <2>3, <1>4 DEF Bad
  <1>6. CASE k # 0
    <2>1. k - 1 \in Nat /\ k - 1 \notin Bad
      BY <1>6, <1>3, <1>4
    <2>2. PICK g \in [UpTo(S, k - 1) -> Int] : Sums(g, f, UpTo(S, k - 1))
      BY <2>1 DEF Bad
    <2> DEFINE h == [s \in UpTo(S, k) |-> IF s \in UpTo(S, k - 1) THEN g[s]
                                    ELSE f[Pick(s)] + g[s \ {Pick(s)}]]
    <2>3. ASSUME NEW s \in UpTo(S, k), s # {}
          PROVE  s \ {Pick(s)} \in UpTo(S, k - 1) /\ Pick(s) \in S
      <3>1. Pick(s) \in s
        BY <2>3, PickInSet
      <3>2. /\ Cardinality(s) \in Nat /\ Cardinality(s) <= k
            /\ Cardinality(s \ {Pick(s)}) = Cardinality(s) - 1
        BY <3>1, <1>0
      <3>3. Cardinality(s \ {Pick(s)}) <= k - 1
        BY <3>2, <2>1, <1>4
      <3>4. s \ {Pick(s)} \in SUBSET S /\ Pick(s) \in S
        BY <3>1
      <3> QED
        BY <3>3, <3>4
    <2>4. {} \in UpTo(S, k - 1)
      BY <2>1, FS_EmptySet
    <2>5. \A s \in UpTo(S, k - 1) : s \in UpTo(S, k)
      BY <1>0, <2>1, <1>4
    <2>6. h \in [UpTo(S, k) -> Int]
      <3>1. \A s \in UpTo(S, k) : s \in UpTo(S, k - 1) => g[s] \in Int
        BY <2>2
      <3>2. \A s \in UpTo(S, k) : s \notin UpTo(S, k - 1) => f[Pick(s)] + g[s \ {Pick(s)}] \in Int
        <4> SUFFICES ASSUME NEW s \in UpTo(S, k), s \notin UpTo(S, k - 1)
                     PROVE  f[Pick(s)] + g[s \ {Pick(s)}] \in Int
          OBVIOUS
        <4>1. s \ {Pick(s)} \in UpTo(S, k - 1) /\ Pick(s) \in S
          BY <2>3, <2>4
        <4>2. f[Pick(s)] \in Int /\ g[s \ {Pick(s)}] \in Int
          BY <4>1, <2>2
        <4> QED
          BY <4>2
      <3> QED
        BY <3>1, <3>2
    <2>7. ASSUME NEW s \in UpTo(S, k)
          PROVE  h[s] = IF s = {} THEN 0 ELSE f[Pick(s)] + h[s \ {Pick(s)}]
      <3>1. CASE s = {}
        BY <3>1, <2>2, <2>4 DEF Sums
      <3>2. CASE s # {} /\ s \in UpTo(S, k - 1)
        <4>1. g[s] = f[Pick(s)] + g[s \ {Pick(s)}]
          BY <3>2, <2>2 DEF Sums
        <4> QED
          BY <4>1, <3>2, <2>3, <2>5
      <3>3. CASE s # {} /\ s \notin UpTo(S, k - 1)
        BY <3>3, <2>3, <2>5
      <3> QED
        BY <3>1, <3>2, <3>3
    <2>8. Sums(h, f, UpTo(S, k))
      BY <2>7 DEF Sums
    <2> QED
      BY <2>6, <2>8, <1>4 DEF Bad
  <1> QED
    BY <1>5, <1>6

\* The sum over a finite set is a value of such a function.
LEMMA SumsExist ==
  ASSUME NEW S, IsFiniteSet(S), NEW f, \A x \in S : f[x] \in Int
  PROVE  \E g \in [SUBSET S -> Int] : Sums(g, f, SUBSET S)
  <1>1. PICK n \in Nat : n = Cardinality(S)
    BY FS_CardinalityType
  <1>2. UpTo(S, n) = SUBSET S
    BY <1>1, FS_Subset DEF UpTo
  <1>3. \E g \in [UpTo(S, n) -> Int] : Sums(g, f, UpTo(S, n))
    BY SumsUpTo
  <1> QED
    BY <1>2, <1>3

\* e and f have the same values on S.
SameOn(e, f, S) == \A x \in S : e[x] = f[x]

\* Two such functions agree where both are defined.
LEMMA SumsAgree ==
  \A S, U, e, f, g, h :
      (/\ IsFiniteSet(U) /\ U \subseteq S /\ SameOn(e, f, U)
       /\ Sums(g, f, SUBSET S) /\ Sums(h, e, SUBSET U))
      => g[U] = h[U]
  <1> TAKE S, U, e, f, g, h
  <1> HAVE /\ IsFiniteSet(U) /\ U \subseteq S /\ SameOn(e, f, U)
           /\ Sums(g, f, SUBSET S) /\ Sums(h, e, SUBSET U)
  <1> DEFINE Bad == {s \in SUBSET U : g[s] # h[s]}
  <1>1. SUFFICES Bad = {}
    BY <1>1
  <1>2. \A s \in Bad : s \subseteq U /\ IsFiniteSet(s)
    BY FS_Subset
  <1>3. SUFFICES ASSUME Bad # {} PROVE FALSE
    OBVIOUS
  <1>least. PICK s \in Bad : \A t \in Bad : t \subseteq s => t = s
    <2>1. Bad \subseteq FiniteSubsetsOf(U)
      BY <1>2 DEF FiniteSubsetsOf
    <2> HIDE DEF Bad
    <2> QED
      BY <1>3, <2>1, SmallestSet
  <1>4. /\ g[s] = IF s = {} THEN 0 ELSE f[Pick(s)] + g[s \ {Pick(s)}]
        /\ h[s] = IF s = {} THEN 0 ELSE e[Pick(s)] + h[s \ {Pick(s)}]
    BY DEF Sums
  <1>5. CASE s = {}
    BY <1>4, <1>5
  <1>6. CASE s # {}
    <2>1. Pick(s) \in s
      BY <1>6, PickInSet
    <2>2. g[s \ {Pick(s)}] = h[s \ {Pick(s)}]
      BY <2>1, <1>least
    <2> QED
      BY <1>4, <1>6, <2>1, <2>2 DEF SameOn
  <1> QED
    BY <1>5, <1>6

\* The chosen function has the defining equation.
LEMMA ChosenSums ==
  ASSUME NEW S, IsFiniteSet(S), NEW f, \A x \in S : f[x] \in Int
  PROVE  /\ Sums(CHOOSE g : Sums(g, f, SUBSET S), f, SUBSET S)
         /\ SumFunctionOnSet(f, S) \in Int
  <1> DEFINE c == CHOOSE g : Sums(g, f, SUBSET S)
  <1>1. PICK g \in [SUBSET S -> Int] : Sums(g, f, SUBSET S)
    BY SumsExist
  <1>2. Sums(c, f, SUBSET S)
    BY <1>1
  <1> HIDE DEF c
  <1>3. SameOn(f, f, S)
    BY DEF SameOn
  <1>4. c[S] = g[S]
    BY <1>1, <1>2, <1>3, SumsAgree
  <1> QED
    BY <1>1, <1>2, <1>4, SumIsChosen DEF c

-----------------------------------------------------------------------------
\* A sum of integers is an integer.
LEMMA SumType ==
  ASSUME NEW S, IsFiniteSet(S), NEW f, \A x \in S : f[x] \in Int
  PROVE  SumFunctionOnSet(f, S) \in Int
  BY ChosenSums

\* A sum depends on the function at the summed arguments only.
LEMMA SumCongruence ==
  ASSUME NEW S, IsFiniteSet(S), NEW f, \A x \in S : f[x] \in Int,
         NEW e, SameOn(e, f, S)
  PROVE  SumFunctionOnSet(e, S) = SumFunctionOnSet(f, S)
  <1> DEFINE c(d) == CHOOSE g : Sums(g, d, SUBSET S)
  <1>1. \A x \in S : e[x] \in Int
    BY DEF SameOn
  <1>2. Sums(c(f), f, SUBSET S) /\ Sums(c(e), e, SUBSET S)
    BY <1>1, ChosenSums
  <1> HIDE DEF c
  <1>3. c(f)[S] = c(e)[S]
    BY <1>2, SumsAgree
  <1> QED
    BY <1>3, SumIsChosen DEF c

\* The sum over no argument is zero.
LEMMA SumEmpty == \A f : SumFunctionOnSet(f, {}) = 0
  <1> SUFFICES ASSUME NEW f PROVE SumFunctionOnSet(f, {}) = 0
    OBVIOUS
  <1> DEFINE c == CHOOSE g : Sums(g, f, SUBSET {})
  <1>1. Sums(c, f, SUBSET {})
    BY ChosenSums, FS_EmptySet
  <1>2. c[{}] = 0
    BY <1>1 DEF Sums
  <1> QED
    BY <1>2, SumIsChosen

\* The defining equation, for sums.
LEMMA SumPick ==
  ASSUME NEW S, IsFiniteSet(S), S # {}, NEW f, \A x \in S : f[x] \in Int
  PROVE  SumFunctionOnSet(f, S) = f[Pick(S)] + SumFunctionOnSet(f, S \ {Pick(S)})
  <1> DEFINE c(s) == CHOOSE g : Sums(g, f, SUBSET s)
             R == S \ {Pick(S)}
  <1>1. IsFiniteSet(R) /\ R \subseteq S /\ \A x \in R : f[x] \in Int
    BY FS_Subset
  <1>2. Sums(c(S), f, SUBSET S)
    BY ChosenSums
  <1>3. Sums(c(R), f, SUBSET R)
    BY <1>1, ChosenSums
  <1> HIDE DEF c, R
  <1>4. c(S)[S] = f[Pick(S)] + c(S)[R]
    BY <1>2 DEF Sums, R
  <1>5. SameOn(f, f, R)
    BY DEF SameOn
  <1>6. c(S)[R] = c(R)[R]
    BY <1>1, <1>2, <1>3, <1>5, SumsAgree
  <1> QED
    BY <1>4, <1>6, SumIsChosen DEF c, R

\* Any argument may be summed first.
LEMMA SumRemove ==
  ASSUME NEW S, IsFiniteSet(S), NEW f, \A y \in S : f[y] \in Int, NEW x \in S
  PROVE  SumFunctionOnSet(f, S) = f[x] + SumFunctionOnSet(f, S \ {x})
  <1> DEFINE Bad == {s \in SUBSET S : \E y \in s :
                SumFunctionOnSet(f, s) # f[y] + SumFunctionOnSet(f, s \ {y})}
  <1>1. SUFFICES Bad = {}
    BY <1>1
  <1>2. \A s \in SUBSET S : IsFiniteSet(s) /\ SumFunctionOnSet(f, s) \in Int
    BY FS_Subset, SumType
  <1>3. SUFFICES ASSUME Bad # {} PROVE FALSE
    OBVIOUS
  <1>least. PICK s \in Bad : \A t \in Bad : t \subseteq s => t = s
    <2>1. Bad \subseteq FiniteSubsetsOf(S)
      BY <1>2 DEF FiniteSubsetsOf
    <2> HIDE DEF Bad
    <2> QED
      BY <1>3, <2>1, SmallestSet
  <1>4. PICK y \in s : SumFunctionOnSet(f, s) # f[y] + SumFunctionOnSet(f, s \ {y})
    OBVIOUS
  <1>5. SumFunctionOnSet(f, s) = f[Pick(s)] + SumFunctionOnSet(f, s \ {Pick(s)})
    BY <1>2, <1>4, SumPick
  <1>6. Pick(s) \in s /\ Pick(s) # y
    BY <1>4, <1>5, PickInSet
  <1>7. SumFunctionOnSet(f, s \ {Pick(s)}) =
          f[y] + SumFunctionOnSet(f, (s \ {Pick(s)}) \ {y})
    <2>1. s \ {Pick(s)} \notin Bad
      BY <1>least, <1>6
    <2> QED
      BY <2>1, <1>4, <1>6
  <1>8. SumFunctionOnSet(f, s \ {y}) =
          f[Pick(s)] + SumFunctionOnSet(f, (s \ {y}) \ {Pick(s)})
    <2>1. s \ {y} \notin Bad
      BY <1>least, <1>4
    <2> QED
      BY <2>1, <1>4, <1>6
  <1>9. (s \ {y}) \ {Pick(s)} = (s \ {Pick(s)}) \ {y}
    OBVIOUS
  <1>10. /\ f[y] \in Int /\ f[Pick(s)] \in Int
         /\ SumFunctionOnSet(f, (s \ {Pick(s)}) \ {y}) \in Int
    BY <1>2, <1>4, <1>6
  <1> QED
    BY <1>4, <1>5, <1>7, <1>8, <1>9, <1>10

\* A new argument adds its value.
LEMMA SumAdd ==
  ASSUME NEW S, IsFiniteSet(S), NEW x, x \notin S,
         NEW f, \A y \in S \cup {x} : f[y] \in Int
  PROVE  SumFunctionOnSet(f, S \cup {x}) = f[x] + SumFunctionOnSet(f, S)
  <1>1. IsFiniteSet(S \cup {x})
    BY FS_AddElement
  <1>2. (S \cup {x}) \ {x} = S
    OBVIOUS
  <1> QED
    BY <1>1, <1>2, SumRemove

\* Sums over disjoint sets add up.
LEMMA SumUnion ==
  ASSUME NEW S, IsFiniteSet(S), NEW T, IsFiniteSet(T), S \cap T = {},
         NEW f, \A x \in S \cup T : f[x] \in Int
  PROVE  SumFunctionOnSet(f, S \cup T) = SumFunctionOnSet(f, S) + SumFunctionOnSet(f, T)
  <1> DEFINE Good(t) == SumFunctionOnSet(f, S \cup t) =
                            SumFunctionOnSet(f, S) + SumFunctionOnSet(f, t)
             Bad == {t \in SUBSET T : ~Good(t)}
  <1>1. SUFFICES ASSUME Bad # {} PROVE FALSE
    OBVIOUS
  <1>2. \A t \in SUBSET T : /\ IsFiniteSet(t) /\ IsFiniteSet(S \cup t)
                            /\ SumFunctionOnSet(f, t) \in Int
                            /\ SumFunctionOnSet(f, S \cup t) \in Int
    BY FS_Subset, FS_Union, SumType
  <1>3. PICK t \in Bad : \A u \in Bad : u \subseteq t => u = t
    <2>1. Bad \subseteq FiniteSubsetsOf(T)
      BY <1>2 DEF FiniteSubsetsOf
    <2> HIDE DEF Bad
    <2> QED
      BY <1>1, <2>1, SmallestSet
  <1>4. SumFunctionOnSet(f, S) \in Int
    BY SumType
  <1>5. t # {}
    <2>1. S \cup {} = S
      OBVIOUS
    <2>2. Good({})
      BY <1>4, <2>1, SumEmpty
    <2> QED
      BY <2>2
  <1>6. PICK x \in t : TRUE
    BY <1>5
  <1>7. Good(t \ {x})
    BY <1>3, <1>6
  <1>8. SumFunctionOnSet(f, t) = f[x] + SumFunctionOnSet(f, t \ {x})
    BY <1>2, SumRemove
  <1>9. SumFunctionOnSet(f, S \cup t) = f[x] + SumFunctionOnSet(f, S \cup (t \ {x}))
    <2>1. (S \cup t) \ {x} = S \cup (t \ {x})
      BY <1>6
    <2>2. x \in S \cup t /\ IsFiniteSet(S \cup t) /\ \A y \in S \cup t : f[y] \in Int
      BY <1>2, <1>6
    <2>3. SumFunctionOnSet(f, S \cup t) = f[x] + SumFunctionOnSet(f, (S \cup t) \ {x})
      BY <2>2, SumRemove
    <2> QED
      BY <2>1, <2>3
  <1>10. /\ f[x] \in Int /\ SumFunctionOnSet(f, t \ {x}) \in Int
         /\ t \ {x} \in SUBSET T /\ t \in SUBSET T
    BY <1>2, <1>6
  <1>11. Good(t)
    BY <1>4, <1>7, <1>8, <1>9, <1>10
  <1> QED
    BY <1>11

\* The sum of the opposite values.
LEMMA SumNegate ==
  ASSUME NEW S, IsFiniteSet(S), NEW f, \A x \in S : f[x] \in Int,
         NEW e, \A x \in S : e[x] = -f[x]
  PROVE  SumFunctionOnSet(e, S) = -SumFunctionOnSet(f, S)
  <1> DEFINE Good(s) == SumFunctionOnSet(e, s) = -SumFunctionOnSet(f, s)
             Bad == {s \in SUBSET S : ~Good(s)}
  <1>1. SUFFICES ASSUME Bad # {} PROVE FALSE
    OBVIOUS
  <1>2. \A s \in SUBSET S : /\ IsFiniteSet(s) /\ SumFunctionOnSet(f, s) \in Int
                            /\ \A x \in s : e[x] \in Int /\ f[x] \in Int
    BY FS_Subset, SumType
  <1>3. PICK s \in Bad : \A u \in Bad : u \subseteq s => u = s
    <2>1. Bad \subseteq FiniteSubsetsOf(S)
      BY <1>2 DEF FiniteSubsetsOf
    <2> HIDE DEF Bad
    <2> QED
      BY <1>1, <2>1, SmallestSet
  <1>4. s # {}
    BY SumEmpty
  <1>5. PICK x \in s : TRUE
    BY <1>4
  <1>6. Good(s \ {x})
    BY <1>3, <1>5
  <1>7. /\ SumFunctionOnSet(f, s) = f[x] + SumFunctionOnSet(f, s \ {x})
        /\ SumFunctionOnSet(e, s) = e[x] + SumFunctionOnSet(e, s \ {x})
    BY <1>2, SumRemove
  <1>8. f[x] \in Int /\ e[x] = -f[x] /\ SumFunctionOnSet(f, s \ {x}) \in Int
    BY <1>2, <1>5
  <1>9. Good(s)
    BY <1>6, <1>7, <1>8
  <1> QED
    BY <1>9

\* If every argument has a partner of its own with no smaller value, the sum over
\* the partners is no smaller.
LEMMA SumPartners ==
  ASSUME NEW S, IsFiniteSet(S), NEW T, IsFiniteSet(T), NEW h, \A x \in S : h[x] \in T,
         \A x, y \in S : h[x] = h[y] => x = y,
         NEW f, \A x \in S : f[x] \in Int, NEW g, \A y \in T : g[y] \in Int,
         \A x \in S : f[x] <= g[h[x]]
  PROVE  SumFunctionOnSet(f, S) <= SumFunctionOnSet(g, {h[x] : x \in S})
  <1> DEFINE Image(s) == {h[x] : x \in s}
             Good(s) == SumFunctionOnSet(f, s) <= SumFunctionOnSet(g, Image(s))
             Bad == {s \in SUBSET S : ~Good(s)}
  <1>1. SUFFICES ASSUME Bad # {} PROVE FALSE
    OBVIOUS
  <1>2. ASSUME NEW s \in SUBSET S
        PROVE  /\ IsFiniteSet(s) /\ SumFunctionOnSet(f, s) \in Int
               /\ Image(s) \subseteq T /\ IsFiniteSet(Image(s))
               /\ SumFunctionOnSet(g, Image(s)) \in Int
    <2>1. IsFiniteSet(s) /\ Image(s) \subseteq T
      BY FS_Subset
    <2>2. IsFiniteSet(Image(s))
      BY <2>1, FS_Subset
    <2>3. SumFunctionOnSet(f, s) \in Int
      BY <2>1, SumType
    <2> HIDE DEF Image
    <2>4. SumFunctionOnSet(g, Image(s)) \in Int
      BY <2>1, <2>2, SumType
    <2> QED
      BY <2>1, <2>2, <2>3, <2>4
  <1>3. PICK s \in Bad : \A u \in Bad : u \subseteq s => u = s
    <2>1. Bad \subseteq FiniteSubsetsOf(S)
      BY <1>2 DEF FiniteSubsetsOf
    <2> HIDE DEF Bad
    <2> QED
      BY <1>1, <2>1, SmallestSet
  <1>4. s # {}
    <2>1. Image({}) = {}
      OBVIOUS
    <2>2. Good({})
      BY <2>1, SumEmpty
    <2> QED
      BY <2>2
  <1>5. PICK x \in s : TRUE
    BY <1>4
  <1>6. Good(s \ {x})
    BY <1>3, <1>5
  <1>7. h[x] \in Image(s) /\ Image(s) \ {h[x]} = Image(s \ {x})
    BY <1>5
  <1>8. SumFunctionOnSet(f, s) = f[x] + SumFunctionOnSet(f, s \ {x})
    BY <1>2, SumRemove
  <1>9. SumFunctionOnSet(g, Image(s)) = g[h[x]] + SumFunctionOnSet(g, Image(s \ {x}))
    <2>1. IsFiniteSet(Image(s)) /\ \A y \in Image(s) : g[y] \in Int
      BY <1>2
    <2> HIDE DEF Image
    <2>2. SumFunctionOnSet(g, Image(s)) = g[h[x]] + SumFunctionOnSet(g, Image(s) \ {h[x]})
      BY <1>7, <2>1, SumRemove
    <2> QED
      BY <1>7, <2>2
  <1>10. /\ f[x] \in Int /\ g[h[x]] \in Int /\ f[x] <= g[h[x]]
         /\ SumFunctionOnSet(f, s \ {x}) \in Int
         /\ SumFunctionOnSet(g, Image(s \ {x})) \in Int
    BY <1>2, <1>5
  <1> HIDE DEF Image
  <1>11. Good(s)
    BY <1>6, <1>8, <1>9, <1>10
  <1> QED
    BY <1>11

\* The sum of natural numbers is one.
LEMMA SumNonNegative ==
  ASSUME NEW S, IsFiniteSet(S), NEW f, \A x \in S : f[x] \in Int /\ f[x] >= 0
  PROVE  SumFunctionOnSet(f, S) >= 0
  <1> DEFINE zero == [x \in S |-> 0]
             same == [x \in S |-> x]
  <1>0. \A x \in S : zero[x] = 0 /\ same[x] = x
    OBVIOUS
  <1> HIDE DEF zero, same
  <1>1. /\ \A x \in S : zero[x] \in Int /\ zero[x] = -zero[x] /\ zero[x] <= f[x]
        /\ \A x \in S : same[x] = x
    BY <1>0
  <1>2. {same[x] : x \in S} = S
    BY <1>1
  <1>3. SumFunctionOnSet(zero, S) = -SumFunctionOnSet(zero, S)
    BY <1>1, SumNegate
  <1>4. SumFunctionOnSet(zero, S) \in Int /\ SumFunctionOnSet(f, S) \in Int
    BY <1>1, SumType
  <1>5. SumFunctionOnSet(zero, S) <= SumFunctionOnSet(f, {same[x] : x \in S})
    BY <1>1, SumPartners
  <1> QED
    BY <1>2, <1>3, <1>4, <1>5

-----------------------------------------------------------------------------
(* Remainders. *)

\* n and x differ by a multiple of m.
Congruent(x, n, m) == \E q \in Int : x = m * q + n

LEMMA CongruentIntro ==
  ASSUME NEW x, NEW n, NEW m, NEW q \in Int, x = m * q + n
  PROVE  Congruent(x, n, m)
  BY DEF Congruent

\* A remainder is known from any way to write a number as a multiple and a rest.
LEMMA RemainderUnique ==
  ASSUME NEW x \in Int, NEW m \in Nat, m > 0, NEW q \in Int, NEW r \in 0 .. (m - 1),
         x = m * q + r
  PROVE  x % m = r
  BY SMTT(30)

\* So is a quotient.
LEMMA DivUnique ==
  ASSUME NEW x \in Int, NEW m \in Nat, m > 0, NEW q \in Int, NEW r \in 0 .. (m - 1),
         x = m * q + r
  PROVE  x \div m = q
  BY SMTT(30)

\* Every integer is a multiple of m and its remainder: the least natural number
\* that differs from it by a multiple is below m.
LEMMA RemainderCongruent ==
  ASSUME NEW x \in Int, NEW m \in Nat, m > 0
  PROVE  Congruent(x, x % m, m)
  <1> DEFINE T == {n \in Nat : Congruent(x, n, m)}
  <1>1. T # {}
    <2>1. CASE x >= 0
      <3>1. PICK z \in Int : z = 0
        OBVIOUS
      <3>2. x = m * z + x
        BY <3>1
      <3>3. Congruent(x, x, m)
        BY <3>2, CongruentIntro
      <3> QED
        BY <2>1, <3>3
    <2>2. CASE x < 0
      <3>1. PICK n \in Int : n = x - m * x
        OBVIOUS
      <3>2. m * x <= x
        BY <2>2
      <3>3. n \in Nat /\ x = m * x + n
        BY <3>1, <3>2
      <3>4. Congruent(x, n, m)
        BY <3>3, CongruentIntro
      <3> QED
        BY <3>3, <3>4
    <2> QED
      BY <2>1, <2>2
  <1>2. T \subseteq Nat
    OBVIOUS
  <1>3. PICK n \in T : \A l \in T : n <= l
    <2> HIDE DEF T
    <2> QED
      BY <1>1, <1>2, LeastNatural
  <1>4. n \in Nat /\ Congruent(x, n, m)
    OBVIOUS
  <1>5. PICK q \in Int : x = m * q + n
    BY <1>4 DEF Congruent
  <1>6. n < m
    <2> SUFFICES ASSUME n >= m PROVE FALSE
      BY <1>4
    <2>1. n - m \in Nat /\ q + 1 \in Int /\ x = m * (q + 1) + (n - m)
      BY <1>4, <1>5
    <2>2. Congruent(x, n - m, m)
      BY <2>1, CongruentIntro
    <2>3. n - m \in T
      BY <2>1, <2>2
    <2> QED
      BY <1>3, <1>4, <2>3
  <1>7. x % m = n
    BY <1>4, <1>5, <1>6, RemainderUnique
  <1> QED
    BY <1>4, <1>7

\* Multiples of m do not show in the remainder.
LEMMA RemainderKept ==
  ASSUME NEW x \in Int, NEW m \in Nat, m > 0, NEW k \in Int
  PROVE  (x - m * k) % m = x % m
  <1>1. PICK r \in 0 .. (m - 1) : r = x % m
    OBVIOUS
  <1>2. Congruent(x, r, m)
    BY <1>1, RemainderCongruent
  <1>3. PICK q \in Int : x = m * q + r
    BY <1>2 DEF Congruent
  <1>4. x - m * k \in Int /\ q - k \in Int /\ x - m * k = m * (q - k) + r
    BY <1>3
  <1>5. (x - m * k) % m = r
    BY <1>4, RemainderUnique
  <1> QED
    BY <1>1, <1>5

================================================================================
